-------------------------- MODULE CostQuotaProofs --------------------------
(***************************************************************************)
(* That QuotaInv, OvershootBounded and AnomalyAlerted hold in every          *)
(* reachable state of CostQuota, for any number of callers and days, any     *)
(* costs, caps, window and multiplier.  The sums come first, then the        *)
(* inductive invariant IInv, one lemma for each of its parts, the theorems.  *)
(***************************************************************************)
EXTENDS CostQuota, FiniteSetTheorems, WellFoundedInduction, TLAPS

\* Induction over the numbers in a set, from the library's well-foundedness of <.
LEMMA LeastNumber ==
    ASSUME NEW T, T \subseteq Nat, T # {}
    PROVE  \E x \in T : \A y \in T : x <= y
  <1>. DEFINE R == OpToRel(<, Nat)
  <1>1. IsWellFoundedOn(R, Nat)
    BY NatLessThanWellFounded
  <1>. HIDE DEF R
  <1>2. PICK x \in T : \A y \in T : <<y, x>> \notin R
    BY <1>1, WFMin
  <1>3. \A y \in T : ~(y < x)
    BY <1>2 DEF R, OpToRel
  <1>. QED
    BY <1>2, <1>3

\* What 0 is in and passes on to the next number holds every number.
LEMMA EveryNumber ==
    ASSUME NEW S, 0 \in S, \A n \in Nat : n \in S => n + 1 \in S
    PROVE  \A n \in Nat : n \in S
  <1>. DEFINE T == Nat \ S
  <1>. SUFFICES ASSUME T # {} PROVE FALSE
    OBVIOUS
  <1>1. PICK x \in T : \A y \in T : x <= y
    BY LeastNumber
  <1>2. x # 0 /\ x - 1 \in Nat
    BY <1>1
  <1>3. x - 1 \in S
    BY <1>1, <1>2
  <1>. QED
    BY <1>2, <1>3

-----------------------------------------------------------------------------
\* The sum of a function's values, which the community modules define by taking
\* one element after another: whichever comes first, the sum is the same.
First(T) == CHOOSE x \in T : TRUE

Sums(f, g, D) ==
    g = [T \in SUBSET D |-> IF T = {} THEN 0 ELSE f[First(T)] + g[T \ {First(T)}]]

\* The element taken first is an element.
LEMMA FirstIs == ASSUME NEW T, T # {} PROVE First(T) \in T
  BY DEF First

\* The community modules' sum is one of the functions Sums describes.
LEMMA SumIs ==
    ASSUME NEW f
    PROVE  SumFunction(f) = (CHOOSE g : Sums(f, g, DOMAIN f))[DOMAIN f]
  BY DEF SumFunction, SumFunctionOnSet, FoldFunctionOnSet, MapThenFoldSet, Sums, First

\* One element less is a cardinality of one less.
LEMMA OneLess ==
    ASSUME NEW T, IsFiniteSet(T), NEW x \in T
    PROVE  /\ Cardinality(T) \in Nat /\ Cardinality(T \ {x}) \in Nat /\ IsFiniteSet(T \ {x})
           /\ Cardinality(T) = Cardinality(T \ {x}) + 1
  <1>1. IsFiniteSet(T \ {x}) /\ Cardinality(T \ {x}) = Cardinality(T) - 1
    BY FS_RemoveElement
  <1>2. Cardinality(T) \in Nat /\ Cardinality(T \ {x}) \in Nat
    BY <1>1, FS_CardinalityType
  <1>3. Cardinality(T) # 0
    BY FS_EmptySet
  <1>. QED
    BY <1>1, <1>2, <1>3

\* Of a finite domain there is such a function.
LEMMA SumsExist ==
    ASSUME NEW D, IsFiniteSet(D), NEW f
    PROVE  \E g : Sums(f, g, D)
  <1>. DEFINE Upto(h, n) == \A T \in SUBSET D : Cardinality(T) <= n =>
                  h[T] = IF T = {} THEN 0 ELSE f[First(T)] + h[T \ {First(T)}]
              S == {n \in Nat : \E h : Upto(h, n)}
  <1>1. \A T \in SUBSET D : IsFiniteSet(T) /\ Cardinality(T) \in Nat
    BY FS_Subset, FS_CardinalityType
  <1>2. 0 \in S
    <2>. DEFINE h == [T \in SUBSET D |-> 0]
    <2>1. \A T \in SUBSET D : Cardinality(T) <= 0 => T = {}
      BY <1>1, FS_EmptySet
    <2>2. Upto(h, 0)
      BY <2>1
    <2>. HIDE DEF h, Upto
    <2>. QED
      BY <2>2
  <1>3. ASSUME NEW n \in Nat, n \in S PROVE n + 1 \in S
    <2>1. PICK h : Upto(h, n)
      BY <1>3
    <2>. DEFINE k == [T \in SUBSET D |-> IF Cardinality(T) <= n THEN h[T]
                                         ELSE f[First(T)] + h[T \ {First(T)}]]
    <2>2. ASSUME NEW T \in SUBSET D, Cardinality(T) <= n + 1
          PROVE  k[T] = IF T = {} THEN 0 ELSE f[First(T)] + k[T \ {First(T)}]
      <3>1. CASE T = {}
        <4>1. Cardinality(T) <= n
          BY <3>1, FS_EmptySet
        <4>. QED
          BY <2>1, <3>1, <4>1
      <3>2. CASE T # {}
        <4>1. /\ First(T) \in T /\ T \ {First(T)} \in SUBSET D
              /\ Cardinality(T) = Cardinality(T \ {First(T)}) + 1
              /\ Cardinality(T \ {First(T)}) \in Nat
          BY <1>1, <3>2, FirstIs, OneLess
        <4>2. Cardinality(T \ {First(T)}) <= n
          BY <2>2, <4>1
        <4>3. k[T \ {First(T)}] = h[T \ {First(T)}]
          BY <4>1, <4>2
        <4>4. Cardinality(T) <= n => h[T] = f[First(T)] + h[T \ {First(T)}]
          BY <2>1, <3>2
        <4>. QED
          BY <3>2, <4>3, <4>4
      <3>. QED
        BY <3>1, <3>2
    <2>3. Upto(k, n + 1)
      BY <2>2
    <2>. HIDE DEF k, Upto
    <2>. QED
      BY <2>3
  <1>4. Cardinality(D) \in S
    <2>. HIDE DEF S
    <2>. QED
      BY <1>1, <1>2, <1>3, EveryNumber
  <1>5. PICK h : Upto(h, Cardinality(D))
    BY <1>4
  <1>. DEFINE g == [T \in SUBSET D |-> h[T]]
  <1>6. ASSUME NEW T \in SUBSET D
        PROVE  h[T] = IF T = {} THEN 0 ELSE f[First(T)] + g[T \ {First(T)}]
    <2>1. Cardinality(T) <= Cardinality(D)
      BY FS_Subset
    <2>2. T \ {First(T)} \in SUBSET D
      OBVIOUS
    <2>. QED
      BY <1>5, <2>1, <2>2
  <1>7. g = [T \in SUBSET D |-> IF T = {} THEN 0 ELSE f[First(T)] + g[T \ {First(T)}]]
    BY <1>6
  <1>. HIDE DEF g
  <1>. QED
    BY <1>7 DEF Sums

\* Whichever element comes first, the sum of the rest and it is the same.
LEMMA AnyFirst ==
    ASSUME NEW D, IsFiniteSet(D), NEW f \in [D -> Nat], NEW g, Sums(f, g, D)
    PROVE  /\ g[{}] = 0
           /\ \A T \in SUBSET D : g[T] \in Nat /\ \A x \in T : g[T] = f[x] + g[T \ {x}]
  <1>. DEFINE Any(T) == g[T] \in Nat /\ \A x \in T : g[T] = f[x] + g[T \ {x}]
              S == {n \in Nat : \A T \in SUBSET D : Cardinality(T) <= n => Any(T)}
  <1>1. \A T \in SUBSET D : IsFiniteSet(T) /\ Cardinality(T) \in Nat
    BY FS_Subset, FS_CardinalityType
  <1>2. g[{}] = 0
    BY DEF Sums
  <1>3. 0 \in S
    <2>1. \A T \in SUBSET D : Cardinality(T) <= 0 => T = {}
      BY <1>1, FS_EmptySet
    <2>. QED
      BY <1>2, <2>1
  <1>4. ASSUME NEW n \in Nat, n \in S PROVE n + 1 \in S
    <2>. SUFFICES ASSUME NEW T \in SUBSET D, Cardinality(T) <= n + 1 PROVE Any(T)
      OBVIOUS
    <2>1. CASE T = {}
      BY <1>2, <2>1
    <2>2. CASE T # {}
      <3>1. PICK y : y = First(T)
        OBVIOUS
      <3>2. \A x \in T : T \ {x} \in SUBSET D /\ Cardinality(T \ {x}) <= n
        BY <1>1, OneLess
      <3>3. \A x \in T : Any(T \ {x})
        BY <1>4, <3>2
      <3>4. y \in T /\ f[y] \in Nat
        BY <2>2, <3>1, FirstIs
      <3>5. g[T] = f[y] + g[T \ {y}]
        BY <2>2, <3>1 DEF Sums
      <3>6. ASSUME NEW x \in T PROVE g[T] = f[x] + g[T \ {x}]
        <4>1. CASE x = y
          BY <3>5, <4>1
        <4>2. CASE x # y
          <5>1. PICK U : U = (T \ {y}) \ {x}
            OBVIOUS
          <5>2. U = (T \ {x}) \ {y} /\ x \in T \ {y} /\ y \in T \ {x}
            BY <3>4, <4>2, <5>1
          <5>3. g[T \ {y}] = f[x] + g[U] /\ g[T \ {x}] = f[y] + g[U]
            BY <3>3, <3>4, <5>1, <5>2
          <5>4. U \in SUBSET D /\ Cardinality(U) <= n
            <6>1. Cardinality(T \ {y}) <= n /\ IsFiniteSet(T \ {y}) /\ T \ {y} \in SUBSET D
              BY <1>1, <3>2, <3>4
            <6>2. Cardinality(U) <= Cardinality(T \ {y}) /\ U \in SUBSET D
              BY <1>1, <5>1, <6>1, FS_Subset
            <6>. QED
              BY <1>1, <6>1, <6>2
          <5>5. g[U] \in Nat /\ f[x] \in Nat
            BY <1>4, <5>4
          <5>. QED
            BY <3>4, <3>5, <5>3, <5>5
        <4>. QED
          BY <4>1, <4>2
      <3>7. g[T] \in Nat
        BY <3>3, <3>4, <3>5
      <3>. QED
        BY <3>6, <3>7
    <2>. QED
      BY <2>1, <2>2
  <1>. HIDE DEF S
  <1>5. \A n \in Nat : n \in S
    BY <1>3, <1>4, EveryNumber
  <1>6. ASSUME NEW T \in SUBSET D PROVE Any(T)
    <2>1. Cardinality(T) \in Nat /\ Cardinality(T) <= Cardinality(T)
      BY <1>1
    <2>. QED
      BY <1>5, <2>1 DEF S
  <1>. QED
    BY <1>2, <1>6

\* Where two functions agree, so do their sums.
LEMMA SumsAgree ==
    ASSUME NEW D, NEW E, IsFiniteSet(D), NEW f, NEW g, NEW k, NEW h,
           Sums(f, g, D), Sums(k, h, E), NEW X, X \subseteq D, X \subseteq E,
           \A x \in X : f[x] = k[x]
    PROVE  g[X] = h[X]
  <1>. DEFINE S == {n \in Nat : \A T \in SUBSET X : Cardinality(T) = n => g[T] = h[T]}
  <1>1. \A T \in SUBSET X : IsFiniteSet(T) /\ Cardinality(T) \in Nat
    BY FS_Subset, FS_CardinalityType
  <1>2. \A T \in SUBSET X :
           /\ g[T] = IF T = {} THEN 0 ELSE f[First(T)] + g[T \ {First(T)}]
           /\ h[T] = IF T = {} THEN 0 ELSE k[First(T)] + h[T \ {First(T)}]
    <2>. SUFFICES ASSUME NEW T \in SUBSET X
                  PROVE  /\ g[T] = IF T = {} THEN 0 ELSE f[First(T)] + g[T \ {First(T)}]
                         /\ h[T] = IF T = {} THEN 0 ELSE k[First(T)] + h[T \ {First(T)}]
      OBVIOUS
    <2>1. T \in SUBSET D /\ T \in SUBSET E
      OBVIOUS
    <2>. QED
      BY <2>1 DEF Sums
  <1>3. 0 \in S
    <2>1. \A T \in SUBSET X : Cardinality(T) = 0 => T = {}
      BY <1>1, FS_EmptySet
    <2>2. g[{}] = 0 /\ h[{}] = 0
      BY <1>2
    <2>. QED
      BY <2>1, <2>2
  <1>4. ASSUME NEW n \in Nat, n \in S PROVE n + 1 \in S
    <2>. SUFFICES ASSUME NEW T \in SUBSET X, Cardinality(T) = n + 1 PROVE g[T] = h[T]
      OBVIOUS
    <2>1. T # {}
      BY FS_EmptySet
    <2>2. First(T) \in T /\ T \ {First(T)} \in SUBSET X /\ Cardinality(T \ {First(T)}) = n
      BY <1>1, <2>1, FirstIs, OneLess
    <2>3. g[T \ {First(T)}] = h[T \ {First(T)}] /\ f[First(T)] = k[First(T)]
      BY <1>4, <2>2
    <2>. QED
      BY <1>2, <2>1, <2>3
  <1>. HIDE DEF S
  <1>5. \A n \in Nat : n \in S
    BY <1>3, <1>4, EveryNumber
  <1>6. Cardinality(X) \in Nat /\ X \in SUBSET X
    BY <1>1
  <1>. QED
    BY <1>5, <1>6 DEF S

\* Nothing sums to 0.
LEMMA SumOfNone ==
    ASSUME NEW f, DOMAIN f = {}
    PROVE  SumFunction(f) = 0
  <1>. DEFINE g == CHOOSE g : Sums(f, g, {})
  <1>1. Sums(f, g, {})
    BY SumsExist, FS_EmptySet
  <1>2. SumFunction(f) = g[{}]
    BY SumIs
  <1>. HIDE DEF g
  <1>. QED
    BY <1>1, <1>2 DEF Sums

\* A sum is that of one value and the others.
LEMMA SumSplits ==
    ASSUME NEW D, IsFiniteSet(D), NEW f \in [D -> Nat], NEW x \in D
    PROVE  /\ SumFunction(f) \in Nat /\ SumFunction([y \in D \ {x} |-> f[y]]) \in Nat
           /\ SumFunction(f) = f[x] + SumFunction([y \in D \ {x} |-> f[y]])
  <1>. DEFINE E == D \ {x}
              k == [y \in E |-> f[y]]
              g == CHOOSE g : Sums(f, g, D)
              h == CHOOSE h : Sums(k, h, E)
  <1>1. IsFiniteSet(E) /\ k \in [E -> Nat] /\ DOMAIN k = E /\ DOMAIN f = D
    BY FS_RemoveElement
  <1>2. \A y \in E : f[y] = k[y]
    OBVIOUS
  <1>. HIDE DEF k
  <1>3. Sums(f, g, D) /\ Sums(k, h, E)
    BY <1>1, SumsExist
  <1>4. SumFunction(f) = g[D] /\ SumFunction(k) = h[E]
    BY <1>1, SumIs
  <1>. HIDE DEF g, h
  <1>7. /\ g[{}] = 0
        /\ \A T \in SUBSET D : g[T] \in Nat /\ \A y \in T : g[T] = f[y] + g[T \ {y}]
    BY <1>3, AnyFirst
  <1>8. /\ h[{}] = 0
        /\ \A T \in SUBSET E : h[T] \in Nat /\ \A y \in T : h[T] = k[y] + h[T \ {y}]
    BY <1>1, <1>3, AnyFirst
  <1>5. g[D] \in Nat /\ g[D] = f[x] + g[E] /\ h[E] \in Nat
    BY <1>7, <1>8
  <1>6. g[E] = h[E]
    BY <1>2, <1>3, SumsAgree
  <1>. QED
    BY <1>4, <1>5, <1>6 DEF k

\* A sum of numbers is a number.
LEMMA SumIsNat ==
    ASSUME NEW D, IsFiniteSet(D), NEW f \in [D -> Nat]
    PROVE  SumFunction(f) \in Nat
  <1>1. CASE D = {}
    BY <1>1, SumOfNone
  <1>2. CASE D # {}
    BY <1>2, SumSplits
  <1>. QED
    BY <1>1, <1>2

-----------------------------------------------------------------------------
\* The types of the variables.
Shape ==
    /\ spend \in [Days -> Nat \union {Unset}]
    /\ own \in Caps \union {Unset} /\ global \in Caps \union {InitialCap}
    /\ today \in 2..MaxDay
    /\ caller \in [Callers ->
          [pc : {"idle", "global", "spent", "provider", "record", "check", "baseline"},
           cap : Nat, amount : Nat, date : 1..today, spent : Nat]]
    /\ alerts \subseteq 1..today
    /\ paid \in Nat /\ lost \in Nat /\ highestCap \in Nat /\ unattributed \in Nat

\* No cap read or about to be read is above the highest so far.
CapsBelow ==
    /\ global <= highestCap
    /\ own # Unset => own <= highestCap
    /\ \A c \in Callers : caller[c].pc = "spent" => caller[c].cap <= highestCap

\* What is still to be recorded is a cost, of a day the calls ran on.
RecordsDue ==
    \A c \in Callers : caller[c].pc = "record" =>
        caller[c].amount \in Costs /\ caller[c].date \in 2..today

\* Nothing is spent ahead of the date.
FutureEmpty == \A d \in Days : d > today => spend[d] = Unset

\* The callers that may still add to a day's total, and the room they need.
InFlight(d) == {c \in Callers : \/ caller[c].pc = "provider" /\ d >= today
                                \/ caller[c].pc = "record" /\ caller[c].date = d}

Limit(cap) == IF cap = 0 THEN 0 ELSE cap - 1

Headroom ==
    \A d \in 2..MaxDay :
        GetDailySpend(d) + Cardinality(InFlight(d)) * Max(Costs)
            <= Limit(highestCap) + Cardinality(Callers) * Max(Costs)

\* On the first day an alert is true for good, and a total past the threshold
\* has been alerted or is yet to be read, or has just been read as it is.
Watched ==
    today = 2 /\ unattributed = 0 =>
        /\ 2 \in alerts => Anomalous(GetDailySpend(2), BaselineSum(2))
        /\ Anomalous(GetDailySpend(2), BaselineSum(2)) =>
              \/ 2 \in alerts
              \/ \E c \in Callers :
                    \/ caller[c].pc = "check"
                    \/ caller[c].pc = "baseline" /\ caller[c].spent = GetDailySpend(2)
        /\ \A c \in Callers : caller[c].pc = "baseline" => caller[c].spent <= GetDailySpend(2)

IInv == Shape /\ CapsBelow /\ RecordsDue /\ FutureEmpty /\ Headroom /\ SpendAddsUp /\ Watched

-----------------------------------------------------------------------------
\* A finite set of numbers has a largest.
LEMMA LargestOne ==
    ASSUME NEW T, IsFiniteSet(T), T # {}, T \subseteq Nat
    PROVE  Max(T) \in T /\ \A x \in T : x <= Max(T)
  <1>. DEFINE Top(U) == \E x \in U : \A y \in U : x >= y
              S == {n \in Nat : \A U \in SUBSET T : Cardinality(U) = n /\ U # {} => Top(U)}
  <1>1. \A U \in SUBSET T : IsFiniteSet(U) /\ Cardinality(U) \in Nat
    BY FS_Subset, FS_CardinalityType
  <1>2. 0 \in S
    BY <1>1, FS_EmptySet
  <1>3. ASSUME NEW n \in Nat, n \in S PROVE n + 1 \in S
    <2>. SUFFICES ASSUME NEW U \in SUBSET T, Cardinality(U) = n + 1, U # {} PROVE Top(U)
      OBVIOUS
    <2>1. PICK x \in U : x \in Nat
      OBVIOUS
    <2>2. U \ {x} \in SUBSET T /\ Cardinality(U \ {x}) = n
      BY <1>1, OneLess
    <2>3. CASE U \ {x} = {}
      BY <2>1, <2>3
    <2>4. CASE U \ {x} # {}
      <3>1. PICK y \in U \ {x} : \A z \in U \ {x} : y >= z
        BY <1>3, <2>2, <2>4
      <3>2. CASE x >= y
        BY <2>1, <3>1, <3>2
      <3>3. CASE y >= x
        BY <2>1, <3>1, <3>3
      <3>. QED
        BY <2>1, <3>1, <3>2, <3>3
    <2>. QED
      BY <2>3, <2>4
  <1>. HIDE DEF S
  <1>4. \A n \in Nat : n \in S
    BY <1>2, <1>3, EveryNumber
  <1>5. Cardinality(T) \in Nat /\ T \in SUBSET T
    BY <1>1
  <1>6. Top(T)
    BY <1>4, <1>5 DEF S
  <1>7. Max(T) \in T /\ \A y \in T : Max(T) >= y
    BY <1>6 DEF Max
  <1>. QED
    BY <1>7

\* No call costs more than Max(Costs).
LEMMA MaxCost == Max(Costs) \in Nat /\ \A amount \in Costs : amount <= Max(Costs)
  BY LargestOne, CostAssumption

\* The records the actions put in a caller's place, field by field.
LEMMA CallRecords ==
    ASSUME NEW p, NEW x
    PROVE  /\ Idle = [pc |-> "idle", cap |-> 0, amount |-> 0, date |-> 1, spent |-> 0]
           /\ [Idle EXCEPT !.pc = p]
                = [pc |-> p, cap |-> 0, amount |-> 0, date |-> 1, spent |-> 0]
           /\ [Idle EXCEPT !.pc = p, !.cap = x]
                = [pc |-> p, cap |-> x, amount |-> 0, date |-> 1, spent |-> 0]
           /\ [Idle EXCEPT !.pc = p, !.spent = x]
                = [pc |-> p, cap |-> 0, amount |-> 0, date |-> 1, spent |-> x]
  <1>1. PICK i, a, z, o :
           /\ i = Idle /\ a = "idle" /\ z = 0 /\ o = 1
           /\ i = [pc |-> a, cap |-> z, amount |-> z, date |-> o, spent |-> z]
    BY DEF Idle
  <1>2. i = [pc |-> a, cap |-> z, amount |-> z, date |-> o, spent |-> z]
    BY <1>1
  <1>3. [i EXCEPT !.pc = p] = [pc |-> p, cap |-> z, amount |-> z, date |-> o, spent |-> z]
    BY <1>2
  <1>4. PICK q : q = [pc |-> p, cap |-> z, amount |-> z, date |-> o, spent |-> z]
    OBVIOUS
  <1>5. [q EXCEPT !.cap = x] = [pc |-> p, cap |-> x, amount |-> z, date |-> o, spent |-> z]
    BY <1>4
  <1>6. [q EXCEPT !.spent = x] = [pc |-> p, cap |-> z, amount |-> z, date |-> o, spent |-> x]
    BY <1>4
  <1>7. [i EXCEPT !.pc = p] = q
    BY <1>3, <1>4
  <1>8. /\ [i EXCEPT !.pc = p, !.cap = x] = [q EXCEPT !.cap = x]
        /\ [i EXCEPT !.pc = p, !.spent = x] = [q EXCEPT !.spent = x]
    BY <1>7
  <1>. QED
    BY <1>1, <1>3, <1>5, <1>6, <1>8

\* The same of the call whose cost is to be recorded.
LEMMA RecordedCall ==
    ASSUME NEW p, NEW x, NEW d
    PROVE  [Idle EXCEPT !.pc = p, !.amount = x, !.date = d]
             = [pc |-> p, cap |-> 0, amount |-> x, date |-> d, spent |-> 0]
  <1>1. PICK q, z, o :
           /\ q = [Idle EXCEPT !.pc = p] /\ z = 0 /\ o = 1
           /\ q = [pc |-> p, cap |-> z, amount |-> z, date |-> o, spent |-> z]
    BY CallRecords
  <1>2. q = [pc |-> p, cap |-> z, amount |-> z, date |-> o, spent |-> z]
    BY <1>1
  <1>3. [q EXCEPT !.amount = x] = [pc |-> p, cap |-> z, amount |-> x, date |-> o, spent |-> z]
    BY <1>2
  <1>4. PICK u : u = [pc |-> p, cap |-> z, amount |-> x, date |-> o, spent |-> z]
    OBVIOUS
  <1>5. [u EXCEPT !.date = d] = [pc |-> p, cap |-> z, amount |-> x, date |-> d, spent |-> z]
    BY <1>4
  <1>6. [q EXCEPT !.amount = x] = u
    BY <1>3, <1>4
  <1>7. [q EXCEPT !.amount = x, !.date = d] = [u EXCEPT !.date = d]
    BY <1>6
  <1>. QED
    BY <1>1, <1>5, <1>7

\* A day's total is a number, 0 without a row.
LEMMA DailyIsNat == ASSUME Shape, NEW d \in Days PROVE GetDailySpend(d) \in Nat
  BY DEF Shape, GetDailySpend

-----------------------------------------------------------------------------
\* Where an action takes the caller that it is of.
Goes(c, p, x, a, d, s) ==
    caller' = [caller EXCEPT ![c] = [pc |-> p, cap |-> x, amount |-> a, date |-> d, spent |-> s]]

\* What such a step makes of the caller's fields, and that it moves no other.
LEMMA Fields ==
    ASSUME Shape, NEW c \in Callers, NEW p, NEW x, NEW a, NEW d, NEW s, Goes(c, p, x, a, d, s)
    PROVE  /\ caller'[c] = [pc |-> p, cap |-> x, amount |-> a, date |-> d, spent |-> s]
           /\ caller'[c].pc = p /\ caller'[c].cap = x /\ caller'[c].amount = a
           /\ caller'[c].date = d /\ caller'[c].spent = s
           /\ \A b \in Callers : b # c => caller'[b] = caller[b]
  BY DEF Shape, Goes

\* Each action of a caller is such a step.
LEMMA Moved ==
    ASSUME NEW c \in Callers
    PROVE  /\ StartCall(c) => \/ own # Unset /\ Goes(c, "spent", own, 0, 1, 0)
                              \/ Goes(c, "global", 0, 0, 1, 0)
           /\ FindGlobalCap(c) => Goes(c, "spent", global, 0, 1, 0)
           /\ CheckQuota(c) =>
                 \/ Goes(c, "idle", 0, 0, 1, 0)
                 \/ ~(GetDailySpend(today) >= caller[c].cap) /\ Goes(c, "provider", 0, 0, 1, 0)
           /\ EndCall(c) =>
                 \/ paid' = paid /\ Goes(c, "idle", 0, 0, 1, 0)
                 \/ \E amount \in Costs :
                       paid' = paid + amount /\ Goes(c, "record", 0, amount, today, 0)
           /\ RecordSpend(c) => Goes(c, "check", 0, 0, 1, 0)
           /\ CheckSpend(c) => Goes(c, "baseline", 0, 0, 1, GetDailySpend(today))
           /\ CheckBaseline(c) => Goes(c, "idle", 0, 0, 1, 0)
           /\ AttributionFails(c) => Goes(c, "idle", 0, 0, 1, 0)
  <1>1. Idle = [pc |-> "idle", cap |-> 0, amount |-> 0, date |-> 1, spent |-> 0]
    BY DEF Idle
  <1>2. ASSUME StartCall(c)
        PROVE  \/ own # Unset /\ Goes(c, "spent", own, 0, 1, 0)
               \/ Goes(c, "global", 0, 0, 1, 0)
    <2>1. /\ [Idle EXCEPT !.pc = "spent", !.cap = own]
               = [pc |-> "spent", cap |-> own, amount |-> 0, date |-> 1, spent |-> 0]
          /\ [Idle EXCEPT !.pc = "global"]
               = [pc |-> "global", cap |-> 0, amount |-> 0, date |-> 1, spent |-> 0]
      BY CallRecords
    <2>. QED
      BY <1>2, <2>1 DEF StartCall, Goes
  <1>3. ASSUME FindGlobalCap(c) PROVE Goes(c, "spent", global, 0, 1, 0)
    <2>1. [Idle EXCEPT !.pc = "spent", !.cap = global]
            = [pc |-> "spent", cap |-> global, amount |-> 0, date |-> 1, spent |-> 0]
      BY CallRecords
    <2>. QED
      BY <1>3, <2>1 DEF FindGlobalCap, Goes
  <1>4. ASSUME CheckQuota(c)
        PROVE  \/ Goes(c, "idle", 0, 0, 1, 0)
               \/ ~(GetDailySpend(today) >= caller[c].cap) /\ Goes(c, "provider", 0, 0, 1, 0)
    <2>1. [Idle EXCEPT !.pc = "provider"]
            = [pc |-> "provider", cap |-> 0, amount |-> 0, date |-> 1, spent |-> 0]
      BY CallRecords
    <2>. QED
      BY <1>1, <1>4, <2>1 DEF CheckQuota, Goes
  <1>5. ASSUME EndCall(c)
        PROVE  \/ paid' = paid /\ Goes(c, "idle", 0, 0, 1, 0)
               \/ \E amount \in Costs :
                     paid' = paid + amount /\ Goes(c, "record", 0, amount, today, 0)
    <2>1. ASSUME NEW amount, NEW d
          PROVE  [Idle EXCEPT !.pc = "record", !.amount = amount, !.date = d]
                   = [pc |-> "record", cap |-> 0, amount |-> amount, date |-> d, spent |-> 0]
      <3>1. PICK p : p = "record"
        OBVIOUS
      <3>2. [Idle EXCEPT !.pc = p, !.amount = amount, !.date = d]
              = [pc |-> p, cap |-> 0, amount |-> amount, date |-> d, spent |-> 0]
        BY RecordedCall
      <3>. QED
        BY <3>1, <3>2
    <2>2. CASE caller' = [caller EXCEPT ![c] = Idle] /\ UNCHANGED paid
      BY <1>1, <2>2 DEF Goes
    <2>3. CASE \E amount \in Costs :
                  /\ caller' = [caller EXCEPT ![c] =
                        [Idle EXCEPT !.pc = "record", !.amount = amount, !.date = today]]
                  /\ paid' = paid + amount
      BY <2>1, <2>3 DEF Goes
    <2>. QED
      BY <1>5, <2>2, <2>3 DEF EndCall
  <1>6. ASSUME RecordSpend(c) PROVE Goes(c, "check", 0, 0, 1, 0)
    <2>1. [Idle EXCEPT !.pc = "check"]
            = [pc |-> "check", cap |-> 0, amount |-> 0, date |-> 1, spent |-> 0]
      BY CallRecords
    <2>. QED
      BY <1>6, <2>1 DEF RecordSpend, Goes
  <1>7. ASSUME CheckSpend(c) PROVE Goes(c, "baseline", 0, 0, 1, GetDailySpend(today))
    <2>1. [Idle EXCEPT !.pc = "baseline", !.spent = GetDailySpend(today)]
            = [pc |-> "baseline", cap |-> 0, amount |-> 0, date |-> 1,
               spent |-> GetDailySpend(today)]
      BY CallRecords
    <2>. QED
      BY <1>7, <2>1 DEF CheckSpend, Goes
  <1>8. CheckBaseline(c) => Goes(c, "idle", 0, 0, 1, 0)
    BY <1>1 DEF CheckBaseline, Goes
  <1>9. AttributionFails(c) => Goes(c, "idle", 0, 0, 1, 0)
    BY <1>1 DEF AttributionFails, Goes
  <1>. QED
    BY <1>2, <1>3, <1>4, <1>5, <1>6, <1>7, <1>8, <1>9

-----------------------------------------------------------------------------
\* The types.
Places == {"idle", "global", "spent", "provider", "record", "check", "baseline"}

\* Such a step keeps the type of caller.
LEMMA StaysTyped ==
    ASSUME Shape, NEW c \in Callers, NEW p \in Places, NEW x \in Nat, NEW a \in Nat,
           NEW d \in 1..today, NEW s \in Nat, Goes(c, p, x, a, d, s), today' = today
    PROVE  caller' \in [Callers -> [pc : Places, cap : Nat, amount : Nat, date : 1..today,
                                    spent : Nat]]
  BY DEF Shape, Goes, Places

\* Every step keeps the types.
LEMMA ShapeKept == ASSUME IInv, [QuotaNext]_quota PROVE Shape'
  <1>. /\ Shape /\ RecordsDue /\ 1 \in 1..today /\ today \in 1..today
       /\ "idle" \in Places /\ "global" \in Places /\ "spent" \in Places /\ "provider" \in Places
       /\ "record" \in Places /\ "check" \in Places /\ "baseline" \in Places
    BY DEF IInv, Shape, Places
  <1>. /\ Caps \subseteq Nat /\ InitialCap \in Nat /\ Costs \subseteq Nat /\ Unset \notin Nat
       /\ MaxDay \in Nat
    BY CostAssumption
  <1>. today \in Days /\ \A d \in Days : GetDailySpend(d) \in Nat
    BY DailyIsNat DEF Shape, Days
  <1>1. ASSUME NEW c \in Callers, StartCall(c) PROVE Shape'
    <2>1. caller' \in [Callers -> [pc : Places, cap : Nat, amount : Nat, date : 1..today,
                                   spent : Nat]]
      BY <1>1, Moved, StaysTyped DEF StartCall, Shape
    <2>. QED
      BY <1>1, <2>1 DEF StartCall, Shape, Places
  <1>2. ASSUME NEW c \in Callers, FindGlobalCap(c) PROVE Shape'
    <2>1. caller' \in [Callers -> [pc : Places, cap : Nat, amount : Nat, date : 1..today,
                                   spent : Nat]]
      BY <1>2, Moved, StaysTyped DEF FindGlobalCap, Shape
    <2>. QED
      BY <1>2, <2>1 DEF FindGlobalCap, Shape, Places, history
  <1>3. ASSUME NEW c \in Callers, CheckQuota(c) PROVE Shape'
    <2>1. caller' \in [Callers -> [pc : Places, cap : Nat, amount : Nat, date : 1..today,
                                   spent : Nat]]
      BY <1>3, Moved, StaysTyped DEF CheckQuota
    <2>. QED
      BY <1>3, <2>1 DEF CheckQuota, Shape, Places, history
  <1>4. ASSUME NEW c \in Callers, EndCall(c) PROVE Shape'
    <2>1. caller' \in [Callers -> [pc : Places, cap : Nat, amount : Nat, date : 1..today,
                                   spent : Nat]]
      BY <1>4, Moved, StaysTyped DEF EndCall
    <2>2. paid' \in Nat
      BY <1>4, Moved DEF Shape
    <2>. QED
      BY <1>4, <2>1, <2>2 DEF EndCall, Shape, Places
  <1>5. ASSUME NEW c \in Callers, RecordSpend(c) PROVE Shape'
    <2>1. caller' \in [Callers -> [pc : Places, cap : Nat, amount : Nat, date : 1..today,
                                   spent : Nat]]
      BY <1>5, Moved, StaysTyped DEF RecordSpend
    <2>2. caller[c].amount \in Nat /\ caller[c].date \in Days
      BY DEF Shape, Days
    <2>3. spend' \in [Days -> Nat \union {Unset}]
      BY <1>5, <2>2 DEF RecordSpend, Shape
    <2>. QED
      BY <1>5, <2>1, <2>3 DEF RecordSpend, Shape, Places, history
  <1>6. ASSUME NEW c \in Callers, CheckSpend(c) PROVE Shape'
    <2>1. caller' \in [Callers -> [pc : Places, cap : Nat, amount : Nat, date : 1..today,
                                   spent : Nat]]
      BY <1>6, Moved, StaysTyped DEF CheckSpend
    <2>. QED
      BY <1>6, <2>1 DEF CheckSpend, Shape, Places, history
  <1>7. ASSUME NEW c \in Callers, CheckBaseline(c) PROVE Shape'
    <2>1. caller' \in [Callers -> [pc : Places, cap : Nat, amount : Nat, date : 1..today,
                                   spent : Nat]]
      BY <1>7, Moved, StaysTyped DEF CheckBaseline
    <2>. QED
      BY <1>7, <2>1 DEF CheckBaseline, Shape, Places, history
  <1>8. ASSUME NEW c \in Callers, AttributionFails(c) PROVE Shape'
    <2>1. caller' \in [Callers -> [pc : Places, cap : Nat, amount : Nat, date : 1..today,
                                   spent : Nat]]
      BY <1>8, Moved, StaysTyped DEF AttributionFails
    <2>2. lost' \in Nat /\ unattributed' \in Nat
      BY <1>8 DEF AttributionFails, Shape
    <2>. QED
      BY <1>8, <2>1, <2>2 DEF AttributionFails, Shape, Places
  <1>9. CASE SetQuota
    BY <1>9 DEF SetQuota, Shape
  <1>10. CASE Midnight
    <2>1. today' \in 2..MaxDay /\ 1..today \subseteq 1..today'
      BY <1>10 DEF Midnight, Shape
    <2>. QED
      BY <1>10, <2>1 DEF Midnight, Shape, history
  <1>11. CASE UNCHANGED quota
    BY <1>11 DEF quota, Shape
  <1>. QED
    BY <1>1, <1>2, <1>3, <1>4, <1>5, <1>6, <1>7, <1>8, <1>9, <1>10, <1>11
    DEF QuotaNext, AssertWithinQuota, AttributeCost

-----------------------------------------------------------------------------
\* The locals of the calls.
LEMMA CallsKept == ASSUME IInv, [QuotaNext]_quota PROVE (CapsBelow /\ RecordsDue /\ FutureEmpty)'
  <1>. /\ Shape /\ CapsBelow /\ RecordsDue /\ FutureEmpty
       /\ Caps \subseteq Nat /\ InitialCap \in Nat /\ Costs \subseteq Nat /\ Unset \notin Nat
    BY CostAssumption DEF IInv
  <1>. global \in Nat /\ highestCap \in Nat /\ today \in 2..today /\ (own # Unset => own \in Nat)
    BY DEF Shape
  <1>1. ASSUME NEW c \in Callers, StartCall(c) PROVE (CapsBelow /\ RecordsDue /\ FutureEmpty)'
    <2>1. (CapsBelow /\ RecordsDue)'
      BY <1>1, Moved, Fields DEF StartCall, CapsBelow, RecordsDue
    <2>. QED
      BY <1>1, <2>1 DEF StartCall, FutureEmpty
  <1>2. ASSUME NEW c \in Callers, FindGlobalCap(c)
        PROVE  (CapsBelow /\ RecordsDue /\ FutureEmpty)'
    <2>1. (CapsBelow /\ RecordsDue)'
      BY <1>2, Moved, Fields DEF FindGlobalCap, CapsBelow, RecordsDue, history
    <2>. QED
      BY <1>2, <2>1 DEF FindGlobalCap, FutureEmpty
  <1>3. ASSUME NEW c \in Callers, CheckQuota(c)
        PROVE  (CapsBelow /\ RecordsDue /\ FutureEmpty)'
    <2>1. /\ caller'[c].pc \notin {"spent", "record"}
          /\ \A b \in Callers \ {c} : caller'[b] = caller[b]
      BY <1>3, Moved DEF Goes, Shape
    <2>2. UNCHANGED <<global, own, highestCap, today, spend>>
      BY <1>3 DEF CheckQuota, history
    <2>. QED
      BY <2>1, <2>2 DEF CapsBelow, RecordsDue, FutureEmpty
  <1>4. ASSUME NEW c \in Callers, EndCall(c) PROVE (CapsBelow /\ RecordsDue /\ FutureEmpty)'
    <2>1. /\ caller'[c].pc # "spent"
          /\ caller'[c].pc = "record" => caller'[c].amount \in Costs /\ caller'[c].date = today
          /\ \A b \in Callers \ {c} : caller'[b] = caller[b]
      <3>1. CASE Goes(c, "idle", 0, 0, 1, 0)
        BY <3>1 DEF Goes, Shape
      <3>2. ASSUME NEW amount \in Costs, Goes(c, "record", 0, amount, today, 0)
            PROVE  /\ caller'[c].pc = "record"
                   /\ caller'[c].amount \in Costs /\ caller'[c].date = today
                   /\ \A b \in Callers \ {c} : caller'[b] = caller[b]
        BY <3>2 DEF Goes, Shape
      <3>. QED
        BY <1>4, <3>1, <3>2, Moved
    <2>2. UNCHANGED <<global, own, highestCap, today, spend>>
      BY <1>4 DEF EndCall
    <2>. QED
      BY <2>1, <2>2 DEF CapsBelow, RecordsDue, FutureEmpty
  <1>5. ASSUME NEW c \in Callers, RecordSpend(c) PROVE (CapsBelow /\ RecordsDue /\ FutureEmpty)'
    <2>1. (CapsBelow /\ RecordsDue)'
      BY <1>5, Moved, Fields DEF RecordSpend, CapsBelow, RecordsDue, history
    <2>2. caller[c].date \in 2..today
      BY <1>5 DEF RecordSpend, RecordsDue
    <2>3. FutureEmpty'
      BY <1>5, <2>2 DEF RecordSpend, FutureEmpty, Shape, Days
    <2>. QED
      BY <2>1, <2>3
  <1>6. ASSUME NEW c \in Callers, CheckSpend(c) PROVE (CapsBelow /\ RecordsDue /\ FutureEmpty)'
    <2>1. (CapsBelow /\ RecordsDue)'
      BY <1>6, Moved, Fields DEF CheckSpend, CapsBelow, RecordsDue, history
    <2>. QED
      BY <1>6, <2>1 DEF CheckSpend, FutureEmpty
  <1>7. ASSUME NEW c \in Callers, CheckBaseline(c)
        PROVE  (CapsBelow /\ RecordsDue /\ FutureEmpty)'
    <2>1. /\ caller'[c].pc \notin {"spent", "record"}
          /\ \A b \in Callers \ {c} : caller'[b] = caller[b]
      BY <1>7, Moved DEF Goes, Shape
    <2>2. UNCHANGED <<global, own, highestCap, today, spend>>
      BY <1>7 DEF CheckBaseline, history
    <2>. QED
      BY <2>1, <2>2 DEF CapsBelow, RecordsDue, FutureEmpty
  <1>8. ASSUME NEW c \in Callers, AttributionFails(c)
        PROVE  (CapsBelow /\ RecordsDue /\ FutureEmpty)'
    <2>1. /\ caller'[c].pc \notin {"spent", "record"}
          /\ \A b \in Callers \ {c} : caller'[b] = caller[b]
      BY <1>8, Moved DEF Goes, Shape
    <2>2. UNCHANGED <<global, own, highestCap, today, spend>>
      BY <1>8 DEF AttributionFails
    <2>. QED
      BY <2>1, <2>2 DEF CapsBelow, RecordsDue, FutureEmpty
  <1>9. CASE SetQuota
    <2>1. highestCap <= highestCap' /\ highestCap' \in Nat
      BY <1>9 DEF SetQuota
    <2>2. /\ global' <= highestCap' /\ (own' # Unset => own' <= highestCap')
      BY <1>9, <2>1 DEF SetQuota, CapsBelow
    <2>3. \A c \in Callers : caller[c].cap \in Nat
      BY DEF Shape
    <2>4. CapsBelow'
      BY <1>9, <2>1, <2>2, <2>3 DEF SetQuota, CapsBelow
    <2>. QED
      BY <1>9, <2>4 DEF SetQuota, RecordsDue, FutureEmpty
  <1>10. CASE Midnight
    <2>1. today' = today + 1
      BY <1>10 DEF Midnight
    <2>. QED
      BY <1>10, <2>1 DEF Midnight, CapsBelow, RecordsDue, FutureEmpty, history, Shape, Days
  <1>11. CASE UNCHANGED quota
    BY <1>11 DEF quota, CapsBelow, RecordsDue, FutureEmpty
  <1>. QED
    BY <1>1, <1>2, <1>3, <1>4, <1>5, <1>6, <1>7, <1>8, <1>9, <1>10, <1>11
    DEF QuotaNext, AssertWithinQuota, AttributeCost

-----------------------------------------------------------------------------
\* The room under the highest cap.
LEMMA Times ==
    ASSUME NEW a \in Nat, NEW b \in Nat, NEW m \in Nat, b <= a
    PROVE  b * m <= a * m
  <1>1. PICK k \in Nat : a = b + k
    <2>1. a - b \in Nat /\ a = b + (a - b)
      OBVIOUS
    <2>. QED
      BY <2>1
  <1>2. a * m = b * m + k * m /\ b * m \in Nat /\ k * m \in Nat
    BY <1>1
  <1>. QED
    BY <1>2

\* Fewer callers need no more room, and one that leaves frees the largest cost.
LEMMA RoomFor ==
    ASSUME NEW A \in SUBSET Callers, NEW B \in SUBSET A
    PROVE  /\ Cardinality(A) * Max(Costs) \in Nat /\ Cardinality(B) * Max(Costs) \in Nat
           /\ Cardinality(B) * Max(Costs) <= Cardinality(A) * Max(Costs)
           /\ \A c \in A \ B : Cardinality(B) * Max(Costs) + Max(Costs)
                                 <= Cardinality(A) * Max(Costs)
  <1>1. IsFiniteSet(A) /\ IsFiniteSet(B) /\ IsFiniteSet(Callers)
    BY FS_Subset, CostAssumption
  <1>2. Cardinality(A) \in Nat /\ Cardinality(B) \in Nat /\ Cardinality(B) <= Cardinality(A)
    BY <1>1, FS_Subset, FS_CardinalityType
  <1>3. Max(Costs) \in Nat
    BY MaxCost
  <1>4. /\ Cardinality(A) * Max(Costs) \in Nat /\ Cardinality(B) * Max(Costs) \in Nat
        /\ Cardinality(B) * Max(Costs) <= Cardinality(A) * Max(Costs)
    BY <1>2, <1>3, Times
  <1>5. ASSUME NEW c \in A \ B
        PROVE  Cardinality(B) * Max(Costs) + Max(Costs) <= Cardinality(A) * Max(Costs)
    <2>1. /\ IsFiniteSet(B \union {c}) /\ Cardinality(B \union {c}) = Cardinality(B) + 1
      BY <1>1, <1>5, FS_AddElement
    <2>2. Cardinality(B \union {c}) <= Cardinality(A)
      BY <1>1, FS_Subset
    <2>3. (Cardinality(B) + 1) * Max(Costs) <= Cardinality(A) * Max(Costs)
      BY <1>2, <1>3, <2>1, <2>2, Times
    <2>4. (Cardinality(B) + 1) * Max(Costs) = Cardinality(B) * Max(Costs) + Max(Costs)
      BY <1>2, <1>3
    <2>. QED
      BY <2>3, <2>4
  <1>. QED
    BY <1>4, <1>5

\* What may be spent before the cap refuses grows with the cap.
LEMMA LimitGrows ==
    ASSUME NEW a \in Nat, NEW b \in Nat, a <= b
    PROVE  Limit(a) \in Nat /\ Limit(b) \in Nat /\ Limit(a) <= Limit(b)
  BY DEF Limit

\* A step that spends nothing and puts no caller in flight leaves the room there was.
LEMMA HeadroomStays ==
    ASSUME Shape, Shape', Headroom, UNCHANGED spend, highestCap <= highestCap',
           \A d \in 2..MaxDay : InFlight(d)' \subseteq InFlight(d)
    PROVE  Headroom'
  <1>. SUFFICES ASSUME NEW d \in 2..MaxDay
                PROVE  (GetDailySpend(d) + Cardinality(InFlight(d)) * Max(Costs)
                          <= Limit(highestCap) + Cardinality(Callers) * Max(Costs))'
    BY DEF Headroom
  <1>1. PICK old, new : old = InFlight(d) /\ new = InFlight(d)'
    OBVIOUS
  <1>2. /\ Cardinality(old) * Max(Costs) \in Nat /\ Cardinality(new) * Max(Costs) \in Nat
        /\ Cardinality(new) * Max(Costs) <= Cardinality(old) * Max(Costs)
        /\ Cardinality(Callers) * Max(Costs) \in Nat
    <2>1. old \in SUBSET Callers /\ new \in SUBSET old
      BY <1>1 DEF InFlight
    <2>. QED
      BY <2>1, RoomFor
  <1>3. GetDailySpend(d) \in Nat /\ GetDailySpend(d)' = GetDailySpend(d)
    <2>1. d \in Days
      BY CostAssumption DEF Days
    <2>. QED
      BY <2>1, DailyIsNat DEF GetDailySpend
  <1>4. Limit(highestCap) \in Nat /\ Limit(highestCap') \in Nat
        /\ Limit(highestCap) <= Limit(highestCap')
    <2>1. highestCap \in Nat /\ highestCap' \in Nat
      BY DEF Shape
    <2>. QED
      BY <2>1, LimitGrows
  <1>5. GetDailySpend(d) + Cardinality(old) * Max(Costs)
          <= Limit(highestCap) + Cardinality(Callers) * Max(Costs)
    BY <1>1 DEF Headroom
  <1>6. GetDailySpend(d) + Cardinality(new) * Max(Costs)
          <= Limit(highestCap') + Cardinality(Callers) * Max(Costs)
    BY <1>2, <1>3, <1>4, <1>5
  <1>7. Limit(highestCap)' = Limit(highestCap')
    BY DEF Limit
  <1>. QED
    BY <1>1, <1>3, <1>6, <1>7

\* A call is let through only below the cap, and takes room as it ends.
LEMMA HeadroomKept == ASSUME IInv, [QuotaNext]_quota PROVE Headroom'
  <1>. Shape /\ Shape' /\ CapsBelow /\ RecordsDue /\ FutureEmpty /\ Headroom
    BY ShapeKept DEF IInv
  <1>. today \in Nat /\ today' \in Nat /\ highestCap \in Nat
    BY DEF Shape
  <1>1. ASSUME NEW c \in Callers, StartCall(c) PROVE Headroom'
    <2>1. /\ caller'[c].pc \notin {"provider", "record"}
          /\ \A b \in Callers \ {c} : caller'[b] = caller[b]
      BY <1>1, Moved DEF Goes, Shape
    <2>2. UNCHANGED <<spend, highestCap, today>>
      BY <1>1 DEF StartCall
    <2>. QED
      BY <2>1, <2>2, HeadroomStays DEF InFlight
  <1>2. ASSUME NEW c \in Callers, FindGlobalCap(c) PROVE Headroom'
    <2>1. /\ caller'[c].pc \notin {"provider", "record"}
          /\ \A b \in Callers \ {c} : caller'[b] = caller[b]
      BY <1>2, Moved DEF Goes, Shape
    <2>2. UNCHANGED <<spend, highestCap, today>>
      BY <1>2 DEF FindGlobalCap, history
    <2>. QED
      BY <2>1, <2>2, HeadroomStays DEF InFlight
  <1>3. ASSUME NEW c \in Callers, CheckQuota(c) PROVE Headroom'
    <2>1. UNCHANGED <<spend, highestCap, today>> /\ caller[c].pc = "spent"
      BY <1>3 DEF CheckQuota, history
    <2>2. CASE Goes(c, "idle", 0, 0, 1, 0)
      <3>1. /\ caller'[c].pc \notin {"provider", "record"}
            /\ \A b \in Callers \ {c} : caller'[b] = caller[b]
        BY <2>2 DEF Goes, Shape
      <3>. QED
        BY <2>1, <3>1, HeadroomStays DEF InFlight
    <2>3. CASE ~(GetDailySpend(today) >= caller[c].cap) /\ Goes(c, "provider", 0, 0, 1, 0)
      <3>. SUFFICES ASSUME NEW d \in 2..MaxDay
                    PROVE  (GetDailySpend(d) + Cardinality(InFlight(d)) * Max(Costs)
                              <= Limit(highestCap) + Cardinality(Callers) * Max(Costs))'
        BY DEF Headroom
      <3>1. PICK old, new : old = InFlight(d) /\ new = InFlight(d)'
        OBVIOUS
      <3>2. caller'[c].pc = "provider" /\ \A b \in Callers \ {c} : caller'[b] = caller[b]
        BY <2>3 DEF Goes, Shape
      <3>3. GetDailySpend(d)' = GetDailySpend(d) /\ Limit(highestCap)' = Limit(highestCap)
        BY <2>1 DEF GetDailySpend, Limit
      <3>4. /\ d \in Days /\ today \in Days /\ GetDailySpend(d) \in Nat
            /\ Limit(highestCap) \in Nat /\ GetDailySpend(today) \in Nat
        <4>1. d \in Days /\ today \in Days
          BY CostAssumption DEF Days, Shape
        <4>. QED
          BY <4>1, DailyIsNat DEF Limit
      <3>5. CASE d < today
        <4>1. new \in SUBSET old /\ old \in SUBSET Callers
          BY <2>1, <3>1, <3>2, <3>5 DEF InFlight
        <4>2. /\ Cardinality(old) * Max(Costs) \in Nat /\ Cardinality(new) * Max(Costs) \in Nat
              /\ Cardinality(new) * Max(Costs) <= Cardinality(old) * Max(Costs)
              /\ Cardinality(Callers) * Max(Costs) \in Nat
          BY <4>1, RoomFor
        <4>3. GetDailySpend(d) + Cardinality(old) * Max(Costs)
                <= Limit(highestCap) + Cardinality(Callers) * Max(Costs)
          BY <3>1 DEF Headroom
        <4>. QED
          BY <3>1, <3>3, <3>4, <4>2, <4>3
      <3>6. CASE d >= today
        <4>1. GetDailySpend(d) <= Limit(highestCap)
          <5>1. caller[c].cap <= highestCap /\ caller[c].cap \in Nat
            BY <2>1 DEF CapsBelow, Shape
          <5>2. GetDailySpend(today) <= Limit(highestCap)
            BY <2>3, <3>4, <5>1 DEF Limit
          <5>3. d > today => GetDailySpend(d) = 0
            BY <3>4 DEF FutureEmpty, GetDailySpend
          <5>. QED
            BY <3>4, <3>6, <5>2, <5>3
        <4>2. /\ Cardinality(new) * Max(Costs) \in Nat /\ Cardinality(Callers) * Max(Costs) \in Nat
              /\ Cardinality(new) * Max(Costs) <= Cardinality(Callers) * Max(Costs)
          <5>1. new \in SUBSET Callers
            BY <3>1 DEF InFlight
          <5>. QED
            BY <5>1, RoomFor
        <4>. QED
          BY <3>1, <3>3, <3>4, <4>1, <4>2
      <3>. QED
        BY <3>5, <3>6
    <2>. QED
      BY <1>3, <2>2, <2>3, Moved
  <1>4. ASSUME NEW c \in Callers, EndCall(c) PROVE Headroom'
    <2>1. /\ caller'[c].pc # "provider"
          /\ caller'[c].pc = "record" => caller'[c].date = today
          /\ \A b \in Callers \ {c} : caller'[b] = caller[b]
      <3>1. CASE Goes(c, "idle", 0, 0, 1, 0)
        BY <3>1 DEF Goes, Shape
      <3>2. ASSUME NEW amount \in Costs, Goes(c, "record", 0, amount, today, 0)
            PROVE  /\ caller'[c].pc = "record" /\ caller'[c].date = today
                   /\ \A b \in Callers \ {c} : caller'[b] = caller[b]
        BY <3>2 DEF Goes, Shape
      <3>. QED
        BY <1>4, <3>1, <3>2, Moved
    <2>2. UNCHANGED <<spend, highestCap, today>> /\ caller[c].pc = "provider"
      BY <1>4 DEF EndCall
    <2>3. ASSUME NEW d \in 2..MaxDay PROVE InFlight(d)' \subseteq InFlight(d)
      BY <2>1, <2>2 DEF InFlight
    <2>. QED
      BY <2>2, <2>3, HeadroomStays
  <1>5. ASSUME NEW c \in Callers, RecordSpend(c) PROVE Headroom'
    <2>1. caller'[c].pc = "check" /\ \A b \in Callers \ {c} : caller'[b] = caller[b]
      BY <1>5, Moved DEF Goes, Shape
    <2>2. /\ UNCHANGED <<highestCap, today>> /\ caller[c].pc = "record"
          /\ spend' = [spend EXCEPT ![caller[c].date] =
                         GetDailySpend(caller[c].date) + caller[c].amount]
      BY <1>5 DEF RecordSpend, history
    <2>3. /\ caller[c].amount \in Nat /\ caller[c].amount <= Max(Costs)
          /\ caller[c].date \in Days /\ Max(Costs) \in Nat
      <3>1. caller[c].amount \in Costs /\ caller[c].date \in 2..today
        BY <2>2 DEF RecordsDue
      <3>. QED
        BY <3>1, MaxCost, CostAssumption DEF Shape, Days
    <2>. SUFFICES ASSUME NEW d \in 2..MaxDay
                  PROVE  (GetDailySpend(d) + Cardinality(InFlight(d)) * Max(Costs)
                            <= Limit(highestCap) + Cardinality(Callers) * Max(Costs))'
      BY DEF Headroom
    <2>4. PICK old, new : old = InFlight(d) /\ new = InFlight(d)'
      OBVIOUS
    <2>5. d \in Days /\ GetDailySpend(d) \in Nat /\ Limit(highestCap) \in Nat
      <3>1. d \in Days
        BY CostAssumption DEF Days
      <3>. QED
        BY <3>1, DailyIsNat DEF Limit
    <2>6. new \in SUBSET old /\ old \in SUBSET Callers
      BY <2>1, <2>2, <2>4 DEF InFlight
    <2>7. /\ Cardinality(old) * Max(Costs) \in Nat /\ Cardinality(new) * Max(Costs) \in Nat
          /\ Cardinality(new) * Max(Costs) <= Cardinality(old) * Max(Costs)
          /\ \A b \in old \ new : Cardinality(new) * Max(Costs) + Max(Costs)
                                    <= Cardinality(old) * Max(Costs)
          /\ Cardinality(Callers) * Max(Costs) \in Nat
      BY <2>6, RoomFor
    <2>8. GetDailySpend(d) + Cardinality(old) * Max(Costs)
            <= Limit(highestCap) + Cardinality(Callers) * Max(Costs)
      BY <2>4 DEF Headroom
    <2>9. Limit(highestCap)' = Limit(highestCap)
      BY <2>2 DEF Limit
    <2>10. CASE d = caller[c].date
      <3>1. c \in old \ new
        BY <2>1, <2>2, <2>4, <2>10 DEF InFlight
      <3>2. GetDailySpend(d)' = GetDailySpend(d) + caller[c].amount
        <4>1. spend'[d] = GetDailySpend(d) + caller[c].amount
          BY <2>2, <2>5, <2>10 DEF Shape
        <4>2. spend'[d] # Unset
          BY <2>3, <2>5, <4>1, CostAssumption
        <4>. QED
          BY <4>1, <4>2 DEF GetDailySpend
      <3>3. Cardinality(new) * Max(Costs) + Max(Costs) <= Cardinality(old) * Max(Costs)
        BY <2>7, <3>1
      <3>. QED
        BY <2>3, <2>4, <2>5, <2>7, <2>8, <2>9, <3>2, <3>3
    <2>11. CASE d # caller[c].date
      <3>1. GetDailySpend(d)' = GetDailySpend(d)
        BY <2>2, <2>5, <2>11 DEF Shape, GetDailySpend
      <3>. QED
        BY <2>4, <2>5, <2>7, <2>8, <2>9, <3>1
    <2>. QED
      BY <2>10, <2>11
  <1>6. ASSUME NEW c \in Callers, CheckSpend(c) PROVE Headroom'
    <2>1. /\ caller'[c].pc \notin {"provider", "record"}
          /\ \A b \in Callers \ {c} : caller'[b] = caller[b]
      BY <1>6, Moved DEF Goes, Shape
    <2>2. UNCHANGED <<spend, highestCap, today>>
      BY <1>6 DEF CheckSpend, history
    <2>. QED
      BY <2>1, <2>2, HeadroomStays DEF InFlight
  <1>7. ASSUME NEW c \in Callers, CheckBaseline(c) PROVE Headroom'
    <2>1. /\ caller'[c].pc \notin {"provider", "record"}
          /\ \A b \in Callers \ {c} : caller'[b] = caller[b]
      BY <1>7, Moved DEF Goes, Shape
    <2>2. UNCHANGED <<spend, highestCap, today>>
      BY <1>7 DEF CheckBaseline, history
    <2>. QED
      BY <2>1, <2>2, HeadroomStays DEF InFlight
  <1>8. ASSUME NEW c \in Callers, AttributionFails(c) PROVE Headroom'
    <2>1. /\ caller'[c].pc \notin {"provider", "record"}
          /\ \A b \in Callers \ {c} : caller'[b] = caller[b]
      BY <1>8, Moved DEF Goes, Shape
    <2>2. UNCHANGED <<spend, highestCap, today>>
      BY <1>8 DEF AttributionFails
    <2>. QED
      BY <2>1, <2>2, HeadroomStays DEF InFlight
  <1>9. CASE SetQuota
    <2>1. highestCap <= highestCap' /\ UNCHANGED <<spend, caller, today>>
      BY <1>9, CostAssumption DEF SetQuota
    <2>. QED
      BY <2>1, HeadroomStays DEF InFlight
  <1>10. CASE Midnight
    <2>1. today' = today + 1 /\ UNCHANGED <<spend, caller, highestCap>>
      BY <1>10 DEF Midnight, history
    <2>2. \A d \in 2..MaxDay : InFlight(d)' \subseteq InFlight(d)
      BY <2>1 DEF InFlight
    <2>. QED
      BY <2>1, <2>2, HeadroomStays
  <1>11. CASE UNCHANGED quota
    <2>1. UNCHANGED <<spend, caller, highestCap, today>>
      BY <1>11 DEF quota
    <2>. QED
      BY <2>1, HeadroomStays DEF InFlight
  <1>. QED
    BY <1>1, <1>2, <1>3, <1>4, <1>5, <1>6, <1>7, <1>8, <1>9, <1>10, <1>11
    DEF QuotaNext, AssertWithinQuota, AttributeCost

-----------------------------------------------------------------------------
\* The account of the days.
LEMMA SumChanges ==
    ASSUME NEW D, IsFiniteSet(D), NEW f \in [D -> Nat], NEW g \in [D -> Nat], NEW x \in D,
           \A y \in D \ {x} : f[y] = g[y]
    PROVE  /\ SumFunction(f) \in Nat /\ SumFunction(g) \in Nat
           /\ SumFunction(g) + f[x] = SumFunction(f) + g[x]
  <1>1. PICK r : r = [y \in D \ {x} |-> f[y]]
    OBVIOUS
  <1>2. r = [y \in D \ {x} |-> g[y]]
    BY <1>1
  <1>3. /\ SumFunction(f) \in Nat /\ SumFunction(r) \in Nat
        /\ SumFunction(f) = f[x] + SumFunction(r)
    BY <1>1, SumSplits
  <1>4. SumFunction(g) \in Nat /\ SumFunction(g) = g[x] + SumFunction(r)
    BY <1>2, SumSplits
  <1>. QED
    BY <1>3, <1>4

Pending == {c \in Callers : caller[c].pc = "record"}
Dues == [c \in Pending |-> caller[c].amount]
Totals == [d \in Days |-> GetDailySpend(d)]

\* SpendAddsUp in the terms of Totals and Dues.
LEMMA Account == SpendAddsUp <=> SumFunction(Totals) + lost + SumFunction(Dues) = Prior + paid
  BY DEF SpendAddsUp, Totals, Dues, Pending

\* The account is of numbers.
LEMMA AccountTypes ==
    ASSUME Shape
    PROVE  /\ IsFiniteSet(Pending) /\ Dues \in [Pending -> Nat] /\ SumFunction(Dues) \in Nat
           /\ IsFiniteSet(Days) /\ Totals \in [Days -> Nat] /\ SumFunction(Totals) \in Nat
  <1>1. IsFiniteSet(Pending)
    BY FS_Subset, CostAssumption DEF Pending
  <1>2. IsFiniteSet(Days)
    BY FS_Interval, CostAssumption DEF Days
  <1>3. Dues \in [Pending -> Nat]
    BY DEF Dues, Pending, Shape
  <1>4. Totals \in [Days -> Nat]
    BY DailyIsNat DEF Totals
  <1>. QED
    BY <1>1, <1>2, <1>3, <1>4, SumIsNat

\* A caller that is not recording changes nothing due.
LEMMA DuesStay ==
    ASSUME Shape, NEW c \in Callers, \A b \in Callers \ {c} : caller'[b] = caller[b],
           caller[c].pc # "record", caller'[c].pc # "record"
    PROVE  Dues' = Dues
  <1>1. Pending' = Pending /\ \A b \in Pending : caller'[b].amount = caller[b].amount
    BY DEF Pending
  <1>. QED
    BY <1>1 DEF Dues

\* A caller done recording is due no more.
LEMMA DuesLose ==
    ASSUME Shape, NEW c \in Callers, \A b \in Callers \ {c} : caller'[b] = caller[b],
           caller[c].pc = "record", caller'[c].pc # "record"
    PROVE  /\ SumFunction(Dues') \in Nat
           /\ SumFunction(Dues) = SumFunction(Dues') + caller[c].amount
  <1>1. /\ Pending' = Pending \ {c} /\ c \in Pending
        /\ \A b \in Pending \ {c} : caller'[b].amount = caller[b].amount
    BY DEF Pending
  <1>2. Dues' = [b \in Pending \ {c} |-> Dues[b]]
    BY <1>1 DEF Dues
  <1>3. /\ SumFunction(Dues) \in Nat
        /\ SumFunction([b \in Pending \ {c} |-> Dues[b]]) \in Nat
        /\ SumFunction(Dues) = Dues[c] + SumFunction([b \in Pending \ {c} |-> Dues[b]])
    <2>1. PICK P, f : P = Pending /\ f = Dues
      OBVIOUS
    <2>2. IsFiniteSet(P) /\ f \in [P -> Nat] /\ c \in P
      BY <1>1, <2>1, AccountTypes
    <2>3. /\ SumFunction(f) \in Nat /\ SumFunction([b \in P \ {c} |-> f[b]]) \in Nat
          /\ SumFunction(f) = f[c] + SumFunction([b \in P \ {c} |-> f[b]])
      BY <2>2, SumSplits
    <2>. QED
      BY <2>1, <2>3
  <1>4. Dues[c] = caller[c].amount /\ caller[c].amount \in Nat
    BY <1>1 DEF Dues, Shape
  <1>. QED
    BY <1>2, <1>3, <1>4

\* A caller whose call has ended is due its cost.
LEMMA DuesGain ==
    ASSUME Shape, Shape', NEW c \in Callers, \A b \in Callers \ {c} : caller'[b] = caller[b],
           caller[c].pc # "record", caller'[c].pc = "record"
    PROVE  /\ SumFunction(Dues) \in Nat
           /\ SumFunction(Dues') = SumFunction(Dues) + caller'[c].amount
  <1>1. /\ Pending' = Pending \union {c} /\ c \notin Pending
        /\ \A b \in Pending : caller'[b].amount = caller[b].amount
    BY DEF Pending
  <1>2. PICK E, f, g : E = Pending' /\ f = Dues /\ g = Dues'
    OBVIOUS
  <1>3. IsFiniteSet(E) /\ g \in [E -> Nat] /\ c \in E
    <2>1. IsFiniteSet(E)
      BY <1>2, FS_Subset, CostAssumption DEF Pending
    <2>2. \A b \in Callers : caller'[b].amount \in Nat
      BY DEF Shape
    <2>. QED
      BY <1>1, <1>2, <2>1, <2>2 DEF Dues, Pending
  <1>4. f = [b \in E \ {c} |-> g[b]]
    BY <1>1, <1>2 DEF Dues
  <1>5. SumFunction(f) \in Nat /\ SumFunction(g) = g[c] + SumFunction(f)
    <2>1. /\ SumFunction(g) \in Nat /\ SumFunction([b \in E \ {c} |-> g[b]]) \in Nat
          /\ SumFunction(g) = g[c] + SumFunction([b \in E \ {c} |-> g[b]])
      BY <1>3, SumSplits
    <2>. QED
      BY <1>4, <2>1
  <1>6. g[c] = caller'[c].amount /\ g[c] \in Nat
    BY <1>2, <1>3 DEF Dues
  <1>. QED
    BY <1>2, <1>5, <1>6

\* Every step keeps the account: only record_spend moves an amount to its day.
LEMMA AccountKept == ASSUME IInv, [QuotaNext]_quota PROVE SpendAddsUp'
  <1>. /\ Shape /\ Shape' /\ RecordsDue
       /\ SumFunction(Totals) + lost + SumFunction(Dues) = Prior + paid
    BY ShapeKept, Account DEF IInv
  <1>. /\ SumFunction(Totals) \in Nat /\ SumFunction(Dues) \in Nat /\ lost \in Nat
       /\ paid \in Nat /\ Prior \in Nat
    BY AccountTypes, CostAssumption DEF Shape
  <1>. SUFFICES SumFunction(Totals') + lost' + SumFunction(Dues') = Prior + paid'
    BY DEF SpendAddsUp, Totals, Dues, Pending
  <1>11. spend' = spend => Totals' = Totals
    BY DEF Totals, GetDailySpend
  <1>1. ASSUME NEW c \in Callers, StartCall(c)
        PROVE  SumFunction(Totals') + lost' + SumFunction(Dues') = Prior + paid'
    <2>1. UNCHANGED <<spend, lost, paid>> /\ caller[c].pc # "record"
      BY <1>1 DEF StartCall
    <2>2. caller'[c].pc # "record" /\ \A b \in Callers \ {c} : caller'[b] = caller[b]
      BY <1>1, Moved DEF Goes, Shape
    <2>. QED
      BY <1>11, <2>1, <2>2, DuesStay
  <1>2. ASSUME NEW c \in Callers, FindGlobalCap(c)
        PROVE  SumFunction(Totals') + lost' + SumFunction(Dues') = Prior + paid'
    <2>1. UNCHANGED <<spend, lost, paid>> /\ caller[c].pc # "record"
      BY <1>2 DEF FindGlobalCap, history
    <2>2. caller'[c].pc # "record" /\ \A b \in Callers \ {c} : caller'[b] = caller[b]
      BY <1>2, Moved DEF Goes, Shape
    <2>. QED
      BY <1>11, <2>1, <2>2, DuesStay
  <1>3. ASSUME NEW c \in Callers, CheckQuota(c)
        PROVE  SumFunction(Totals') + lost' + SumFunction(Dues') = Prior + paid'
    <2>1. UNCHANGED <<spend, lost, paid>> /\ caller[c].pc # "record"
      BY <1>3 DEF CheckQuota, history
    <2>2. caller'[c].pc # "record" /\ \A b \in Callers \ {c} : caller'[b] = caller[b]
      BY <1>3, Moved DEF Goes, Shape
    <2>. QED
      BY <1>11, <2>1, <2>2, DuesStay
  <1>4. ASSUME NEW c \in Callers, EndCall(c)
        PROVE  SumFunction(Totals') + lost' + SumFunction(Dues') = Prior + paid'
    <2>1. UNCHANGED <<spend, lost>> /\ caller[c].pc # "record"
      BY <1>4 DEF EndCall
    <2>2. CASE paid' = paid /\ Goes(c, "idle", 0, 0, 1, 0)
      <3>1. caller'[c].pc # "record" /\ \A b \in Callers \ {c} : caller'[b] = caller[b]
        BY <2>2 DEF Goes, Shape
      <3>. QED
        BY <1>11, <2>1, <2>2, <3>1, DuesStay
    <2>3. ASSUME NEW amount \in Costs, paid' = paid + amount,
                 Goes(c, "record", 0, amount, today, 0)
          PROVE  SumFunction(Totals') + lost' + SumFunction(Dues') = Prior + paid'
      <3>1. /\ caller'[c].pc = "record" /\ caller'[c].amount = amount
            /\ \A b \in Callers \ {c} : caller'[b] = caller[b]
        BY <2>3 DEF Goes, Shape
      <3>2. SumFunction(Dues') = SumFunction(Dues) + amount /\ amount \in Nat
        BY <2>1, <3>1, DuesGain, CostAssumption
      <3>3. Totals' = Totals /\ lost' = lost
        BY <1>11, <2>1
      <3>. QED
        BY <2>3, <3>2, <3>3
    <2>. QED
      BY <1>4, <2>2, <2>3, Moved
  <1>5. ASSUME NEW c \in Callers, RecordSpend(c)
        PROVE  SumFunction(Totals') + lost' + SumFunction(Dues') = Prior + paid'
    <2>1. /\ UNCHANGED <<lost, paid>> /\ caller[c].pc = "record"
          /\ spend' = [spend EXCEPT ![caller[c].date] =
                         GetDailySpend(caller[c].date) + caller[c].amount]
      BY <1>5 DEF RecordSpend, history
    <2>2. caller'[c].pc # "record" /\ \A b \in Callers \ {c} : caller'[b] = caller[b]
      BY <1>5, Moved DEF Goes, Shape
    <2>3. PICK d \in Days : d = caller[c].date
      <3>1. caller[c].date \in 2..today
        BY <2>1 DEF RecordsDue
      <3>2. 2..today \subseteq Days
        BY CostAssumption DEF Shape, Days
      <3>. QED
        BY <3>1, <3>2
    <2>4. GetDailySpend(d) \in Nat /\ caller[c].amount \in Nat
      BY DailyIsNat DEF Shape
    <2>5. Totals'[d] = Totals[d] + caller[c].amount /\ Totals[d] \in Nat
      <3>1. spend'[d] = GetDailySpend(d) + caller[c].amount
        BY <2>1, <2>3 DEF Shape
      <3>2. spend'[d] # Unset
        BY <2>4, <3>1, CostAssumption
      <3>. QED
        BY <2>4, <3>1, <3>2 DEF Totals, GetDailySpend
    <2>6. \A b \in Days \ {d} : Totals[b] = Totals'[b]
      BY <2>1, <2>3 DEF Totals, GetDailySpend, Shape
    <2>7. /\ SumFunction(Totals') \in Nat
          /\ SumFunction(Totals') + Totals[d] = SumFunction(Totals) + Totals'[d]
      <3>1. PICK f, g : f = Totals /\ g = Totals'
        OBVIOUS
      <3>2. f \in [Days -> Nat] /\ IsFiniteSet(Days)
        BY <3>1, AccountTypes
      <3>3. g \in [Days -> Nat]
        BY <3>1 DEF Totals, GetDailySpend, Shape
      <3>4. \A b \in Days \ {d} : f[b] = g[b]
        BY <2>6, <3>1
      <3>5. SumFunction(g) \in Nat /\ SumFunction(g) + f[d] = SumFunction(f) + g[d]
        BY <3>2, <3>3, <3>4, SumChanges
      <3>. QED
        BY <3>1, <3>5
    <2>8. SumFunction(Dues) = SumFunction(Dues') + caller[c].amount /\ SumFunction(Dues') \in Nat
      BY <2>1, <2>2, DuesLose
    <2>9. PICK t, u, v, w, x, a :
             /\ t = SumFunction(Totals) /\ u = SumFunction(Totals') /\ v = SumFunction(Dues)
             /\ w = SumFunction(Dues') /\ x = Totals[d] /\ a = caller[c].amount
      OBVIOUS
    <2>10. /\ t \in Nat /\ u \in Nat /\ v \in Nat /\ w \in Nat /\ x \in Nat /\ a \in Nat
           /\ u + x = t + (x + a) /\ v = w + a /\ t + lost + v = Prior + paid
      BY <2>4, <2>5, <2>7, <2>8, <2>9
    <2>11. u + lost + w = Prior + paid
      BY <2>10
    <2>. QED
      BY <2>1, <2>9, <2>11
  <1>6. ASSUME NEW c \in Callers, CheckSpend(c)
        PROVE  SumFunction(Totals') + lost' + SumFunction(Dues') = Prior + paid'
    <2>1. UNCHANGED <<spend, lost, paid>> /\ caller[c].pc # "record"
      BY <1>6 DEF CheckSpend, history
    <2>2. caller'[c].pc # "record" /\ \A b \in Callers \ {c} : caller'[b] = caller[b]
      BY <1>6, Moved DEF Goes, Shape
    <2>. QED
      BY <1>11, <2>1, <2>2, DuesStay
  <1>7. ASSUME NEW c \in Callers, CheckBaseline(c)
        PROVE  SumFunction(Totals') + lost' + SumFunction(Dues') = Prior + paid'
    <2>1. UNCHANGED <<spend, lost, paid>> /\ caller[c].pc # "record"
      BY <1>7 DEF CheckBaseline, history
    <2>2. caller'[c].pc # "record" /\ \A b \in Callers \ {c} : caller'[b] = caller[b]
      BY <1>7, Moved DEF Goes, Shape
    <2>. QED
      BY <1>11, <2>1, <2>2, DuesStay
  <1>8. ASSUME NEW c \in Callers, AttributionFails(c)
        PROVE  SumFunction(Totals') + lost' + SumFunction(Dues') = Prior + paid'
    <2>1. /\ UNCHANGED <<spend, paid>>
          /\ lost' = IF caller[c].pc = "record" THEN lost + caller[c].amount ELSE lost
      BY <1>8 DEF AttributionFails
    <2>2. caller'[c].pc # "record" /\ \A b \in Callers \ {c} : caller'[b] = caller[b]
      BY <1>8, Moved DEF Goes, Shape
    <2>3. CASE caller[c].pc = "record"
      <3>1. SumFunction(Dues) = SumFunction(Dues') + caller[c].amount /\ SumFunction(Dues') \in Nat
        BY <2>2, <2>3, DuesLose
      <3>2. caller[c].amount \in Nat
        BY DEF Shape
      <3>. QED
        BY <1>11, <2>1, <2>3, <3>1, <3>2
    <2>4. CASE caller[c].pc # "record"
      BY <1>11, <2>1, <2>2, <2>4, DuesStay
    <2>. QED
      BY <2>3, <2>4
  <1>9. ASSUME UNCHANGED <<spend, caller, lost, paid>>
        PROVE  SumFunction(Totals') + lost' + SumFunction(Dues') = Prior + paid'
    BY <1>11, <1>9 DEF Dues, Pending
  <1>10. SetQuota \/ Midnight \/ UNCHANGED quota => UNCHANGED <<spend, caller, lost, paid>>
    BY DEF SetQuota, Midnight, quota, history
  <1>. QED
    BY <1>1, <1>2, <1>3, <1>4, <1>5, <1>6, <1>7, <1>8, <1>9, <1>10
    DEF QuotaNext, AssertWithinQuota, AttributeCost

-----------------------------------------------------------------------------
\* The alert of the first day.
LEMMA BaselineType ==
    ASSUME Shape, NEW d \in Days
    PROVE  BaselineSum(d) = Unset \/ BaselineSum(d) \in Nat
  <1>1. PICK W, f : W = Window(d) /\ f = [w \in W |-> spend[w]]
    OBVIOUS
  <1>2. IsFiniteSet(Days)
    BY FS_Interval, CostAssumption DEF Days
  <1>3. IsFiniteSet(W) /\ f \in [W -> Nat]
    BY <1>1, <1>2, FS_Subset DEF Window, Shape
  <1>4. SumFunction(f) \in Nat
    BY <1>3, SumIsNat
  <1>. QED
    BY <1>1, <1>4 DEF BaselineSum

\* The first day's baseline is of the day before alone.
LEMMA BaselineStays ==
    ASSUME Shape, spend'[1] = spend[1]
    PROVE  BaselineSum(2)' = BaselineSum(2)
  <1>1. \A w \in Days : w < 2 => w = 1
    BY CostAssumption DEF Days
  <1>2. Window(2)' = Window(2) /\ \A w \in Window(2) : spend'[w] = spend[w]
    BY <1>1 DEF Window
  <1>3. [w \in Window(2)' |-> spend'[w]] = [w \in Window(2) |-> spend[w]]
    BY <1>2
  <1>. QED
    BY <1>2, <1>3 DEF BaselineSum

\* What is anomalous stays so as the day's total grows.
LEMMA AnomalyGrows ==
    ASSUME NEW a \in Nat, NEW b \in Nat, a <= b, NEW sum, sum = Unset \/ sum \in Nat,
           Anomalous(a, sum)
    PROVE  Anomalous(b, sum)
  <1>1. sum # Unset /\ sum > 0 /\ a * WindowDays > sum * Multiplier /\ sum \in Nat
    BY DEF Anomalous
  <1>2. a * WindowDays <= b * WindowDays /\ WindowDays \in Nat /\ Multiplier \in Nat
    BY Times, CostAssumption
  <1>3. PICK p, q, r : p = a * WindowDays /\ q = b * WindowDays /\ r = sum * Multiplier
    OBVIOUS
  <1>4. p \in Nat /\ q \in Nat /\ r \in Nat
    BY <1>1, <1>2, <1>3
  <1>5. q > r
    BY <1>1, <1>2, <1>3, <1>4
  <1>. QED
    BY <1>1, <1>3, <1>5 DEF Anomalous

\* Watched once the first day is known to be the day and nothing to have failed.
Watch(total, sum) ==
    /\ 2 \in alerts => Anomalous(total, sum)
    /\ Anomalous(total, sum) =>
          \/ 2 \in alerts
          \/ \E c \in Callers : \/ caller[c].pc = "check"
                                \/ caller[c].pc = "baseline" /\ caller[c].spent = total
    /\ \A c \in Callers : caller[c].pc = "baseline" => caller[c].spent <= total

\* A caller outside check_spend_anomaly changes nothing of it.
LEMMA WatchStays ==
    ASSUME NEW total, NEW sum, Watch(total, sum), alerts' = alerts,
           NEW c \in Callers, \A b \in Callers \ {c} : caller'[b] = caller[b],
           caller[c].pc \notin {"check", "baseline"}, caller'[c].pc # "baseline"
    PROVE  Watch(total, sum)'
  <1>1. ASSUME NEW b \in Callers, caller[b].pc \in {"check", "baseline"}
        PROVE  caller'[b] = caller[b]
    BY <1>1
  <1>. QED
    BY <1>1 DEF Watch

\* Every step keeps the watch: a caller that records has its check still ahead.
LEMMA WatchedKept == ASSUME IInv, [QuotaNext]_quota PROVE Watched'
  <1>. SUFFICES ASSUME today' = 2, unattributed' = 0
                PROVE  Watch(GetDailySpend(2), BaselineSum(2))'
    BY DEF Watched, Watch
  <1>. Shape /\ Shape' /\ RecordsDue /\ Watched /\ 2 \in Days
    BY ShapeKept, CostAssumption DEF IInv, Days
  <1>. PICK total, sum : total = GetDailySpend(2) /\ sum = BaselineSum(2)
    OBVIOUS
  <1>. total \in Nat /\ (sum = Unset \/ sum \in Nat)
    BY DailyIsNat, BaselineType
  <1>1. UNCHANGED spend => /\ GetDailySpend(2)' = total
                         /\ BaselineSum(2)' = sum
    BY BaselineStays DEF GetDailySpend
  <1>2. today = 2 /\ unattributed = 0 => Watch(total, sum)
    BY DEF Watched, Watch
  <1>3. ASSUME NEW c \in Callers, today = 2, unattributed = 0, UNCHANGED <<spend, alerts>>,
               \A b \in Callers \ {c} : caller'[b] = caller[b],
               caller[c].pc \notin {"check", "baseline"}, caller'[c].pc # "baseline"
        PROVE  Watch(GetDailySpend(2), BaselineSum(2))'
    <2>1. Watch(total, sum)'
      BY <1>2, <1>3, WatchStays
    <2>. QED
      BY <1>1, <1>3, <2>1 DEF Watch
  <1>4. ASSUME NEW c \in Callers, AssertWithinQuota(c) \/ EndCall(c)
        PROVE  Watch(GetDailySpend(2), BaselineSum(2))'
    <2>1. /\ UNCHANGED <<spend, alerts, today, unattributed>>
          /\ caller[c].pc \notin {"check", "baseline"}
      BY <1>4 DEF AssertWithinQuota, StartCall, FindGlobalCap, CheckQuota, EndCall, history
    <2>2. caller'[c].pc # "baseline" /\ \A b \in Callers \ {c} : caller'[b] = caller[b]
      BY <1>4, Moved DEF AssertWithinQuota, Goes, Shape
    <2>. QED
      BY <1>3, <2>1, <2>2
  <1>5. ASSUME NEW c \in Callers, RecordSpend(c)
        PROVE  Watch(GetDailySpend(2), BaselineSum(2))'
    <2>1. /\ UNCHANGED <<alerts, today, unattributed>> /\ caller[c].pc = "record"
          /\ spend' = [spend EXCEPT ![caller[c].date] =
                         GetDailySpend(caller[c].date) + caller[c].amount]
      BY <1>5 DEF RecordSpend, history
    <2>2. caller'[c].pc = "check" /\ \A b \in Callers \ {c} : caller'[b] = caller[b]
      BY <1>5, Moved DEF Goes, Shape
    <2>3. caller[c].date = 2 /\ caller[c].amount \in Nat
      BY <2>1 DEF RecordsDue, Shape
    <2>4. PICK more \in Nat : more = GetDailySpend(2)' /\ total <= more
      <3>1. spend'[2] = total + caller[c].amount
        BY <2>1, <2>3 DEF Shape
      <3>2. spend'[2] # Unset
        BY <2>3, <3>1, CostAssumption
      <3>. QED
        BY <2>3, <3>1, <3>2 DEF GetDailySpend
    <2>5. BaselineSum(2)' = sum
      <3>1. spend'[1] = spend[1]
        BY <2>1, <2>3, CostAssumption DEF Shape, Days
      <3>. QED
        BY <3>1, BaselineStays
    <2>6. Anomalous(total, sum) => Anomalous(more, sum)
      BY <2>4, AnomalyGrows
    <2>7. \A b \in Callers : caller'[b].pc = "baseline" => caller'[b].spent <= more
      <3>1. \A b \in Callers : caller[b].spent \in Nat
        BY DEF Shape
      <3>. QED
        BY <1>2, <2>1, <2>2, <2>4, <3>1 DEF Watch
    <2>8. Watch(more, sum)'
      BY <1>2, <2>1, <2>2, <2>6, <2>7 DEF Watch
    <2>. QED
      BY <2>4, <2>5, <2>8 DEF Watch
  <1>6. ASSUME NEW c \in Callers, CheckSpend(c)
        PROVE  Watch(GetDailySpend(2), BaselineSum(2))'
    <2>1. UNCHANGED <<spend, alerts, today, unattributed>>
      BY <1>6 DEF CheckSpend, history
    <2>2. /\ caller'[c].pc = "baseline" /\ caller'[c].spent = total
          /\ \A b \in Callers \ {c} : caller'[b] = caller[b]
      BY <1>6, <2>1, Moved DEF Goes, Shape
    <2>3. Watch(total, sum)'
      <3>1. \A b \in Callers : caller'[b].pc = "baseline" => caller'[b].spent <= total
        BY <1>2, <2>1, <2>2 DEF Watch
      <3>. QED
        BY <1>2, <2>1, <2>2, <3>1 DEF Watch
    <2>. QED
      BY <1>1, <2>1, <2>3 DEF Watch
  <1>7. ASSUME NEW c \in Callers, CheckBaseline(c)
        PROVE  Watch(GetDailySpend(2), BaselineSum(2))'
    <2>1. /\ UNCHANGED <<spend, today, unattributed>> /\ caller[c].pc = "baseline"
          /\ alerts' = IF Anomalous(caller[c].spent, BaselineSum(today))
                       THEN alerts \union {today} ELSE alerts
      BY <1>7 DEF CheckBaseline, history
    <2>2. caller'[c].pc = "idle" /\ \A b \in Callers \ {c} : caller'[b] = caller[b]
      BY <1>7, Moved DEF Goes, Shape
    <2>3. PICK spent \in Nat : spent = caller[c].spent /\ spent <= total
      BY <1>2, <2>1 DEF Watch, Shape
    <2>4. 2 \in alerts' <=> 2 \in alerts \/ Anomalous(spent, sum)
      BY <2>1, <2>3
    <2>5. Anomalous(spent, sum) => Anomalous(total, sum)
      BY <2>3, AnomalyGrows
    <2>6. Watch(total, sum)'
      <3>1. 2 \in alerts' => Anomalous(total, sum)
        BY <1>2, <2>1, <2>4, <2>5 DEF Watch
      <3>2. ASSUME Anomalous(total, sum), 2 \notin alerts'
            PROVE  \E b \in Callers : \/ caller'[b].pc = "check"
                                      \/ caller'[b].pc = "baseline" /\ caller'[b].spent = total
        <4>1. PICK b \in Callers : \/ caller[b].pc = "check"
                                   \/ caller[b].pc = "baseline" /\ caller[b].spent = total
          BY <1>2, <2>1, <2>4, <3>2 DEF Watch
        <4>2. b # c
          BY <2>1, <2>3, <2>4, <3>2, <4>1
        <4>. QED
          BY <2>2, <4>1, <4>2
      <3>3. \A b \in Callers : caller'[b].pc = "baseline" => caller'[b].spent <= total
        BY <1>2, <2>1, <2>2 DEF Watch
      <3>. QED
        BY <3>1, <3>2, <3>3 DEF Watch
    <2>. QED
      BY <1>1, <2>1, <2>6 DEF Watch
  <1>8. ASSUME NEW c \in Callers, AttributionFails(c) PROVE FALSE
    BY <1>8 DEF AttributionFails, Shape
  <1>9. CASE SetQuota \/ UNCHANGED quota
    <2>1. UNCHANGED <<spend, alerts, today, unattributed, caller>>
      BY <1>9 DEF SetQuota, quota
    <2>. QED
      BY <1>1, <1>2, <2>1 DEF Watch
  <1>10. ASSUME Midnight PROVE FALSE
    BY <1>10 DEF Midnight, Shape
  <1>. QED
    BY <1>4, <1>5, <1>6, <1>7, <1>8, <1>9, <1>10 DEF QuotaNext, AttributeCost

-----------------------------------------------------------------------------
\* The beginning.
LEMMA SumOfZeros ==
    ASSUME NEW D, IsFiniteSet(D)
    PROVE  SumFunction([y \in D |-> 0]) = 0
  <1>. DEFINE S == {n \in Nat : \A T \in SUBSET D :
                       Cardinality(T) = n => SumFunction([y \in T |-> 0]) = 0}
  <1>1. \A T \in SUBSET D : IsFiniteSet(T) /\ Cardinality(T) \in Nat
    BY FS_Subset, FS_CardinalityType
  <1>2. 0 \in S
    <2>1. ASSUME NEW T \in SUBSET D, Cardinality(T) = 0
          PROVE  SumFunction([y \in T |-> 0]) = 0
      <3>1. T = {}
        BY <1>1, <2>1, FS_EmptySet
      <3>. QED
        BY <3>1, SumOfNone
    <2>. QED
      BY <2>1
  <1>3. ASSUME NEW n \in Nat, n \in S PROVE n + 1 \in S
    <2>. SUFFICES ASSUME NEW T \in SUBSET D, Cardinality(T) = n + 1
                  PROVE  SumFunction([y \in T |-> 0]) = 0
      OBVIOUS
    <2>1. PICK x \in T : TRUE
      <3>1. T # {}
        BY FS_EmptySet
      <3>. QED
        BY <3>1
    <2>2. T \ {x} \in SUBSET D /\ Cardinality(T \ {x}) = n
      BY <1>1, OneLess
    <2>3. SumFunction([y \in T \ {x} |-> 0]) = 0
      BY <1>3, <2>2
    <2>4. PICK f \in [T -> Nat] : f = [y \in T |-> 0]
      OBVIOUS
    <2>5. /\ SumFunction(f) \in Nat /\ SumFunction([y \in T \ {x} |-> f[y]]) \in Nat
          /\ SumFunction(f) = f[x] + SumFunction([y \in T \ {x} |-> f[y]])
      BY <1>1, SumSplits
    <2>6. [y \in T \ {x} |-> f[y]] = [y \in T \ {x} |-> 0] /\ f[x] = 0
      BY <2>4
    <2>. QED
      BY <2>3, <2>4, <2>5, <2>6
  <1>. HIDE DEF S
  <1>4. \A n \in Nat : n \in S
    BY <1>2, <1>3, EveryNumber
  <1>5. Cardinality(D) \in Nat /\ D \in SUBSET D
    BY <1>1
  <1>. QED
    BY <1>4, <1>5 DEF S

\* The first state has nothing in flight, nothing due and nothing to alert.
LEMMA InitIInv == QuotaInit => IInv
  <1>. SUFFICES ASSUME QuotaInit PROVE IInv
    OBVIOUS
  <1>. /\ Prior \in Nat /\ InitialCap \in Nat /\ Unset \notin Nat /\ MaxDay \in Nat
       /\ 1 \in Days /\ 2 \in Days /\ 2 \in 2..MaxDay /\ IsFiniteSet(Days)
    BY FS_Interval, CostAssumption DEF Days
  <1>1. \A c \in Callers :
           caller[c] = [pc |-> "idle", cap |-> 0, amount |-> 0, date |-> 1, spent |-> 0]
    BY DEF QuotaInit, Idle
  <1>2. Shape
    <2>1. caller \in [Callers ->
             [pc : {"idle", "global", "spent", "provider", "record", "check", "baseline"},
              cap : Nat, amount : Nat, date : 1..today, spent : Nat]]
      BY DEF QuotaInit, Idle
    <2>. QED
      BY <2>1 DEF QuotaInit, Shape
  <1>3. CapsBelow /\ RecordsDue
    BY <1>1 DEF QuotaInit, CapsBelow, RecordsDue
  <1>4. FutureEmpty
    BY DEF QuotaInit, FutureEmpty, Days
  <1>5. Headroom
    <2>. SUFFICES ASSUME NEW d \in 2..MaxDay
                  PROVE  GetDailySpend(d) + Cardinality(InFlight(d)) * Max(Costs)
                           <= Limit(highestCap) + Cardinality(Callers) * Max(Costs)
      BY DEF Headroom
    <2>1. InFlight(d) = {}
      BY <1>1 DEF InFlight
    <2>2. GetDailySpend(d) = 0
      BY DEF QuotaInit, GetDailySpend, Days
    <2>3. Limit(highestCap) \in Nat
      BY <1>2 DEF Limit, Shape
    <2>4. /\ Cardinality(Callers) * Max(Costs) \in Nat /\ Cardinality({}) * Max(Costs) \in Nat
          /\ Cardinality({}) * Max(Costs) <= Cardinality(Callers) * Max(Costs)
      BY RoomFor
    <2>. QED
      BY <2>1, <2>2, <2>3, <2>4
  <1>6. SpendAddsUp
    <2>1. SumFunction(Dues) = 0
      <3>1. Pending = {}
        BY <1>1 DEF Pending
      <3>. QED
        BY <3>1, SumOfNone DEF Dues
    <2>2. SumFunction(Totals) = Prior
      <3>1. PICK f \in [Days -> Nat] : f = Totals
        BY <1>2, AccountTypes
      <3>2. f[1] = Prior /\ \A d \in Days \ {1} : f[d] = 0
        BY <3>1 DEF QuotaInit, Totals, GetDailySpend
      <3>3. /\ SumFunction(f) \in Nat /\ SumFunction([y \in Days \ {1} |-> f[y]]) \in Nat
            /\ SumFunction(f) = f[1] + SumFunction([y \in Days \ {1} |-> f[y]])
        BY SumSplits
      <3>4. [y \in Days \ {1} |-> f[y]] = [y \in Days \ {1} |-> 0]
        BY <3>2
      <3>5. SumFunction([y \in Days \ {1} |-> 0]) = 0
        <4>1. IsFiniteSet(Days \ {1})
          BY FS_Subset
        <4>. QED
          BY <4>1, SumOfZeros
      <3>. QED
        BY <3>1, <3>2, <3>3, <3>4, <3>5
    <2>. QED
      BY <2>1, <2>2, Account DEF QuotaInit
  <1>7. Watched
    <2>1. GetDailySpend(2) = 0
      BY DEF QuotaInit, GetDailySpend
    <2>2. ~Anomalous(0, BaselineSum(2))
      <3>1. BaselineSum(2) = Unset \/ BaselineSum(2) \in Nat
        BY <1>2, BaselineType
      <3>2. BaselineSum(2) \in Nat => BaselineSum(2) * Multiplier \in Nat /\ 0 * WindowDays = 0
        BY CostAssumption
      <3>. QED
        BY <3>1, <3>2 DEF Anomalous
    <2>. QED
      BY <1>1, <2>1, <2>2 DEF QuotaInit, Watched
  <1>. QED
    BY <1>2, <1>3, <1>4, <1>5, <1>6, <1>7 DEF IInv

\* Every step keeps the inductive invariant.
LEMMA NextKeepsIInv == IInv /\ [QuotaNext]_quota => IInv'
  BY ShapeKept, CallsKept, HeadroomKept, AccountKept, WatchedKept DEF IInv

\* The inductive invariant holds in every reachable state, for any callers,
\* costs, caps and days.
THEOREM IInvAlways == QuotaSpec => []IInv
  BY InitIInv, NextKeepsIInv, PTL DEF QuotaSpec

\* No concurrent record_spend loses another's addition: the totals of the days,
\* what failed to be attributed and what is about to be recorded are always
\* what the calls have cost.
THEOREM QuotaInvAlways == QuotaSpec => []QuotaInv
  <1>1. IInv => QuotaInv
    BY DEF IInv, Shape, QuotaInv, QuotaTypeOK, Days
  <1>. QED
    BY <1>1, IInvAlways, PTL

\* The kill-switch of assert_within_quota bounds every day's total by the
\* highest cap so far and one call of each caller, however many callers there are
\* and however their calls, the caps and midnight interleave.
THEOREM OvershootBoundedAlways == QuotaSpec => []OvershootBounded
  <1>1. ASSUME IInv PROVE OvershootBounded
    <2>. SUFFICES ASSUME NEW d \in 2..MaxDay
                  PROVE  GetDailySpend(d) <= Limit(highestCap) + Cardinality(Callers) * Max(Costs)
      BY DEF OvershootBounded, Limit
    <2>1. /\ Cardinality(InFlight(d)) * Max(Costs) \in Nat
          /\ Cardinality(Callers) * Max(Costs) \in Nat
      <3>1. PICK old : old = InFlight(d) /\ old \in SUBSET Callers
        BY DEF InFlight
      <3>. QED
        BY <3>1, RoomFor
    <2>2. GetDailySpend(d) \in Nat /\ Limit(highestCap) \in Nat
      <3>1. d \in Days
        BY CostAssumption DEF Days
      <3>. QED
        BY <1>1, <3>1, DailyIsNat DEF IInv, Limit, Shape
    <2>3. GetDailySpend(d) + Cardinality(InFlight(d)) * Max(Costs)
            <= Limit(highestCap) + Cardinality(Callers) * Max(Costs)
      BY <1>1 DEF IInv, Headroom
    <2>. QED
      BY <2>1, <2>2, <2>3
  <1>. QED
    BY <1>1, IInvAlways, PTL

\* check_spend_anomaly is called after the spend is recorded, so of any number
\* of concurrent callers the last one to record a day sees the whole of it: the
\* alert of a day whose attributions are over is exact.
THEOREM AnomalyAlertedAlways == QuotaSpec => []AnomalyAlerted
  <1>1. IInv => AnomalyAlerted
    BY DEF IInv, Watched, AnomalyAlerted
  <1>. QED
    BY <1>1, IInvAlways, PTL
=============================================================================
