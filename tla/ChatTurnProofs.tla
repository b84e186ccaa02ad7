--------------------------- MODULE ChatTurnProofs ---------------------------
(***************************************************************************)
(* The theorems about chat turns and the budget, for any number of turns,  *)
(* conversations, months and providers, any prices and any usage.          *)
(***************************************************************************)
EXTENDS ChatTurn, FiniteSetTheorems, WellFoundedInduction, TLAPS

-----------------------------------------------------------------------------
(* Natural numbers.                                                        *)

LEMMA LeastNat ==
  ASSUME NEW T, T \subseteq Nat, T # {}
  PROVE  \E x \in T : \A y \in T : x <= y
  <1>1. PICK x \in T : \A y \in T : ~(<<y, x>> \in OpToRel(<, Nat))
    BY NatLessThanWellFounded, WFMin
  <1>2. \A y \in T : ~(y < x)
    BY <1>1 DEF OpToRel
  <1>3. QED
    BY <1>2

\* A set of numbers that has zero and the successors of its members.
LEMMA AllNumbers ==
  ASSUME NEW S, 0 \in S, \A n \in Nat : n \in S => n + 1 \in S
  PROVE  Nat \subseteq S
  <1>1. SUFFICES ASSUME Nat \ S # {}
                 PROVE  FALSE
    OBVIOUS
  <1>2. PICK n \in Nat \ S : \A m \in Nat \ S : n <= m
    BY <1>1, LeastNat
  <1>3. n # 0 /\ n - 1 \in Nat
    BY <1>2
  <1>4. n - 1 \in S
    BY <1>2, <1>3
  <1>5. (n - 1) + 1 \in S
    BY <1>3, <1>4
  <1>6. QED
    BY <1>2, <1>3, <1>5

LEMMA MinIsLeast ==
  ASSUME NEW T, T \subseteq Nat, T # {}
  PROVE  Min(T) \in T /\ \A y \in T : Min(T) <= y
  BY LeastNat DEF Min

\* A finite set of numbers has a greatest one: by induction on its size.
LEMMA GreatestNat ==
  ASSUME NEW T, T \subseteq Nat, T # {}, IsFiniteSet(T)
  PROVE  Max(T) \in T /\ \A y \in T : Max(T) >= y
  <1> DEFINE HasMax(U) == U = {} \/ \E x \in U : \A y \in U : x >= y
             S == {n \in Nat : \A U \in SUBSET Nat :
                                 IsFiniteSet(U) /\ Cardinality(U) = n => HasMax(U)}
  <1>1. 0 \in S
    <2>1. \A U \in SUBSET Nat : IsFiniteSet(U) /\ Cardinality(U) = 0 => U = {}
      BY FS_EmptySet
    <2>2. QED
      BY <2>1
  <1>2. ASSUME NEW n \in Nat, n \in S
        PROVE  n + 1 \in S
    <2>1. SUFFICES ASSUME NEW U \in SUBSET Nat, IsFiniteSet(U), Cardinality(U) = n + 1
                   PROVE  HasMax(U)
      OBVIOUS
    <2>2. CASE U = {}
      BY <2>2
    <2>3. CASE U # {}
      <3>1. PICK x \in U : TRUE
        BY <2>3
      <3>2. IsFiniteSet(U \ {x}) /\ Cardinality(U \ {x}) = n
        <4>1. IsFiniteSet(U \ {x}) /\ Cardinality(U \ {x}) = Cardinality(U) - 1
          BY <2>1, <3>1, FS_RemoveElement
        <4>2. QED
          BY <4>1, <2>1
      <3>3. HasMax(U \ {x})
        BY <3>2, <1>2, U \ {x} \in SUBSET Nat
      <3>4. CASE U \ {x} = {}
        <4>1. U = {x} /\ x \in Nat
          BY <3>1, <3>4
        <4>2. QED
          BY <4>1
      <3>5. CASE U \ {x} # {}
        <4>1. PICK y \in U \ {x} : \A z \in U \ {x} : y >= z
          BY <3>3, <3>5
        <4>2. x \in Nat /\ y \in Nat /\ y \in U
          BY <3>1, <4>1
        <4>3. CASE x >= y
          <5>1. \A z \in U : x >= z
            BY <4>1, <4>2, <4>3
          <5>2. QED
            BY <5>1, <3>1
        <4>4. CASE y >= x
          <5>1. \A z \in U : y >= z
            BY <4>1, <4>2, <4>4
          <5>2. QED
            BY <5>1, <4>2
        <4>5. QED
          BY <4>2, <4>3, <4>4
      <3>6. QED
        BY <3>4, <3>5
    <2>4. QED
      BY <2>2, <2>3
  <1>3. Nat \subseteq S
    <2> HIDE DEF S
    <2> QED
      BY <1>1, <1>2, AllNumbers
  <1>4. Cardinality(T) \in Nat
    BY FS_CardinalityType
  <1>5. HasMax(T)
    BY <1>3, <1>4
  <1>6. QED
    BY <1>5 DEF Max

LEMMA FiniteImage ==
  ASSUME NEW S, NEW f, IsFiniteSet(S)
  PROVE  IsFiniteSet({f[x] : x \in S})
  <1> DEFINE T == {f[x] : x \in S}
             g == [x \in S |-> f[x]]
  <1>1. g \in Surjection(S, T)
    BY DEF Surjection
  <1>2. QED
    BY <1>1, FS_Surjection

LEMMA MaxOfTwo ==
  ASSUME NEW a \in Int, NEW b \in Int
  PROVE  /\ Max({a, b}) \in {a, b}
         /\ Max({a, b}) >= a
         /\ Max({a, b}) >= b
  <1>1. \E x \in {a, b} : \A y \in {a, b} : x >= y
    <2>1. CASE a >= b
      BY <2>1
    <2>2. CASE b >= a
      BY <2>2
    <2>3. QED
      BY <2>1, <2>2
  <1>2. QED
    BY <1>1 DEF Max

LEMMA NotBelowZero ==
  ASSUME NEW x \in Int
  PROVE  Max({0, x}) \in Nat /\ Max({0, x}) \in {0, x} /\ Max({0, x}) >= x
  <1>1. Max({0, x}) \in {0, x} /\ Max({0, x}) >= 0 /\ Max({0, x}) >= x
    BY MaxOfTwo
  <1>2. QED
    BY <1>1

LEMMA Products ==
  ASSUME NEW a \in Nat, NEW b \in Nat, NEW c \in Nat, a <= b
  PROVE  /\ a * c \in Nat /\ b * c \in Nat
         /\ a * c <= b * c
         /\ c * a <= c * b
  <1>1. a * c <= b * c
    <2>1. (b - a) \in Nat /\ (b - a) * c >= 0
      OBVIOUS
    <2>2. b * c = a * c + (b - a) * c
      OBVIOUS
    <2>3. QED
      BY <2>1, <2>2
  <1>2. a * c = c * a /\ b * c = c * b /\ a * c \in Nat /\ b * c \in Nat
    OBVIOUS
  <1>3. QED
    BY <1>1, <1>2

LEMMA OneMore ==
  ASSUME NEW a \in Nat, NEW b \in Nat
  PROVE  a * (b + 1) = a * b + a /\ a * b \in Nat
  OBVIOUS

-----------------------------------------------------------------------------
(* Prices.                                                                 *)

LEMMA Division ==
  ASSUME NEW n \in Nat, NEW d \in Nat, d # 0
  PROVE  /\ n \div d \in Nat
         /\ n % d \in 0 .. d - 1
         /\ n % d = n - d * (n \div d)
  <1>1. n \div d \in Nat /\ n % d \in 0 .. d - 1
    OBVIOUS
  <1>2. n % d = n - d * (n \div d)
    BY <1>1
  <1>3. QED
    BY <1>1, <1>2

LEMMA RoundingIsMonotone ==
  ASSUME NEW n \in Nat, NEW m \in Nat, NEW d \in Nat, d # 0, n <= m
  PROVE  /\ RoundedQuotient(n, d) \in Nat
         /\ RoundedQuotient(n, d) <= RoundedQuotient(m, d)
  <1> DEFINE qn == n \div d
             qm == m \div d
             rn == n % d
             rm == m % d
  <1>1. /\ qn \in Nat /\ rn \in 0 .. d - 1 /\ rn = n - d * qn
        /\ qm \in Nat /\ rm \in 0 .. d - 1 /\ rm = m - d * qm
    BY Division
  <1>2. /\ RoundedQuotient(n, d) = IF 2 * rn < d \/ (2 * rn = d /\ qn % 2 = 0) THEN qn ELSE qn + 1
        /\ RoundedQuotient(m, d) = IF 2 * rm < d \/ (2 * rm = d /\ qm % 2 = 0) THEN qm ELSE qm + 1
    BY DEF RoundedQuotient
  <1> HIDE DEF qn, qm, rn, rm
  <1>3. RoundedQuotient(n, d) \in {qn, qn + 1} /\ RoundedQuotient(m, d) \in {qm, qm + 1}
    BY <1>2
  <1>4. CASE qn < qm
    BY <1>1, <1>3, <1>4
  <1>5. CASE qn = qm
    <2>1. rn <= rm
      BY <1>1, <1>5
    <2>2. QED
      BY <1>1, <1>2, <1>5, <2>1
  <1>6. ~(qm < qn)
    <2>1. SUFFICES ASSUME qm < qn
                   PROVE  FALSE
      OBVIOUS
    <2>2. qm + 1 <= qn
      BY <1>1, <2>1
    <2>3. d * (qm + 1) <= d * qn
      BY <1>1, <2>2, Products
    <2>4. d * (qm + 1) = d * qm + d
      BY <1>1
    <2>5. d * qm \in Nat /\ d * qn \in Nat
      BY <1>1
    <2>6. QED
      BY <1>1, <2>3, <2>4, <2>5
  <1>7. QED
    BY <1>1, <1>3, <1>4, <1>5, <1>6

LEMMA CostIsMonotone ==
  ASSUME NEW p \in Providers, NEW a \in Nat, NEW b \in Nat, a <= b
  PROVE  /\ estimate_cost_cents(p, a) \in Nat
         /\ estimate_cost_cents(p, a) <= estimate_cost_cents(p, b)
  <1>1. /\ Rates[p] \in Nat /\ PricingUnit \in Nat /\ PricingUnit # 0
    BY BudgetAssumption
  <1>2. /\ a * Rates[p] \in Nat /\ b * Rates[p] \in Nat
        /\ a * Rates[p] <= b * Rates[p]
    BY <1>1, Products
  <1>3. QED
    BY <1>1, <1>2, RoundingIsMonotone DEF estimate_cost_cents

LEMMA LeastEstimateIsLeast ==
  /\ LeastEstimate \in Nat
  /\ \A p \in Providers, mode \in DOMAIN OutputTokens :
       LeastEstimate <= ai_max_tool_rounds * estimate_cost_cents(p, OutputTokens[mode] + 1)
  <1> DEFINE C == {estimate_cost_cents(p, OutputTokens[mode] + 1) :
                     p \in Providers, mode \in DOMAIN OutputTokens}
  <1>1. \A p \in Providers, mode \in DOMAIN OutputTokens :
          estimate_cost_cents(p, OutputTokens[mode] + 1) \in Nat
    BY CostIsMonotone, ChatAssumption
  <1>2. C \subseteq Nat /\ C # {}
    BY <1>1, ChatAssumption, BudgetAssumption
  <1>3. Min(C) \in C /\ \A y \in C : Min(C) <= y
    <2> HIDE DEF C
    <2> QED
      BY <1>2, MinIsLeast
  <1>4. ai_max_tool_rounds \in Nat
    BY ChatAssumption
  <1>5. LeastEstimate = ai_max_tool_rounds * Min(C)
    BY DEF LeastEstimate
  <1>6. \A y \in C : ai_max_tool_rounds * Min(C) <= ai_max_tool_rounds * y
    <2> HIDE DEF C
    <2> QED
      BY <1>2, <1>3, <1>4, Products
  <1>7. LeastEstimate \in Nat
    <2>1. Min(C) \in Nat
      BY <1>2, <1>3
    <2> HIDE DEF C
    <2>2. QED
      BY <2>1, <1>4, <1>5
  <1>8. QED
    BY <1>5, <1>6, <1>7

LEMMA DearestTurnIsDearest ==
  /\ DearestTurn \in Nat
  /\ \A p \in Providers, tokens \in RoundTokens :
       estimate_cost_cents(p, ai_max_tool_rounds * tokens) <= DearestTurn
  <1> DEFINE P == Providers \X RoundTokens
             cost == [x \in P |-> estimate_cost_cents(x[1], ai_max_tool_rounds * x[2])]
             D == {cost[x] : x \in P}
             C == {estimate_cost_cents(p, ai_max_tool_rounds * tokens) :
                     p \in Providers, tokens \in RoundTokens}
  <1>1. C = D
    <2>1. \A p \in Providers, tokens \in RoundTokens :
            /\ <<p, tokens>> \in P
            /\ cost[<<p, tokens>>] = estimate_cost_cents(p, ai_max_tool_rounds * tokens)
      OBVIOUS
    <2>2. \A x \in P : /\ x[1] \in Providers /\ x[2] \in RoundTokens
                       /\ x = <<x[1], x[2]>>
      OBVIOUS
    <2>3. C \subseteq D
      <3>1. SUFFICES ASSUME NEW p \in Providers, NEW tokens \in RoundTokens
                     PROVE  estimate_cost_cents(p, ai_max_tool_rounds * tokens) \in D
        OBVIOUS
      <3>2. QED
        BY <2>1
    <2>4. D \subseteq C
      BY <2>2
    <2>5. QED
      BY <2>3, <2>4
  <1>2. IsFiniteSet(P)
    BY FS_Product, ChatAssumption, BudgetAssumption
  <1>3. IsFiniteSet(D)
    <2> HIDE DEF P, cost
    <2> QED
      BY <1>2, FiniteImage
  <1>4. \A p \in Providers, tokens \in RoundTokens :
          estimate_cost_cents(p, ai_max_tool_rounds * tokens) \in Nat
    BY CostIsMonotone, ChatAssumption
  <1>5. C \subseteq Nat /\ C # {}
    <2>1. C \subseteq Nat
      BY <1>4
    <2>2. PICK p \in Providers, tokens \in RoundTokens : TRUE
      BY ChatAssumption, BudgetAssumption
    <2>3. estimate_cost_cents(p, ai_max_tool_rounds * tokens) \in C
      OBVIOUS
    <2>4. QED
      BY <2>1, <2>3
  <1>6. Max(C) \in C /\ \A y \in C : Max(C) >= y
    <2> HIDE DEF C, D
    <2> QED
      BY <1>1, <1>3, <1>5, GreatestNat
  <1>7. DearestTurn = Max(C)
    BY DEF DearestTurn
  <1>8. DearestTurn \in Nat
    BY <1>5, <1>6, <1>7
  <1>9. QED
    BY <1>6, <1>7, <1>8, <1>4

-----------------------------------------------------------------------------
(* Sums over the months.                                                   *)

\* The recursion of Total has a solution, and Total is its last value.
LEMMA TotalIsDefined ==
  ASSUME NEW f \in [Months -> Nat]
  PROVE  \E g \in [0 .. MaxMonth -> Nat] :
           /\ g[0] = 0
           /\ \A m \in Months : g[m] = g[m - 1] + f[m]
           /\ Total(f) = g[MaxMonth]
  <1> DEFINE Sums(g, n) == /\ g[0] = 0
                           /\ \A m \in Months : m <= n => g[m] = g[m - 1] + f[m]
             S == {n \in Nat : n <= MaxMonth => \E g \in [0 .. n -> Nat] : Sums(g, n)}
  <1>0. MaxMonth \in Nat /\ MaxMonth # 0
    BY BudgetAssumption
  <1>1. 0 \in S
    <2>1. [m \in 0 .. 0 |-> 0] \in [0 .. 0 -> Nat] /\ Sums([m \in 0 .. 0 |-> 0], 0)
      BY <1>0 DEF Months
    <2>2. QED
      BY <2>1
  <1>2. ASSUME NEW n \in Nat, n \in S
        PROVE  n + 1 \in S
    <2>1. SUFFICES ASSUME n + 1 <= MaxMonth
                   PROVE  \E g \in [0 .. n + 1 -> Nat] : Sums(g, n + 1)
      OBVIOUS
    <2>2. PICK g \in [0 .. n -> Nat] : Sums(g, n)
      BY <1>0, <1>2, <2>1
    <2>3. n + 1 \in Months /\ f[n + 1] \in Nat
      BY <1>0, <2>1 DEF Months
    <2> DEFINE h == [m \in 0 .. n + 1 |-> IF m = n + 1 THEN g[n] + f[n + 1] ELSE g[m]]
    <2>4. h \in [0 .. n + 1 -> Nat]
      <3>1. \A m \in 0 .. n + 1 : m = n + 1 \/ m \in 0 .. n
        OBVIOUS
      <3>2. n \in 0 .. n
        OBVIOUS
      <3>3. QED
        BY <2>2, <2>3, <3>1, <3>2
    <2>5. h[0] = 0
      BY <2>2
    <2>6. ASSUME NEW m \in Months, m <= n + 1
          PROVE  h[m] = h[m - 1] + f[m]
      <3>1. m \in Nat /\ m >= 1
        BY <1>0 DEF Months
      <3>2. CASE m = n + 1
        <4>1. h[m] = g[n] + f[n + 1]
          BY <3>2
        <4>2. m - 1 = n /\ n \in 0 .. n + 1 /\ n # n + 1
          BY <3>2
        <4>3. h[n] = g[n]
          BY <4>2
        <4>4. QED
          BY <4>1, <4>2, <4>3, <3>2
      <3>3. CASE m <= n
        <4>1. m \in 0 .. n + 1 /\ m # n + 1 /\ m - 1 \in 0 .. n + 1 /\ m - 1 # n + 1
          BY <3>1, <3>3
        <4>2. h[m] = g[m] /\ h[m - 1] = g[m - 1]
          BY <4>1
        <4>3. QED
          BY <4>2, <3>3, <2>2
      <3>4. QED
        BY <3>1, <2>6, <3>2, <3>3
    <2> HIDE DEF h
    <2>7. QED
      BY <2>4, <2>5, <2>6
  <1>3. MaxMonth \in S
    <2> HIDE DEF S
    <2> QED
      BY <1>0, <1>1, <1>2, AllNumbers
  <1>4. PICK g \in [0 .. MaxMonth -> Nat] : Sums(g, MaxMonth)
    BY <1>0, <1>3
  <1>5. \A m \in 0 .. MaxMonth : m = 0 \/ m \in Months
    BY <1>0 DEF Months
  <1>6. g = [m \in 0 .. MaxMonth |-> IF m = 0 THEN 0 ELSE g[m - 1] + f[m]]
    BY <1>4, <1>5 DEF Months
  <1> DEFINE u == CHOOSE x : x = [m \in 0 .. MaxMonth |-> IF m = 0 THEN 0 ELSE x[m - 1] + f[m]]
  <1>7. u = [m \in 0 .. MaxMonth |-> IF m = 0 THEN 0 ELSE u[m - 1] + f[m]]
    BY <1>6
  <1>8. Total(f) = u[MaxMonth]
    BY DEF Total
  <1> HIDE DEF u
  <1>9. u[0] = 0
    BY <1>0, <1>7
  <1>10. \A m \in Months : u[m] = u[m - 1] + f[m]
    BY <1>0, <1>7 DEF Months
  <1> DEFINE V == {n \in Nat : n <= MaxMonth => u[n] \in Nat}
  <1>11. 0 \in V
    BY <1>9
  <1>12. ASSUME NEW n \in Nat, n \in V
         PROVE  n + 1 \in V
    <2>1. SUFFICES ASSUME n + 1 <= MaxMonth
                   PROVE  u[n + 1] \in Nat
      OBVIOUS
    <2>2. n + 1 \in Months /\ f[n + 1] \in Nat /\ u[n] \in Nat
      BY <1>0, <1>12, <2>1 DEF Months
    <2>3. u[n + 1] = u[(n + 1) - 1] + f[n + 1]
      BY <1>10, <2>2
    <2>4. QED
      BY <2>2, <2>3
  <1>13. Nat \subseteq V
    <2> HIDE DEF V
    <2> QED
      BY <1>11, <1>12, AllNumbers
  <1>14. \A m \in 0 .. MaxMonth : u[m] \in Nat
    BY <1>0, <1>13
  <1>15. u \in [0 .. MaxMonth -> Nat]
    BY <1>7, <1>14
  <1>16. QED
    BY <1>8, <1>9, <1>10, <1>15

\* What is added to one month is added to the total.
LEMMA TotalAdds ==
  ASSUME NEW f \in [Months -> Nat], NEW h \in [Months -> Nat],
         NEW k \in Months, NEW c \in Nat,
         h[k] = f[k] + c, \A m \in Months \ {k} : h[m] = f[m]
  PROVE  Total(h) = Total(f) + c
  <1>0. MaxMonth \in Nat /\ k \in Nat /\ k >= 1 /\ k <= MaxMonth
    BY BudgetAssumption DEF Months
  <1>1. PICK a \in [0 .. MaxMonth -> Nat] :
          /\ a[0] = 0
          /\ \A m \in Months : a[m] = a[m - 1] + f[m]
          /\ Total(f) = a[MaxMonth]
    BY TotalIsDefined
  <1>2. PICK b \in [0 .. MaxMonth -> Nat] :
          /\ b[0] = 0
          /\ \A m \in Months : b[m] = b[m - 1] + h[m]
          /\ Total(h) = b[MaxMonth]
    BY TotalIsDefined
  <1> DEFINE S == {n \in Nat : n <= MaxMonth => b[n] = a[n] + IF k <= n THEN c ELSE 0}
  <1>3. 0 \in S
    BY <1>0, <1>1, <1>2
  <1>4. ASSUME NEW n \in Nat, n \in S
        PROVE  n + 1 \in S
    <2>1. SUFFICES ASSUME n + 1 <= MaxMonth
                   PROVE  b[n + 1] = a[n + 1] + IF k <= n + 1 THEN c ELSE 0
      OBVIOUS
    <2>2. n + 1 \in Months /\ n \in 0 .. MaxMonth /\ (n + 1) - 1 = n
      BY <1>0, <2>1 DEF Months
    <2>3. /\ b[n + 1] = b[n] + h[n + 1]
          /\ a[n + 1] = a[n] + f[n + 1]
          /\ b[n] \in Nat /\ a[n] \in Nat /\ h[n + 1] \in Nat /\ f[n + 1] \in Nat
      BY <1>1, <1>2, <2>2
    <2>4. b[n] = a[n] + IF k <= n THEN c ELSE 0
      BY <1>0, <1>4, <2>1
    <2>5. CASE k = n + 1
      BY <1>0, <2>3, <2>4, <2>5
    <2>6. CASE k # n + 1
      <3>1. h[n + 1] = f[n + 1]
        BY <2>2, <2>6
      <3>2. CASE k <= n
        <4>1. k <= n + 1 /\ b[n] = a[n] + c
          BY <1>0, <2>4, <3>2
        <4>2. QED
          BY <2>3, <3>1, <4>1
      <3>3. CASE ~(k <= n)
        <4>1. ~(k <= n + 1) /\ b[n] = a[n]
          BY <1>0, <2>3, <2>4, <2>6, <3>3
        <4>2. QED
          BY <2>3, <3>1, <4>1
      <3>4. QED
        BY <3>2, <3>3
    <2>7. QED
      BY <2>5, <2>6
  <1>5. MaxMonth \in S
    <2> HIDE DEF S
    <2> QED
      BY <1>0, <1>3, <1>4, AllNumbers
  <1>6. QED
    BY <1>0, <1>1, <1>2, <1>5

-----------------------------------------------------------------------------
(* What the steps make of a turn's record.                                 *)

\* A record that the invariant allows.
Good(r) == r \in TurnRecord /\ SpendingOK(r) /\ VoiceOK(r)

\* Holds, of the record of a turn.
HasRow(r, m) ==
  \/ r.pc \in Places \ {"idle", "reserve"} /\ r.reservedIn = m
  \/ r.pc \in {"done", "end"} /\ r.settledIn = m

LEMMA Constants ==
  /\ MaxMonth \in Nat /\ MaxMonth # 0 /\ Months \subseteq Nat /\ 1 \in Months
  /\ ai_max_tool_rounds \in Nat /\ ai_max_tool_rounds # 0
  /\ RoundTokens \subseteq Nat /\ RoundTokens # {}
  /\ HardCap \in Nat
  BY BudgetAssumption, ChatAssumption DEF Months

LEMMA IdleIsGood ==
  ASSUME BudgetTypeOK
  PROVE  Good(IdleTurn) /\ \A m \in Months : ~HasRow(IdleTurn, m)
  <1>1. IdleTurn \in TurnRecord
    BY Constants DEF IdleTurn, TurnRecord, Places, UsageEventStatus
  <1>2. month \in Nat /\ 1 <= month
    BY Constants DEF BudgetTypeOK, Months
  <1>3. PICK n \in RoundTokens : TRUE
    BY Constants
  <1>4. 0 <= n * 0
    BY Constants, <1>3
  <1>5. SpendingOK(IdleTurn)
    BY Constants, <1>2, <1>3, <1>4 DEF SpendingOK, IdleTurn
  <1>6. VoiceOK(IdleTurn)
    BY DEF VoiceOK, IdleTurn
  <1>7. QED
    BY <1>1, <1>5, <1>6 DEF Good, HasRow, IdleTurn

LEMMA PostedIsGood ==
  ASSUME BudgetTypeOK, NEW p \in Providers, NEW e \in Nat, LeastEstimate <= e, NEW n,
         n = [IdleTurn EXCEPT !.pc = "reserve", !.provider = p, !.estimate = e,
                              !.reservedIn = month]
  PROVE  Good(n) /\ \A m \in Months : ~HasRow(n, m)
  <1>1. Good(IdleTurn)
    BY IdleIsGood
  <1>2. month \in Months /\ month \in Nat
    BY Constants DEF BudgetTypeOK
  <1>3. n \in TurnRecord
    BY <1>1, <1>2 DEF Good, TurnRecord, Places
  <1>4. /\ n.pc = "reserve" /\ n.provider = p /\ n.estimate = e /\ n.reservedIn = month
        /\ n.settledIn = 1 /\ n.round = 0 /\ n.tokens = 0 /\ n.authors = {}
        /\ n.proposed = FALSE
    BY DEF IdleTurn
  <1>5. SpendingOK(n)
    <2>1. PICK k \in RoundTokens : TRUE
      BY Constants
    <2>2. 0 <= k * 0
      BY Constants, <2>1
    <2>3. 1 <= month
      BY <1>2, Constants DEF Months
    <2>4. QED
      BY <1>2, <1>4, <2>1, <2>2, <2>3, Constants DEF SpendingOK
  <1>6. VoiceOK(n)
    BY <1>4 DEF VoiceOK
  <1>7. QED
    BY <1>3, <1>4, <1>5, <1>6 DEF Good, HasRow

LEMMA ReservedIsGood ==
  ASSUME BudgetTypeOK, NEW r, Good(r), r.pc = "reserve",
         MayReserve(ledger[r.reservedIn], r.estimate),
         NEW n, n = [r EXCEPT !.pc = "stream"]
  PROVE  Good(n) /\ \A m \in Months : HasRow(n, m) => m = r.reservedIn
  <1>1. n \in TurnRecord
    BY DEF Good, TurnRecord, Places
  <1>2. /\ n.pc = "stream" /\ n.provider = r.provider /\ n.estimate = r.estimate
        /\ n.reservedIn = r.reservedIn /\ n.settledIn = r.settledIn /\ n.round = r.round
        /\ n.tokens = r.tokens /\ n.authors = r.authors
    BY DEF Good, TurnRecord
  <1>3. SpendingOK(n)
    BY <1>2 DEF Good, SpendingOK
  <1>4. VoiceOK(n)
    BY <1>2 DEF Good, VoiceOK
  <1>5. QED
    BY <1>1, <1>2, <1>3, <1>4 DEF Good, HasRow

LEMMA SpokenIsGood ==
  ASSUME BudgetTypeOK, NEW r, Good(r), r.pc = "stream",
         NEW n, n = [r EXCEPT !.pc = "text", !.text = TRUE, !.primed = TRUE,
                              !.authors = @ \cup {r.provider}]
  PROVE  Good(n) /\ \A m \in Months : HasRow(n, m) => HasRow(r, m)
  <1>1. r \in TurnRecord /\ r.provider \in Providers
    BY DEF Good, SpendingOK
  <1>2. n \in TurnRecord
    BY <1>1 DEF TurnRecord, Places
  <1>3. /\ n.pc = "text" /\ n.provider = r.provider /\ n.estimate = r.estimate
        /\ n.reservedIn = r.reservedIn /\ n.settledIn = r.settledIn /\ n.round = r.round
        /\ n.tokens = r.tokens /\ n.authors = r.authors \cup {r.provider} /\ n.text = TRUE
    BY <1>1 DEF TurnRecord
  <1>4. SpendingOK(n)
    BY <1>3 DEF Good, SpendingOK
  <1>5. VoiceOK(n)
    BY <1>3 DEF Good, VoiceOK
  <1>6. QED
    BY <1>2, <1>3, <1>4, <1>5 DEF Good, HasRow, Places

LEMMA CalledIsGood ==
  ASSUME BudgetTypeOK, NEW r, Good(r), r.pc = "stream", NEW kind \in ToolKinds,
         NEW n, n = [r EXCEPT !.calls = @ \cup {kind}]
  PROVE  Good(n) /\ \A m \in Months : HasRow(n, m) => HasRow(r, m)
  <1>1. r \in TurnRecord
    BY DEF Good
  <1>2. n \in TurnRecord
    BY <1>1 DEF TurnRecord
  <1>3. /\ n.pc = "stream" /\ n.provider = r.provider /\ n.estimate = r.estimate
        /\ n.reservedIn = r.reservedIn /\ n.settledIn = r.settledIn /\ n.round = r.round
        /\ n.tokens = r.tokens /\ n.authors = r.authors /\ n.text = r.text
    BY <1>1 DEF TurnRecord
  <1>4. SpendingOK(n)
    BY <1>3 DEF Good, SpendingOK
  <1>5. VoiceOK(n)
    BY <1>3 DEF Good, VoiceOK
  <1>6. QED
    BY <1>2, <1>3, <1>4, <1>5 DEF Good, HasRow, Places

\* A round's tokens are at most those of the dearest round so far.
LEMMA TokensAddUp ==
  ASSUME BudgetTypeOK, NEW r, Good(r), r.pc = "stream", NEW tokens \in RoundTokens
  PROVE  \E k \in RoundTokens : /\ r.tokens + tokens <= k * (r.round + 1)
                                /\ k * (r.round + 1) <= k * ai_max_tool_rounds
  <1>1. PICK n \in RoundTokens : r.tokens <= n * r.round
    BY DEF Good, SpendingOK
  <1>2. /\ n \in Nat /\ tokens \in Nat /\ r.round \in Nat /\ r.tokens \in Nat
        /\ r.round + 1 <= ai_max_tool_rounds
    BY <1>1, Constants DEF Good, TurnRecord, SpendingOK
  <1>3. \A k \in RoundTokens : k * (r.round + 1) <= k * ai_max_tool_rounds
    BY <1>2, Constants, Products
  <1>4. \A k \in Nat : k * (r.round + 1) = k * r.round + k /\ k * r.round \in Nat
    BY <1>2, OneMore
  <1>5. CASE tokens <= n
    <2>1. r.tokens + tokens <= n * r.round + n
      <3>1. n * r.round \in Nat
        BY <1>2, <1>4
      <3>2. QED
        BY <1>1, <1>2, <1>5, <3>1
    <2>2. QED
      BY <2>1, <1>2, <1>3, <1>4
  <1>6. CASE n <= tokens
    <2>1. n * r.round <= tokens * r.round
      BY <1>2, <1>6, Products
    <2>2. r.tokens + tokens <= tokens * r.round + tokens
      <3>1. n * r.round \in Nat /\ tokens * r.round \in Nat
        BY <1>2, <1>4
      <3>2. QED
        BY <1>1, <1>2, <2>1, <3>1
    <2>3. QED
      BY <2>2, <1>2, <1>3, <1>4
  <1>7. QED
    BY <1>2, <1>5, <1>6

\* A record from which a turn can go and settle.
Settleable(r) ==
  /\ r \in TurnRecord
  /\ r.pc \in {"stream", "text", "propose", "status"}
  /\ r.reservedIn <= month
  /\ r.provider \in Providers
  /\ LeastEstimate <= r.estimate
  /\ MayReserve(ledger[r.reservedIn], r.estimate)
  /\ \E k \in RoundTokens : r.tokens <= k * ai_max_tool_rounds
  /\ r.authors \subseteq {r.provider}

LEMMA GoodIsSettleable ==
  ASSUME BudgetTypeOK, NEW r, Good(r), r.pc \in {"stream", "text", "propose", "status"}
  PROVE  Settleable(r)
  <1>1. PICK n \in RoundTokens :
          r.tokens <= n * IF r.pc \in {"idle", "reserve", "stream", "text"} THEN r.round
                          ELSE ai_max_tool_rounds
    BY DEF Good, SpendingOK
  <1>2. n \in Nat /\ r.round \in Nat /\ r.tokens \in Nat /\ r.round <= ai_max_tool_rounds
    BY <1>1, Constants DEF Good, TurnRecord
  <1>3. n * r.round <= n * ai_max_tool_rounds /\ n * r.round \in Nat
        /\ n * ai_max_tool_rounds \in Nat
    BY <1>2, Constants, Products
  <1>4. r.tokens <= n * ai_max_tool_rounds
    BY <1>1, <1>2, <1>3
  <1>5. QED
    BY <1>4 DEF Good, SpendingOK, VoiceOK, Settleable

LEMMA SettlingIsGood ==
  ASSUME BudgetTypeOK, NEW r, Settleable(r), NEW outcome \in UsageEventStatus
  PROVE  /\ Good(GoSettle(r, outcome))
         /\ \A m \in Months : HasRow(GoSettle(r, outcome), m) => HasRow(r, m)
  <1> DEFINE n == GoSettle(r, outcome)
  <1>1. r \in TurnRecord /\ month \in Months /\ month \in Nat
    BY Constants DEF Settleable, BudgetTypeOK
  <1>2. n \in TurnRecord
    <2>1. 0 \in 0 .. ai_max_tool_rounds /\ "settle" \in Places /\ {} \in SUBSET ToolKinds
      BY Constants DEF Places
    <2>2. QED
      BY <1>1, <2>1 DEF GoSettle, TurnRecord
  <1>3. /\ n.pc = "settle" /\ n.provider = r.provider /\ n.estimate = r.estimate
        /\ n.reservedIn = r.reservedIn /\ n.settledIn = month /\ n.round = 0
        /\ n.tokens = r.tokens /\ n.authors = r.authors
    BY <1>1 DEF GoSettle, TurnRecord
  <1> HIDE DEF n
  <1>4. SpendingOK(n)
    BY <1>1, <1>3, Constants DEF Settleable, SpendingOK
  <1>5. VoiceOK(n)
    BY <1>3 DEF Settleable, VoiceOK
  <1>6. Good(n) /\ \A m \in Months : HasRow(n, m) => HasRow(r, m)
    BY <1>2, <1>3, <1>4, <1>5 DEF Good, HasRow, Places, Settleable
  <1>7. QED
    BY <1>6 DEF n

LEMMA RoundIsSettleable ==
  ASSUME BudgetTypeOK, NEW r, Good(r), r.pc = "stream", NEW tokens \in RoundTokens,
         NEW n, n = [r EXCEPT !.tokens = @ + tokens, !.authors = @ \cup {r.provider}]
  PROVE  /\ Settleable(n)
         /\ n.pc = "stream" /\ n.round = r.round /\ n.calls = r.calls
         /\ n.reservedIn = r.reservedIn
         /\ n.tokens = r.tokens + tokens
  <1>1. r \in TurnRecord /\ r.provider \in Providers /\ tokens \in Nat
    BY Constants DEF Good, SpendingOK
  <1>2. n \in TurnRecord
    <2>1. r.tokens + tokens \in Nat /\ r.authors \cup {r.provider} \in SUBSET Providers
      BY <1>1 DEF TurnRecord
    <2>2. n = [r EXCEPT !.tokens = r.tokens + tokens, !.authors = r.authors \cup {r.provider}]
      OBVIOUS
    <2>3. QED
      BY <1>1, <2>1, <2>2 DEF TurnRecord
  <1>3. /\ n.pc = "stream" /\ n.provider = r.provider /\ n.estimate = r.estimate
        /\ n.reservedIn = r.reservedIn /\ n.round = r.round /\ n.calls = r.calls
        /\ n.tokens = r.tokens + tokens /\ n.authors = r.authors \cup {r.provider}
    BY <1>1 DEF TurnRecord
  <1>4. \E k \in RoundTokens : n.tokens <= k * ai_max_tool_rounds
    <2>1. PICK k \in RoundTokens : /\ r.tokens + tokens <= k * (r.round + 1)
                                   /\ k * (r.round + 1) <= k * ai_max_tool_rounds
      BY TokensAddUp
    <2>2. /\ k * (r.round + 1) \in Nat /\ k * ai_max_tool_rounds \in Nat
          /\ r.tokens + tokens \in Nat
      BY <1>1, <2>1, Constants DEF TurnRecord
    <2>3. QED
      BY <1>3, <2>1, <2>2
  <1>5. Settleable(n)
    BY <1>2, <1>3, <1>4 DEF Settleable, Good, SpendingOK, VoiceOK
  <1>6. QED
    BY <1>3, <1>5

LEMMA AskedIsGood ==
  ASSUME BudgetTypeOK, NEW r, Settleable(r), r.pc = "stream", r.round < ai_max_tool_rounds,
         r.settledIn <= month,
         NEW n, n = [r EXCEPT !.pc = "propose"]
  PROVE  Good(n) /\ \A m \in Months : HasRow(n, m) => HasRow(r, m)
  <1>1. n \in TurnRecord
    BY DEF Settleable, TurnRecord, Places
  <1>2. /\ n.pc = "propose" /\ n.provider = r.provider /\ n.estimate = r.estimate
        /\ n.reservedIn = r.reservedIn /\ n.settledIn = r.settledIn /\ n.round = r.round
        /\ n.tokens = r.tokens /\ n.authors = r.authors
    BY DEF Settleable, TurnRecord
  <1>3. SpendingOK(n)
    BY <1>2 DEF Settleable, SpendingOK
  <1>4. VoiceOK(n)
    BY <1>2 DEF Settleable, VoiceOK
  <1>5. QED
    BY <1>1, <1>2, <1>3, <1>4 DEF Good, HasRow, Places, Settleable

LEMMA NextRoundIsGood ==
  ASSUME BudgetTypeOK, NEW r, Settleable(r), r.pc = "stream",
         r.round + 1 < ai_max_tool_rounds, r.settledIn <= month,
         \E k \in RoundTokens : r.tokens <= k * (r.round + 1),
         NEW n, n = [r EXCEPT !.round = @ + 1, !.text = FALSE, !.calls = {}]
  PROVE  Good(n) /\ \A m \in Months : HasRow(n, m) => HasRow(r, m)
  <1>1. r \in TurnRecord /\ r.round \in Nat /\ r.round + 1 \in 0 .. ai_max_tool_rounds
    BY Constants DEF Settleable, TurnRecord
  <1>2. n \in TurnRecord
    BY <1>1 DEF TurnRecord
  <1>3. /\ n.pc = "stream" /\ n.provider = r.provider /\ n.estimate = r.estimate
        /\ n.reservedIn = r.reservedIn /\ n.settledIn = r.settledIn /\ n.round = r.round + 1
        /\ n.tokens = r.tokens /\ n.authors = r.authors
    BY <1>1 DEF TurnRecord
  <1>4. SpendingOK(n)
    BY <1>3 DEF Settleable, SpendingOK
  <1>5. VoiceOK(n)
    BY <1>1, <1>3 DEF Settleable, VoiceOK
  <1>6. QED
    BY <1>2, <1>3, <1>4, <1>5 DEF Good, HasRow, Places, Settleable

LEMMA InsertedIsGood ==
  ASSUME BudgetTypeOK, NEW r, Good(r), r.pc = "propose",
         NEW n, n = [r EXCEPT !.pc = "record"]
  PROVE  Good(n) /\ \A m \in Months : HasRow(n, m) => HasRow(r, m)
  <1>1. r \in TurnRecord
    BY DEF Good
  <1>2. n \in TurnRecord
    BY <1>1 DEF TurnRecord, Places
  <1>3. /\ n.pc = "record" /\ n.provider = r.provider /\ n.estimate = r.estimate
        /\ n.reservedIn = r.reservedIn /\ n.settledIn = r.settledIn /\ n.round = r.round
        /\ n.tokens = r.tokens /\ n.authors = r.authors
    BY <1>1 DEF TurnRecord
  <1>4. SpendingOK(n)
    BY <1>3 DEF Good, SpendingOK
  <1>5. VoiceOK(n)
    BY <1>3 DEF Good, VoiceOK
  <1>6. QED
    BY <1>2, <1>3, <1>4, <1>5 DEF Good, HasRow, Places

LEMMA ProposedIsGood ==
  ASSUME BudgetTypeOK, NEW r, Good(r), r.pc \in {"propose", "record"}, NEW created \in BOOLEAN,
         NEW n, n = [r EXCEPT !.pc = "status", !.primed = TRUE, !.calls = {},
                              !.text = FALSE, !.proposed = created]
  PROVE  Good(n) /\ \A m \in Months : HasRow(n, m) => HasRow(r, m)
  <1>1. r \in TurnRecord
    BY DEF Good
  <1>2. n \in TurnRecord
    BY <1>1 DEF TurnRecord, Places
  <1>3. /\ n.pc = "status" /\ n.provider = r.provider /\ n.estimate = r.estimate
        /\ n.reservedIn = r.reservedIn /\ n.settledIn = r.settledIn /\ n.round = r.round
        /\ n.tokens = r.tokens /\ n.authors = r.authors
    BY <1>1 DEF TurnRecord
  <1>4. SpendingOK(n)
    BY <1>3 DEF Good, SpendingOK
  <1>5. VoiceOK(n)
    BY <1>3 DEF Good, VoiceOK
  <1>6. QED
    BY <1>2, <1>3, <1>4, <1>5 DEF Good, HasRow, Places

LEMMA FallbackIsAProvider ==
  ASSUME NEW excluding, NEW disabled, pick_fallback_provider(excluding, disabled) # None
  PROVE  pick_fallback_provider(excluding, disabled) \in Providers
  <1> DEFINE E == Eligible(excluding, disabled)
  <1>1. E # {}
    BY DEF pick_fallback_provider
  <1>2. E \subseteq Nat
    BY DEF Eligible, FALLBACK_ORDER
  <1>3. Min(E) \in E
    BY <1>1, <1>2, MinIsLeast
  <1>4. FALLBACK_ORDER[Min(E)] \in Configured
    BY <1>3 DEF Eligible
  <1>5. QED
    BY <1>1, <1>4, ChatAssumption DEF pick_fallback_provider

LEMMA SubstitutedIsGood ==
  ASSUME BudgetTypeOK, NEW r, Good(r), r.pc = "stream", r.round = 0, ~r.text,
         NEW p \in Providers,
         NEW n, n = [r EXCEPT !.provider = p, !.fellBack = TRUE]
  PROVE  Good(n) /\ \A m \in Months : HasRow(n, m) => HasRow(r, m)
  <1>1. r \in TurnRecord /\ r.authors = {}
    BY DEF Good, VoiceOK
  <1>2. n \in TurnRecord
    BY <1>1 DEF TurnRecord
  <1>3. /\ n.pc = "stream" /\ n.provider = p /\ n.estimate = r.estimate
        /\ n.reservedIn = r.reservedIn /\ n.settledIn = r.settledIn /\ n.round = r.round
        /\ n.tokens = r.tokens /\ n.authors = {} /\ n.text = r.text
    BY <1>1 DEF TurnRecord
  <1>4. SpendingOK(n)
    BY <1>3 DEF Good, SpendingOK
  <1>5. VoiceOK(n)
    BY <1>3 DEF VoiceOK
  <1>6. QED
    BY <1>2, <1>3, <1>4, <1>5 DEF Good, HasRow, Places

LEMMA ResumedIsGood ==
  ASSUME BudgetTypeOK, NEW r, Good(r), r.pc = "text",
         NEW n, n = [r EXCEPT !.pc = "stream"]
  PROVE  Good(n) /\ \A m \in Months : HasRow(n, m) => HasRow(r, m)
  <1>1. r \in TurnRecord /\ r.text
    BY DEF Good, VoiceOK
  <1>2. n \in TurnRecord
    BY <1>1 DEF TurnRecord, Places
  <1>3. /\ n.pc = "stream" /\ n.provider = r.provider /\ n.estimate = r.estimate
        /\ n.reservedIn = r.reservedIn /\ n.settledIn = r.settledIn /\ n.round = r.round
        /\ n.tokens = r.tokens /\ n.authors = r.authors /\ n.text = r.text
    BY <1>1 DEF TurnRecord
  <1>4. SpendingOK(n)
    BY <1>3 DEF Good, SpendingOK
  <1>5. VoiceOK(n)
    BY <1>1, <1>3 DEF Good, VoiceOK
  <1>6. QED
    BY <1>2, <1>3, <1>4, <1>5 DEF Good, HasRow, Places

LEMMA SettledIsGood ==
  ASSUME BudgetTypeOK, NEW r, Good(r), r.pc = "settle", NEW pc \in {"done", "end"},
         NEW n, n = [r EXCEPT !.recordedIn = month, !.pc = pc]
  PROVE  Good(n) /\ \A m \in Months : HasRow(n, m) => HasRow(r, m) \/ m = r.settledIn
  <1>1. r \in TurnRecord /\ month \in Months
    BY DEF Good, BudgetTypeOK
  <1>2. n \in TurnRecord
    BY <1>1 DEF TurnRecord, Places
  <1>3. /\ n.pc = pc /\ n.provider = r.provider /\ n.estimate = r.estimate
        /\ n.reservedIn = r.reservedIn /\ n.settledIn = r.settledIn /\ n.round = r.round
        /\ n.tokens = r.tokens /\ n.authors = r.authors
    BY <1>1 DEF TurnRecord
  <1>4. SpendingOK(n)
    BY <1>3 DEF Good, SpendingOK
  <1>5. VoiceOK(n)
    BY <1>3 DEF Good, VoiceOK
  <1>6. QED
    BY <1>2, <1>3, <1>4, <1>5 DEF Good, HasRow, Places

-----------------------------------------------------------------------------
(* The messages, and the estimates made from them.                         *)

LogOK ==
  /\ log \in [Conversations -> SUBSET MessageRecord]
  /\ \A c \in Conversations : IsFiniteSet(log[c])

LEMMA LatestIsANumber ==
  ASSUME LogOK, NEW c \in Conversations
  PROVE  Latest(c) \in Nat
  <1> DEFINE at == [m \in log[c] |-> m.created_at]
             T == {0} \cup {at[m] : m \in log[c]}
  <1>1. T \subseteq Nat /\ T # {}
    <2>1. \A m \in log[c] : m \in MessageRecord
      BY DEF LogOK
    <2>2. \A m \in log[c] : at[m] \in Nat
      BY <2>1 DEF MessageRecord
    <2> HIDE DEF at
    <2>3. QED
      BY <2>2
  <1>2. IsFiniteSet({at[m] : m \in log[c]})
    <2> HIDE DEF at
    <2> QED
      BY FiniteImage DEF LogOK
  <1>3. IsFiniteSet(T)
    BY <1>2, FS_Singleton, FS_Union
  <1>4. T = {0} \cup {m.created_at : m \in log[c]}
    OBVIOUS
  <1> HIDE DEF T
  <1>5. Max(T) \in Nat
    BY <1>1, <1>3, GreatestNat
  <1>6. QED
    BY <1>4, <1>5 DEF Latest

LEMMA FlushKeepsTheLog ==
  ASSUME LogOK, NEW t \in Turns, NEW messages, NEW n \in Nat,
         DOMAIN messages = 1 .. n, \A i \in 1 .. n : messages[i] \in MessageRecord,
         Flush(t, messages)
  PROVE  LogOK'
  <1> DEFINE c == ConversationOf[t]
             fresh == [i \in 1 .. n |->
                         [messages[i] EXCEPT !.created_at = Latest(c) + i, !.by = t]]
             F == {fresh[i] : i \in 1 .. n}
  <1>1. c \in Conversations
    BY DEF Conversations
  <1>2. Latest(c) \in Nat
    BY <1>1, LatestIsANumber
  <1>3. F \subseteq MessageRecord
    <2>1. ASSUME NEW i \in 1 .. n
          PROVE  fresh[i] \in MessageRecord
      <3>1. Latest(c) + i \in Nat
        BY <1>2
      <3>2. messages[i] \in MessageRecord
        OBVIOUS
      <3> HIDE DEF c
      <3>3. QED
        BY <3>1, <3>2 DEF MessageRecord
    <2>2. QED
      BY <2>1
  <1>4. IsFiniteSet(F)
    <2>1. IsFiniteSet(1 .. n)
      BY FS_Interval
    <2> HIDE DEF fresh
    <2>2. QED
      BY <2>1, FiniteImage
  <1>5. log' = [log EXCEPT ![c] = log[c] \cup F]
    BY <1>1 DEF Flush, LogOK
  <1>6. IsFiniteSet(log[c] \cup F)
    BY <1>1, <1>4, FS_Union DEF LogOK
  <1> HIDE DEF F, c
  <1>7. log' \in [Conversations -> SUBSET MessageRecord]
    BY <1>1, <1>3, <1>5 DEF LogOK
  <1>8. \A d \in Conversations : IsFiniteSet(log'[d])
    BY <1>1, <1>5, <1>6 DEF LogOK
  <1>9. QED
    BY <1>7, <1>8 DEF LogOK

LEMMA RollbackKeepsTheLog ==
  ASSUME LogOK, NEW t \in Turns, Rollback(t)
  PROVE  LogOK'
  <1> DEFINE c == ConversationOf[t]
             kept == {m \in log[c] : m.by # t}
  <1>1. c \in Conversations
    BY DEF Conversations
  <1>2. log' = [log EXCEPT ![c] = kept]
    BY <1>1 DEF Rollback, LogOK
  <1>3. kept \subseteq MessageRecord /\ IsFiniteSet(kept)
    BY <1>1, FS_Subset DEF LogOK
  <1> HIDE DEF c, kept
  <1>4. log' \in [Conversations -> SUBSET MessageRecord]
    BY <1>1, <1>2, <1>3 DEF LogOK
  <1>5. \A d \in Conversations : IsFiniteSet(log'[d])
    BY <1>1, <1>2, <1>3 DEF LogOK
  <1>6. QED
    BY <1>4, <1>5 DEF LogOK

LEMMA CommitKeepsTheLog ==
  ASSUME LogOK, NEW t \in Turns, Commit(t)
  PROVE  LogOK'
  <1> DEFINE c == ConversationOf[t]
             shown == [m \in log[c] |-> IF m.by = t THEN [m EXCEPT !.by = None] ELSE m]
             S == {shown[m] : m \in log[c]}
  <1>1. c \in Conversations
    BY DEF Conversations
  <1>2. log' = [log EXCEPT ![c] = S]
    <2>1. S = {IF m.by = t THEN [m EXCEPT !.by = None] ELSE m : m \in log[c]}
      OBVIOUS
    <2> HIDE DEF S
    <2>2. QED
      BY <1>1, <2>1 DEF Commit, LogOK
  <1>3. S \subseteq MessageRecord
    <2>1. ASSUME NEW m \in log[c]
          PROVE  shown[m] \in MessageRecord
      <3>1. m \in MessageRecord
        BY <1>1 DEF LogOK
      <3>2. QED
        BY <3>1 DEF MessageRecord
    <2>2. QED
      BY <2>1
  <1>4. IsFiniteSet(S)
    <2> HIDE DEF shown
    <2> QED
      BY <1>1, FiniteImage DEF LogOK
  <1> HIDE DEF c, S
  <1>5. log' \in [Conversations -> SUBSET MessageRecord]
    BY <1>1, <1>2, <1>3 DEF LogOK
  <1>6. \A d \in Conversations : IsFiniteSet(log'[d])
    BY <1>1, <1>2, <1>4 DEF LogOK
  <1>7. QED
    BY <1>5, <1>6 DEF LogOK

LEMMA MessagesAreRecords ==
  /\ \A role \in Roles : Message(role) \in MessageRecord
  /\ CallMessage \in MessageRecord
  BY DEF Message, CallMessage, MessageRecord, Roles

\* The longer the history, the higher the estimate.
LEMMA EstimateIsEnough ==
  ASSUME NEW p \in Providers, NEW mode \in DOMAIN OutputTokens, NEW visible,
         IsFiniteSet(visible)
  PROVE  EstimateOf(p, mode, visible) \in Nat /\ LeastEstimate <= EstimateOf(p, mode, visible)
  <1> DEFINE sent == {m \in History(visible) : ~m.call}
             chars == Max({1, ContentChars(History(visible))})
             out == OutputTokens[mode]
  <1>1. sent \subseteq visible
    BY DEF History, messages_to_history, list_messages
  <1>2. IsFiniteSet(sent)
    BY <1>1, FS_Subset
  <1>3. ContentChars(History(visible)) \in Nat
    BY <1>2, FS_CardinalityType DEF ContentChars, Chars
  <1>4. chars \in Nat /\ chars >= 1
    <2>1. ASSUME NEW k \in Nat
          PROVE  Max({1, k}) \in Nat /\ Max({1, k}) >= 1
      BY MaxOfTwo
    <2>2. QED
      BY <1>3, <2>1
  <1>5. out \in Nat /\ ai_max_tool_rounds \in Nat
    BY ChatAssumption
  <1>6. EstimateOf(p, mode, visible) = ai_max_tool_rounds * estimate_cost_cents(p, chars + out)
    BY DEF EstimateOf
  <1>7. LeastEstimate <= ai_max_tool_rounds * estimate_cost_cents(p, out + 1)
    BY LeastEstimateIsLeast
  <1> HIDE DEF chars, out
  <1>8. out + 1 \in Nat /\ chars + out \in Nat /\ out + 1 <= chars + out
    BY <1>4, <1>5
  <1> DEFINE low == estimate_cost_cents(p, out + 1)
             high == estimate_cost_cents(p, chars + out)
  <1>9. low \in Nat /\ high \in Nat /\ low <= high
    BY <1>8, CostIsMonotone
  <1> HIDE DEF low, high
  <1>10. /\ ai_max_tool_rounds * low <= ai_max_tool_rounds * high
         /\ ai_max_tool_rounds * low \in Nat /\ ai_max_tool_rounds * high \in Nat
    BY <1>5, <1>9, Products
  <1>11. LeastEstimate <= ai_max_tool_rounds * low
    BY <1>7 DEF low
  <1>12. EstimateOf(p, mode, visible) = ai_max_tool_rounds * high
    BY <1>6 DEF high
  <1>13. QED
    BY <1>10, <1>11, <1>12, LeastEstimateIsLeast

-----------------------------------------------------------------------------
(* Steps that leave the ledger alone.                                      *)

LEMMA InvariantFacts ==
  ASSUME ChatInvariant
  PROVE  /\ BudgetTypeOK /\ LogOK /\ turn \in [Turns -> TurnRecord]
         /\ actions \in Nat /\ posts \in 0 .. MaxPosts /\ carried \in [Months -> Nat]
         /\ \A t \in Turns : Good(turn[t])
         /\ \A t \in Turns, m \in Months : Holds(t, m) <=> HasRow(turn[t], m)
         /\ \A t, u \in Turns, m \in Months : Holds(t, m) /\ Holds(u, m) => t = u
  <1>1. TypeOK /\ RowsAreHeldByOne /\ \A t \in Turns : SpendingOK(turn[t]) /\ VoiceOK(turn[t])
    BY DEF ChatInvariant
  <1>2. /\ BudgetTypeOK /\ LogOK /\ turn \in [Turns -> TurnRecord]
        /\ actions \in Nat /\ posts \in 0 .. MaxPosts /\ carried \in [Months -> Nat]
    BY <1>1 DEF TypeOK, LogOK
  <1>3. \A t \in Turns : Good(turn[t])
    BY <1>1, <1>2 DEF Good
  <1>4. \A t \in Turns, m \in Months : Holds(t, m) <=> HasRow(turn[t], m)
    BY DEF Holds, HasRow
  <1>5. QED
    BY <1>1, <1>2, <1>3, <1>4 DEF RowsAreHeldByOne

\* The turn's record changes to another good one, and every row it holds then
\* is no other turn's.
LEMMA OwnStep ==
  ASSUME ChatInvariant, NEW t \in Turns, NEW n,
         turn' = [turn EXCEPT ![t] = n],
         Good(n),
         \A m \in Months : HasRow(n, m) => \A u \in Turns \ {t} : ~Holds(u, m),
         LogOK', UNCHANGED <<budgetVars, carried>>, actions' \in Nat, posts' \in 0 .. MaxPosts
  PROVE  ChatInvariant'
  <1>1. /\ BudgetTypeOK /\ turn \in [Turns -> TurnRecord] /\ carried \in [Months -> Nat]
        /\ \A u \in Turns : Good(turn[u])
        /\ \A u \in Turns, m \in Months : Holds(u, m) <=> HasRow(turn[u], m)
        /\ \A u, v \in Turns, m \in Months : Holds(u, m) /\ Holds(v, m) => u = v
    BY InvariantFacts
  <1>2. month' = month /\ ledger' = ledger /\ usage' = usage /\ carried' = carried
    BY DEF budgetVars
  <1>3. turn'[t] = n /\ \A u \in Turns \ {t} : turn'[u] = turn[u]
    BY <1>1
  <1>4. turn' \in [Turns -> TurnRecord]
    BY <1>1 DEF Good
  <1>5. TypeOK'
    BY <1>1, <1>2, <1>4 DEF TypeOK, BudgetTypeOK, LogOK
  <1>6. \A u \in Turns : Good(turn'[u])
    BY <1>1, <1>3
  <1>7. \A u \in Turns : (SpendingOK(turn[u]) /\ VoiceOK(turn[u]))'
    BY <1>2, <1>6 DEF Good, SpendingOK, VoiceOK, MayReserve
  <1>8. RowsAreHeldByOne'
    <2>1. \A u \in Turns, m \in Months : Holds(u, m)' <=> HasRow(turn'[u], m)
      BY DEF Holds, HasRow
    <2>2. \A u \in Turns \ {t}, m \in Months : Holds(u, m)' <=> Holds(u, m)
      BY <1>1, <1>3, <2>1
    <2>3. \A m \in Months : Holds(t, m)' => \A u \in Turns \ {t} : ~Holds(u, m)
      BY <1>3, <2>1
    <2>4. QED
      BY <1>1, <2>2, <2>3 DEF RowsAreHeldByOne
  <1>9. HardCapHolds'
    BY <1>2 DEF ChatInvariant, HardCapHolds, SpentCents
  <1>10. ReservationsComeBack'
    BY <1>2 DEF ChatInvariant, ReservationsComeBack
  <1>11. LedgerMatchesEvents'
    BY <1>2 DEF ChatInvariant, LedgerMatchesEvents
  <1>12. QED
    BY <1>5, <1>7, <1>8, <1>9, <1>10, <1>11 DEF ChatInvariant

\* The same, where the turn takes no row it did not have.
LEMMA QuietStep ==
  ASSUME ChatInvariant, NEW t \in Turns, NEW n,
         turn' = [turn EXCEPT ![t] = n],
         Good(n), \A m \in Months : HasRow(n, m) => HasRow(turn[t], m),
         LogOK', UNCHANGED <<budgetVars, carried>>, actions' \in Nat, posts' \in 0 .. MaxPosts
  PROVE  ChatInvariant'
  <1>1. \A m \in Months : HasRow(n, m) => \A u \in Turns \ {t} : ~Holds(u, m)
    BY InvariantFacts
  <1>2. QED
    BY <1>1, OwnStep

LEMMA LogStays ==
  ASSUME LogOK, UNCHANGED log
  PROVE  LogOK'
  BY DEF LogOK

LEMMA RollbackKeepsInvariant ==
  ASSUME ChatInvariant, NEW t \in Turns, Rollback(t), UNCHANGED posts
  PROVE  ChatInvariant'
  <1>1. LogOK'
    BY InvariantFacts, RollbackKeepsTheLog
  <1>2. Good(IdleTurn) /\ \A m \in Months : ~HasRow(IdleTurn, m)
    BY InvariantFacts, IdleIsGood
  <1>3. /\ turn' = [turn EXCEPT ![t] = IdleTurn]
        /\ UNCHANGED <<budgetVars, carried>> /\ actions' \in Nat /\ posts' \in 0 .. MaxPosts
    BY InvariantFacts DEF Rollback
  <1>4. QED
    BY <1>1, <1>2, <1>3, QuietStep

LEMMA PostKeepsInvariant ==
  ASSUME ChatInvariant, NEW t \in Turns, NEW p \in Providers,
         NEW mode \in DOMAIN OutputTokens, NEW disabled, Post(t, p, mode, disabled)
  PROVE  ChatInvariant'
  <1>1. Message("user") \in MessageRecord
    BY MessagesAreRecords DEF Roles
  <1>2. LogOK'
    <2> DEFINE ms == <<Message("user")>>
    <2>1. DOMAIN ms = 1 .. 1 /\ \A i \in 1 .. 1 : ms[i] \in MessageRecord
      BY <1>1
    <2>2. Flush(t, ms)
      BY DEF Post
    <2> HIDE DEF ms
    <2>3. QED
      BY <2>1, <2>2, InvariantFacts, FlushKeepsTheLog
  <1>3. IsFiniteSet(Visible(t)')
    <2>1. ConversationOf[t] \in Conversations
      BY DEF Conversations
    <2>2. IsFiniteSet(log'[ConversationOf[t]])
      BY <1>2, <2>1 DEF LogOK
    <2>3. Visible(t)' \subseteq log'[ConversationOf[t]]
      BY DEF Visible
    <2>4. QED
      BY <2>2, <2>3, FS_Subset
  <1> DEFINE e == EstimateOf(p, mode, Visible(t)')
             n == [IdleTurn EXCEPT !.pc = "reserve", !.provider = p, !.estimate = e,
                                   !.reservedIn = month]
  <1>4. e \in Nat /\ LeastEstimate <= e
    BY <1>3, EstimateIsEnough
  <1>5. /\ turn' = [turn EXCEPT ![t] = n]
        /\ UNCHANGED <<budgetVars, carried>> /\ actions' = actions
        /\ posts < MaxPosts /\ posts' = posts + 1
    BY DEF Post
  <1>6. actions' \in Nat /\ posts' \in 0 .. MaxPosts
    BY <1>5, InvariantFacts, ChatAssumption
  <1> HIDE DEF e
  <1>7. Good(n) /\ \A m \in Months : ~HasRow(n, m)
    BY <1>4, InvariantFacts, PostedIsGood
  <1> HIDE DEF n
  <1>8. QED
    BY <1>2, <1>5, <1>6, <1>7, QuietStep

\* A step that writes no message: the record it makes is named n.
LEMMA SilentStep ==
  ASSUME ChatInvariant, NEW t \in Turns, NEW n,
         turn' = [turn EXCEPT ![t] = n],
         Good(n), \A m \in Months : HasRow(n, m) => HasRow(turn[t], m),
         UNCHANGED <<budgetVars, log, actions, carried, posts>>
  PROVE  ChatInvariant'
  <1>1. LogOK' /\ actions' \in Nat /\ posts' \in 0 .. MaxPosts
    BY InvariantFacts, LogStays
  <1>2. QED
    BY <1>1, QuietStep

LEMMA ReserveKeepsInvariant ==
  ASSUME ChatInvariant, NEW t \in Turns, Reserve(t)
  PROVE  ChatInvariant'
  <1> DEFINE r == turn[t]
             n == [r EXCEPT !.pc = "stream"]
  <1>1. /\ r.pc = "reserve" /\ Free(t) /\ MayReserve(ledger[r.reservedIn], r.estimate)
        /\ UNCHANGED <<budgetVars, log, actions, carried, posts>>
    BY DEF Reserve
  <1>2. turn' = [turn EXCEPT ![t] = n]
    BY InvariantFacts DEF Reserve
  <1>3. Good(r) /\ BudgetTypeOK
    BY InvariantFacts
  <1>4. Good(n) /\ \A m \in Months : HasRow(n, m) => m = r.reservedIn
    <2> HIDE DEF r
    <2> QED
      BY <1>1, <1>3, ReservedIsGood
  <1>5. \A u \in Turns \ {t} : ~Holds(u, r.reservedIn)
    BY <1>1 DEF Free, Blockers
  <1>6. LogOK' /\ actions' \in Nat /\ posts' \in 0 .. MaxPosts
    BY <1>1, InvariantFacts, LogStays
  <1> HIDE DEF n, r
  <1>7. QED
    BY <1>1, <1>2, <1>4, <1>5, <1>6, OwnStep

LEMMA StreamTextKeepsInvariant ==
  ASSUME ChatInvariant, NEW t \in Turns, StreamText(t)
  PROVE  ChatInvariant'
  <1> DEFINE n == [turn[t] EXCEPT !.pc = "text", !.text = TRUE, !.primed = TRUE,
                                  !.authors = @ \cup {turn[t].provider}]
  <1>1. turn[t].pc = "stream" /\ UNCHANGED <<budgetVars, log, actions, carried, posts>>
    BY DEF StreamText
  <1>2. turn' = [turn EXCEPT ![t] = n]
    BY InvariantFacts DEF StreamText
  <1>3. Good(n) /\ \A m \in Months : HasRow(n, m) => HasRow(turn[t], m)
    BY <1>1, InvariantFacts, SpokenIsGood
  <1> HIDE DEF n
  <1>4. QED
    BY <1>1, <1>2, <1>3, SilentStep

LEMMA StreamToolCallKeepsInvariant ==
  ASSUME ChatInvariant, NEW t \in Turns, NEW kind \in ToolKinds, StreamToolCall(t, kind)
  PROVE  ChatInvariant'
  <1> DEFINE n == [turn[t] EXCEPT !.calls = @ \cup {kind}]
  <1>1. turn[t].pc = "stream" /\ UNCHANGED <<budgetVars, log, actions, carried, posts>>
    BY DEF StreamToolCall
  <1>2. turn' = [turn EXCEPT ![t] = n]
    BY InvariantFacts DEF StreamToolCall
  <1>3. Good(n) /\ \A m \in Months : HasRow(n, m) => HasRow(turn[t], m)
    BY <1>1, InvariantFacts, CalledIsGood
  <1> HIDE DEF n
  <1>4. QED
    BY <1>1, <1>2, <1>3, SilentStep

LEMMA FailsKeepsInvariant ==
  ASSUME ChatInvariant, NEW t \in Turns, Fails(t) \/ Disconnect(t)
  PROVE  ChatInvariant'
  <1>1. /\ turn[t].pc \in {"stream", "text", "propose", "status"}
        /\ UNCHANGED <<budgetVars, log, actions, carried, posts>>
    BY DEF Fails, Disconnect
  <1>2. turn' = [turn EXCEPT ![t] = GoSettle(turn[t], "REFUNDED")]
    BY InvariantFacts DEF Fails, Disconnect
  <1>3. /\ Good(GoSettle(turn[t], "REFUNDED"))
        /\ \A m \in Months : HasRow(GoSettle(turn[t], "REFUNDED"), m) => HasRow(turn[t], m)
    BY <1>1, InvariantFacts, GoodIsSettleable, SettlingIsGood DEF UsageEventStatus
  <1>4. QED
    BY <1>1, <1>2, <1>3, SilentStep

LEMMA FallBackKeepsInvariant ==
  ASSUME ChatInvariant, NEW t \in Turns, NEW disabled, FallBack(t, disabled)
  PROVE  ChatInvariant'
  <1> DEFINE p == pick_fallback_provider(turn[t].provider, disabled)
             n == [turn[t] EXCEPT !.provider = p, !.fellBack = TRUE]
  <1>1. /\ turn[t].pc = "stream" /\ turn[t].round = 0 /\ ~turn[t].text /\ p # None
        /\ UNCHANGED <<budgetVars, log, actions, carried, posts>>
    BY DEF FallBack
  <1>2. p \in Providers
    BY <1>1, FallbackIsAProvider
  <1>3. turn' = [turn EXCEPT ![t] = n]
    BY InvariantFacts DEF FallBack
  <1> HIDE DEF p
  <1>4. Good(n) /\ \A m \in Months : HasRow(n, m) => HasRow(turn[t], m)
    <2>1. Good(turn[t]) /\ BudgetTypeOK
      BY InvariantFacts
    <2>2. QED
      BY <1>1, <1>2, <2>1, SubstitutedIsGood
  <1> HIDE DEF n
  <1>5. QED
    BY <1>1, <1>3, <1>4, SilentStep

LEMMA ResumeKeepsInvariant ==
  ASSUME ChatInvariant, NEW t \in Turns, Resume(t)
  PROVE  ChatInvariant'
  <1>1. UNCHANGED <<budgetVars, log, actions, carried, posts>>
    BY DEF Resume
  <1>2. CASE turn[t].pc = "text"
    <2> DEFINE n == [turn[t] EXCEPT !.pc = "stream"]
    <2>1. turn' = [turn EXCEPT ![t] = n]
      BY <1>2, InvariantFacts DEF Resume
    <2>2. Good(n) /\ \A m \in Months : HasRow(n, m) => HasRow(turn[t], m)
      BY <1>2, InvariantFacts, ResumedIsGood
    <2> HIDE DEF n
    <2>3. QED
      BY <1>1, <2>1, <2>2, SilentStep
  <1>3. CASE turn[t].pc = "status"
    <2>1. turn' = [turn EXCEPT ![t] = GoSettle(turn[t], "RECONCILED")]
      BY <1>3, InvariantFacts DEF Resume
    <2>2. /\ Good(GoSettle(turn[t], "RECONCILED"))
          /\ \A m \in Months : HasRow(GoSettle(turn[t], "RECONCILED"), m) => HasRow(turn[t], m)
      BY <1>3, InvariantFacts, GoodIsSettleable, SettlingIsGood DEF UsageEventStatus
    <2>3. QED
      BY <1>1, <2>1, <2>2, SilentStep
  <1>4. QED
    BY <1>2, <1>3 DEF Resume

LEMMA SettleKeepsInvariant ==
  ASSUME ChatInvariant, NEW t \in Turns, Settle(t)
  PROVE  ChatInvariant'
  <1> DEFINE r == turn[t]
             pc == IF r.outcome = "RECONCILED" THEN "done" ELSE "end"
             n == [r EXCEPT !.recordedIn = month, !.pc = pc]
  <1>1. /\ r.pc = "settle" /\ Free(t) /\ pc \in {"done", "end"}
        /\ UNCHANGED <<budgetVars, log, actions, carried, posts>>
    BY DEF Settle
  <1>2. turn' = [turn EXCEPT ![t] = n]
    BY InvariantFacts DEF Settle
  <1>3. Good(r) /\ BudgetTypeOK
    BY InvariantFacts
  <1>4. Good(n) /\ \A m \in Months : HasRow(n, m) => HasRow(r, m) \/ m = r.settledIn
    <2> HIDE DEF r, pc
    <2> QED
      BY <1>1, <1>3, SettledIsGood
  <1>5. \A u \in Turns \ {t} : ~Holds(u, r.settledIn)
    BY <1>1 DEF Free, Blockers
  <1>6. \A m \in Months : HasRow(r, m) => \A u \in Turns \ {t} : ~Holds(u, m)
    BY InvariantFacts
  <1>7. LogOK' /\ actions' \in Nat /\ posts' \in 0 .. MaxPosts
    BY <1>1, InvariantFacts, LogStays
  <1> HIDE DEF n, r
  <1>8. QED
    BY <1>1, <1>2, <1>4, <1>5, <1>6, <1>7, OwnStep

LEMMA ProposeKeepsInvariant ==
  ASSUME ChatInvariant, NEW t \in Turns, Propose(t)
  PROVE  ChatInvariant'
  <1> DEFINE n == [turn[t] EXCEPT !.pc = "record"]
  <1>1. /\ turn[t].pc = "propose" /\ turn' = [turn EXCEPT ![t] = n]
        /\ UNCHANGED <<budgetVars, log, actions, carried, posts>>
    BY InvariantFacts DEF Propose
  <1>2. Good(n) /\ \A m \in Months : HasRow(n, m) => HasRow(turn[t], m)
    BY <1>1, InvariantFacts, InsertedIsGood
  <1> HIDE DEF n
  <1>3. QED
    BY <1>1, <1>2, SilentStep

LEMMA StatusKeepsInvariant ==
  ASSUME ChatInvariant, NEW t \in Turns, Replay(t) \/ Record(t)
  PROVE  ChatInvariant'
  <1>1. PICK created \in BOOLEAN :
          turn' = [turn EXCEPT ![t].pc = "status", ![t].primed = TRUE, ![t].calls = {},
                               ![t].text = FALSE, ![t].proposed = created]
    BY DEF Replay, Record, ShowStatus
  <1> DEFINE n == [turn[t] EXCEPT !.pc = "status", !.primed = TRUE, !.calls = {},
                                  !.text = FALSE, !.proposed = created]
             ms == <<Message("assistant")>>
  <1>2. /\ turn[t].pc \in {"propose", "record"} /\ Flush(t, ms)
        /\ UNCHANGED <<budgetVars, actions, carried, posts>>
    BY DEF Replay, Record, ShowStatus
  <1>3. LogOK'
    <2>1. DOMAIN ms = 1 .. 1 /\ \A i \in 1 .. 1 : ms[i] \in MessageRecord
      BY MessagesAreRecords DEF Roles
    <2> HIDE DEF ms
    <2>2. QED
      BY <1>2, <2>1, InvariantFacts, FlushKeepsTheLog
  <1>4. turn' = [turn EXCEPT ![t] = n]
    BY <1>1, InvariantFacts
  <1>5. Good(n) /\ \A m \in Months : HasRow(n, m) => HasRow(turn[t], m)
    BY <1>2, InvariantFacts, ProposedIsGood
  <1>6. actions' \in Nat /\ posts' \in 0 .. MaxPosts /\ UNCHANGED <<budgetVars, carried>>
    BY <1>2, InvariantFacts
  <1> HIDE DEF n
  <1>7. QED
    BY <1>3, <1>4, <1>5, <1>6, QuietStep

LEMMA StreamEndsKeepsInvariant ==
  ASSUME ChatInvariant, NEW t \in Turns, NEW tokens \in RoundTokens, StreamEnds(t, tokens)
  PROVE  ChatInvariant'
  <1> DEFINE r == [turn[t] EXCEPT !.tokens = @ + tokens, !.authors = @ \cup {turn[t].provider}]
             k == Cardinality(r.calls)
             asked == [i \in 1 .. k |-> CallMessage]
             last == r.round + 1 = ai_max_tool_rounds
             more == IF last THEN <<Message("assistant")>> ELSE <<>>
             n == [r EXCEPT !.round = @ + 1, !.text = FALSE, !.calls = {}]
             q == [r EXCEPT !.pc = "propose"]
  <1>1. /\ turn[t].pc = "stream"
        /\ UNCHANGED <<budgetVars, actions, carried, posts>>
    BY DEF StreamEnds
  <1>2. /\ Settleable(r) /\ r.pc = "stream" /\ r.round = turn[t].round
        /\ r.calls = turn[t].calls /\ r.reservedIn = turn[t].reservedIn
        /\ r.tokens = turn[t].tokens + tokens
    <2>1. Good(turn[t]) /\ BudgetTypeOK
      BY InvariantFacts
    <2> DEFINE x == turn[t]
    <2>2. /\ r = [x EXCEPT !.tokens = @ + tokens, !.authors = @ \cup {x.provider}]
          /\ Good(x) /\ x.pc = "stream"
      BY <1>1, <2>1
    <2> HIDE DEF r, x
    <2>3. /\ Settleable(r) /\ r.pc = "stream" /\ r.round = x.round
          /\ r.calls = x.calls /\ r.reservedIn = x.reservedIn
          /\ r.tokens = x.tokens + tokens
      BY <2>1, <2>2, RoundIsSettleable, Zenon
    <2>4. QED
      BY <2>3 DEF x
  <1>3. /\ turn[t] \in TurnRecord /\ r \in TurnRecord /\ turn[t].round < ai_max_tool_rounds
        /\ r.settledIn <= month
    <2>1. Good(turn[t])
      BY InvariantFacts
    <2>2. turn[t] \in TurnRecord /\ turn[t].round < ai_max_tool_rounds /\ turn[t].settledIn <= month
      BY <2>1 DEF Good, SpendingOK
    <2>3. r.settledIn = turn[t].settledIn
      BY <2>2 DEF TurnRecord
    <2>4. QED
      BY <1>2, <2>2, <2>3 DEF Settleable
  <1>4. k \in Nat
    <2>1. r.calls \subseteq ToolKinds
      BY <1>3 DEF TurnRecord
    <2>2. IsFiniteSet(ToolKinds)
      <3>1. ToolKinds = {"read"} \cup {"write"}
        BY DEF ToolKinds
      <3>2. QED
        BY <3>1, FS_Singleton, FS_AddElement
    <2>3. IsFiniteSet(r.calls)
      BY <2>1, <2>2, FS_Subset
    <2>4. QED
      BY <2>3, FS_CardinalityType
  <1>5. \A m \in Months : HasRow(r, m) => HasRow(turn[t], m)
    BY <1>1, <1>2 DEF HasRow, Places
  <1>6. \/ r.calls = {} /\ Flush(t, <<Message("assistant")>>)
           /\ turn' = [turn EXCEPT ![t] = GoSettle(r, "RECONCILED")]
        \/ Flush(t, asked) /\ turn' = [turn EXCEPT ![t] = q]
        \/ Flush(t, asked \o <<Message("tool")>> \o more)
           /\ turn' = [turn EXCEPT ![t] = IF last THEN GoSettle(r, "RECONCILED") ELSE n]
    BY DEF StreamEnds
  <1>7. LogOK'
    <2>1. /\ Message("assistant") \in MessageRecord /\ Message("tool") \in MessageRecord
          /\ CallMessage \in MessageRecord
      BY MessagesAreRecords DEF Roles
    <2>2. CASE Flush(t, <<Message("assistant")>>)
      <3> DEFINE ms == <<Message("assistant")>>
      <3>1. DOMAIN ms = 1 .. 1 /\ \A i \in 1 .. 1 : ms[i] \in MessageRecord
        BY <2>1
      <3>2. Flush(t, ms)
        BY <2>2
      <3> HIDE DEF ms
      <3>3. QED
        BY <3>1, <3>2, InvariantFacts, FlushKeepsTheLog
    <2>3. asked \in Seq(MessageRecord)
      <3> HIDE DEF k
      <3> QED
        BY <1>4, <2>1
    <2>4. CASE Flush(t, asked)
      <3>1. Len(asked) \in Nat /\ DOMAIN asked = 1 .. Len(asked)
            /\ \A i \in 1 .. Len(asked) : asked[i] \in MessageRecord
        <4> HIDE DEF asked
        <4> QED
          BY <2>3
      <3> HIDE DEF asked
      <3>2. QED
        BY <2>4, <3>1, InvariantFacts, FlushKeepsTheLog
    <2>5. CASE Flush(t, asked \o <<Message("tool")>> \o more)
      <3> DEFINE ms == asked \o <<Message("tool")>> \o more
      <3>1. more \in Seq(MessageRecord) /\ <<Message("tool")>> \in Seq(MessageRecord)
        <4> HIDE DEF last
        <4> QED
          BY <2>1
      <3>2. ms \in Seq(MessageRecord)
        <4> HIDE DEF asked, more
        <4> QED
          BY <2>3, <3>1
      <3>3. Flush(t, ms)
        BY <2>5
      <3> HIDE DEF ms
      <3>4. Len(ms) \in Nat /\ DOMAIN ms = 1 .. Len(ms)
            /\ \A i \in 1 .. Len(ms) : ms[i] \in MessageRecord
        BY <3>2
      <3>5. QED
        BY <3>3, <3>4, InvariantFacts, FlushKeepsTheLog
    <2>6. QED
      BY <1>6, <2>2, <2>4, <2>5
  <1>8. actions' \in Nat /\ posts' \in 0 .. MaxPosts /\ UNCHANGED <<budgetVars, carried>>
    BY <1>1, InvariantFacts
  <1> HIDE DEF r
  <1>9. CASE turn' = [turn EXCEPT ![t] = GoSettle(r, "RECONCILED")]
    <2>1. /\ Good(GoSettle(r, "RECONCILED"))
          /\ \A m \in Months : HasRow(GoSettle(r, "RECONCILED"), m) => HasRow(r, m)
      BY <1>2, InvariantFacts, SettlingIsGood DEF UsageEventStatus
    <2>2. QED
      BY <1>5, <1>7, <1>8, <1>9, <2>1, QuietStep
  <1>10. CASE turn' = [turn EXCEPT ![t] = q]
    <2>1. Good(q) /\ \A m \in Months : HasRow(q, m) => HasRow(r, m)
      BY <1>2, <1>3, InvariantFacts, AskedIsGood
    <2> HIDE DEF q
    <2>2. QED
      BY <1>5, <1>7, <1>8, <1>10, <2>1, QuietStep
  <1>11. CASE ~last /\ turn' = [turn EXCEPT ![t] = n]
    <2>1. r.round + 1 < ai_max_tool_rounds
      BY <1>2, <1>3, <1>11, Constants DEF TurnRecord
    <2>2. \E c \in RoundTokens : r.tokens <= c * (r.round + 1)
      BY <1>1, <1>2, InvariantFacts, TokensAddUp
    <2>3. Good(n) /\ \A m \in Months : HasRow(n, m) => HasRow(r, m)
      BY <1>2, <1>3, <2>1, <2>2, InvariantFacts, NextRoundIsGood
    <2> HIDE DEF n
    <2>4. QED
      BY <1>5, <1>7, <1>8, <1>11, <2>3, QuietStep
  <1>12. QED
    BY <1>6, <1>9, <1>10, <1>11

-----------------------------------------------------------------------------
(* The commit of a settled turn.                                           *)

Rows == [reserved : Nat, actual : Nat]

\* The ledger after a turn reserved e in month a and settled c in month b.
LEMMA SettledRows ==
  ASSUME BudgetTypeOK, NEW a \in Months, NEW b \in Months, NEW e \in Nat, NEW c \in Nat,
         ledger' = Settled(a, b, e, c)
  PROVE  /\ ledger' \in [Months -> Rows]
         /\ \A m \in Months \ {a, b} : ledger'[m] = ledger[m]
         /\ ledger'[b].actual = ledger[b].actual + c
         /\ a = b => ledger'[a].reserved = ledger[a].reserved
         /\ a # b => /\ ledger'[a].reserved = ledger[a].reserved + e
                     /\ ledger'[a].actual = ledger[a].actual
                     /\ ledger'[b].reserved <= ledger[b].reserved
  <1> DEFINE held == [ledger EXCEPT ![a].reserved = @ + e]
  <1>1. ledger \in [Months -> Rows]
    BY DEF BudgetTypeOK, Rows
  <1>2. /\ held \in [Months -> Rows]
        /\ held[a].reserved = ledger[a].reserved + e /\ held[a].actual = ledger[a].actual
        /\ \A m \in Months \ {a} : held[m] = ledger[m]
    BY <1>1 DEF Rows
  <1>3. ledger' = [held EXCEPT ![b] = Reconciled(held[b], e, c)]
    BY <1>2 DEF Settled
  <1> HIDE DEF held
  <1>4. held[b].reserved \in Nat /\ held[b].actual \in Nat
    BY <1>2 DEF Rows
  <1> DEFINE left == Max({0, held[b].reserved - e})
  <1>5. /\ left \in {0, held[b].reserved - e} /\ left >= held[b].reserved - e
        /\ left \in Nat
    <2>1. held[b].reserved - e \in Int
      BY <1>4
    <2>2. QED
      BY <2>1, NotBelowZero
  <1>6. Reconciled(held[b], e, c) = [reserved |-> left, actual |-> held[b].actual + c]
    BY DEF Reconciled
  <1> HIDE DEF left
  <1>7. Reconciled(held[b], e, c) \in Rows
    BY <1>4, <1>5, <1>6 DEF Rows
  <1>8. ledger' \in [Months -> Rows] /\ \A m \in Months \ {b} : ledger'[m] = held[m]
    BY <1>2, <1>3, <1>7
  <1>9. ledger'[b].reserved = left /\ ledger'[b].actual = held[b].actual + c
    BY <1>2, <1>3, <1>6
  <1>10. ledger[a].reserved \in Nat /\ ledger[b].reserved \in Nat /\ held[b].actual = ledger[b].actual
    BY <1>1, <1>2 DEF Rows
  <1>11. ASSUME a = b
         PROVE  ledger'[a].reserved = ledger[a].reserved
    <2>1. held[b].reserved = ledger[a].reserved + e
      BY <1>2, <1>11
    <2>2. left = ledger[a].reserved
      BY <1>5, <1>10, <2>1
    <2>3. QED
      BY <1>9, <1>11, <2>2
  <1>12. ASSUME a # b
         PROVE  /\ ledger'[a].reserved = ledger[a].reserved + e
                /\ ledger'[a].actual = ledger[a].actual
                /\ ledger'[b].reserved <= ledger[b].reserved
    <2>1. held[b] = ledger[b] /\ ledger'[a] = held[a]
      BY <1>2, <1>8, <1>12
    <2>2. left <= ledger[b].reserved
      BY <1>5, <1>10, <2>1
    <2>3. QED
      BY <1>2, <1>9, <2>1, <2>2
  <1>13. QED
    BY <1>2, <1>8, <1>9, <1>10, <1>11, <1>12

\* A turn's cost is at most that of the dearest turn.
LEMMA CostIsBounded ==
  ASSUME ChatInvariant, NEW t \in Turns, turn[t].pc \in {"done", "end"}
  PROVE  /\ estimate_cost_cents(turn[t].provider, turn[t].tokens) \in Nat
         /\ estimate_cost_cents(turn[t].provider, turn[t].tokens) <= DearestTurn
  <1> DEFINE p == turn[t].provider
             n == turn[t].tokens
  <1>1. Good(turn[t])
    BY InvariantFacts
  <1>2. p \in Providers /\ n \in Nat
    BY <1>1 DEF Good, SpendingOK, TurnRecord
  <1>3. PICK k \in RoundTokens : n <= k * ai_max_tool_rounds
    BY <1>1 DEF Good, SpendingOK
  <1>4. /\ k \in Nat /\ ai_max_tool_rounds * k \in Nat
        /\ k * ai_max_tool_rounds = ai_max_tool_rounds * k
    BY <1>3, Constants
  <1> HIDE DEF p, n
  <1>5. /\ estimate_cost_cents(p, n) \in Nat
        /\ estimate_cost_cents(p, ai_max_tool_rounds * k) \in Nat
        /\ estimate_cost_cents(p, n) <= estimate_cost_cents(p, ai_max_tool_rounds * k)
    BY <1>2, <1>3, <1>4, CostIsMonotone
  <1>6. /\ estimate_cost_cents(p, ai_max_tool_rounds * k) <= DearestTurn
        /\ DearestTurn \in Nat
    BY <1>2, <1>3, DearestTurnIsDearest
  <1>7. estimate_cost_cents(p, n) <= DearestTurn
    BY <1>5, <1>6
  <1>8. QED
    BY <1>5, <1>7 DEF p, n

LEMMA CommitKeepsInvariant ==
  ASSUME ChatInvariant, NEW t \in Turns, turn[t].pc \in {"done", "end"},
         Commit(t), UNCHANGED posts
  PROVE  ChatInvariant'
  <1> DEFINE r == turn[t]
             a == r.reservedIn
             b == r.settledIn
             e == r.estimate
             c == estimate_cost_cents(r.provider, r.tokens)
             over == Max({0, DearestTurn - LeastEstimate})
  <1>1. /\ BudgetTypeOK /\ LogOK /\ turn \in [Turns -> TurnRecord] /\ actions \in Nat
        /\ posts \in 0 .. MaxPosts /\ carried \in [Months -> Nat]
        /\ \A u \in Turns : Good(turn[u])
        /\ \A u \in Turns, m \in Months : Holds(u, m) <=> HasRow(turn[u], m)
        /\ \A u, v \in Turns, m \in Months : Holds(u, m) /\ Holds(v, m) => u = v
    BY InvariantFacts
  <1>2. /\ a \in Months /\ b \in Months /\ e \in Nat /\ r.recordedIn \in Months
        /\ r.outcome \in UsageEventStatus /\ r.proposed \in BOOLEAN
        /\ a \in Nat /\ b \in Nat /\ month \in Months /\ month \in Nat
    BY <1>1, Constants DEF Good, TurnRecord, BudgetTypeOK
  <1>3. /\ a <= b /\ b <= month /\ LeastEstimate <= e
        /\ MayReserve(ledger[a], e)
    BY <1>1 DEF Good, SpendingOK
  <1>4. c \in Nat /\ c <= DearestTurn
    BY CostIsBounded
  <1>5. /\ ledger' = Settled(a, b, e, c)
        /\ usage' = [usage EXCEPT ![r.recordedIn][r.outcome] = @ + c]
        /\ carried' = [carried EXCEPT ![b] = @ + IF a # b THEN c ELSE 0]
        /\ actions' = actions + IF r.proposed THEN 1 ELSE 0
        /\ turn' = [turn EXCEPT ![t] = IdleTurn]
        /\ month' = month
    BY DEF Commit, record_usage_event
  <1>6. LogOK'
    BY <1>1, CommitKeepsTheLog
  <1>7. HasRow(r, a) /\ HasRow(r, b)
    BY DEF HasRow, Places
  <1>8. /\ turn' \in [Turns -> TurnRecord] /\ turn'[t] = IdleTurn
        /\ \A u \in Turns \ {t} : turn'[u] = turn[u]
    BY <1>1, <1>5, IdleIsGood DEF Good
  <1>9. \A u \in Turns \ {t}, m \in Months : HasRow(turn[u], m) => m # a /\ m # b
    BY <1>1, <1>2, <1>7
  <1>10. r.pc \notin {"idle", "reserve"}
    OBVIOUS
  <1> HIDE DEF r, a, b, e, c
  <1>11. /\ ledger' \in [Months -> Rows]
         /\ \A m \in Months \ {a, b} : ledger'[m] = ledger[m]
         /\ ledger'[b].actual = ledger[b].actual + c
         /\ a = b => ledger'[a].reserved = ledger[a].reserved
         /\ a # b => /\ ledger'[a].reserved = ledger[a].reserved + e
                     /\ ledger'[a].actual = ledger[a].actual
                     /\ ledger'[b].reserved <= ledger[b].reserved
    BY <1>1, <1>2, <1>4, <1>5, SettledRows
  <1>12. /\ \A m \in Months : ledger[m].reserved \in Nat /\ ledger[m].actual \in Nat
         /\ \A m \in Months : ledger'[m].reserved \in Nat /\ ledger'[m].actual \in Nat
    BY <1>1, <1>11 DEF BudgetTypeOK, Rows
  <1>13. /\ usage' \in [Months -> [UsageEventStatus -> Nat]]
         /\ carried' \in [Months -> Nat]
         /\ carried'[b] = carried[b] + IF a # b THEN c ELSE 0
         /\ \A m \in Months \ {b} : carried'[m] = carried[m]
         /\ actions' \in Nat
    <2>1. usage' \in [Months -> [UsageEventStatus -> Nat]]
      <3> DEFINE row == [usage[r.recordedIn] EXCEPT ![r.outcome] = @ + c]
      <3>1. usage \in [Months -> [UsageEventStatus -> Nat]]
        BY <1>1 DEF BudgetTypeOK
      <3>2. row \in [UsageEventStatus -> Nat]
        BY <1>2, <1>4, <3>1
      <3>3. usage' = [usage EXCEPT ![r.recordedIn] = row]
        BY <1>5
      <3> HIDE DEF row
      <3>4. QED
        BY <3>1, <3>2, <3>3
    <2>2. (IF a # b THEN c ELSE 0) \in Nat /\ (IF r.proposed THEN 1 ELSE 0) \in Nat
      BY <1>4
    <2>3. /\ carried' \in [Months -> Nat]
          /\ carried'[b] = carried[b] + IF a # b THEN c ELSE 0
          /\ \A m \in Months \ {b} : carried'[m] = carried[m]
      BY <1>1, <1>2, <1>5, <2>2
    <2>4. actions' \in Nat
      BY <1>1, <1>5, <2>2
    <2>5. QED
      BY <2>1, <2>3, <2>4
  <1>14. TypeOK'
    BY <1>1, <1>2, <1>5, <1>6, <1>8, <1>11, <1>13 DEF TypeOK, BudgetTypeOK, LogOK, Rows
  <1>15. RowsAreHeldByOne'
    <2>1. \A u \in Turns, m \in Months : Holds(u, m)' <=> HasRow(turn'[u], m)
      BY DEF Holds, HasRow
    <2>2. \A m \in Months : ~Holds(t, m)'
      BY <1>1, <1>8, <2>1, IdleIsGood
    <2>3. \A u \in Turns \ {t}, m \in Months : Holds(u, m)' <=> Holds(u, m)
      BY <1>1, <1>8, <2>1
    <2>4. QED
      BY <1>1, <2>2, <2>3 DEF RowsAreHeldByOne
  <1>16. ASSUME NEW u \in Turns
         PROVE  (SpendingOK(turn[u]) /\ VoiceOK(turn[u]))'
    <2>1. CASE u = t
      <3>1. IdleTurn.pc = "idle"
        BY DEF IdleTurn
      <3>2. SpendingOK(IdleTurn) /\ VoiceOK(IdleTurn)
        BY <1>1, IdleIsGood DEF Good
      <3>3. QED
        BY <1>5, <1>8, <2>1, <3>1, <3>2 DEF SpendingOK, VoiceOK
    <2>2. CASE u # t
      <3>1. turn'[u] = turn[u] /\ Good(turn[u])
        BY <1>1, <1>8, <2>2
      <3>2. ASSUME turn[u].pc \notin {"idle", "reserve"}
            PROVE  ledger'[turn[u].reservedIn] = ledger[turn[u].reservedIn]
        <4>1. turn[u].reservedIn \in Months /\ turn[u].pc \in Places
          BY <3>1 DEF Good, TurnRecord
        <4>2. HasRow(turn[u], turn[u].reservedIn)
          BY <3>2, <4>1 DEF HasRow
        <4>3. turn[u].reservedIn # a /\ turn[u].reservedIn # b
          BY <1>9, <2>2, <4>1, <4>2
        <4>4. QED
          BY <1>11, <4>1, <4>3
      <3>3. QED
        BY <1>5, <3>1, <3>2 DEF Good, SpendingOK, VoiceOK
    <2>3. QED
      BY <2>1, <2>2
  <1>17. HardCapHolds'
    <2>1. /\ over \in Nat /\ over >= DearestTurn - LeastEstimate
          /\ LeastEstimate \in Nat /\ DearestTurn \in Nat /\ HardCap \in Nat
      <3>1. LeastEstimate \in Nat /\ DearestTurn \in Nat
        BY LeastEstimateIsLeast, DearestTurnIsDearest
      <3>2. DearestTurn - LeastEstimate \in Int
        BY <3>1
      <3>3. QED
        BY <3>1, <3>2, NotBelowZero, Constants
    <2>2. \A m \in Months : SpentCents(m) <= HardCap + carried[m] + over
      BY DEF ChatInvariant, HardCapHolds
    <2> HIDE DEF over
    <2>3. SUFFICES ASSUME NEW m \in Months
                   PROVE  ledger'[m].reserved + ledger'[m].actual <= HardCap + carried'[m] + over
      BY DEF HardCapHolds, SpentCents, over
    <2>4. /\ ledger[m].reserved + ledger[m].actual <= HardCap + carried[m] + over
          /\ carried[m] \in Nat /\ carried'[m] \in Nat
      BY <1>1, <1>13, <2>2 DEF SpentCents
    <2>5. ledger[a].reserved + ledger[a].actual + e <= HardCap
      BY <1>3 DEF MayReserve
    <2>6. CASE m \notin {a, b}
      BY <1>11, <1>13, <2>4, <2>6
    <2>7. CASE m = a /\ a = b
      <3>1. ledger'[m].reserved = ledger[a].reserved /\ ledger'[m].actual = ledger[a].actual + c
        BY <1>11, <2>7
      <3>2. QED
        BY <1>2, <1>3, <1>4, <1>12, <2>1, <2>4, <2>5, <2>7, <3>1
    <2>8. CASE m = a /\ a # b
      <3>1. ledger'[m].reserved = ledger[a].reserved + e /\ ledger'[m].actual = ledger[a].actual
        BY <1>11, <2>8
      <3>2. QED
        BY <1>2, <1>12, <2>1, <2>4, <2>5, <2>8, <3>1
    <2>9. CASE m = b /\ a # b
      <3>1. /\ ledger'[m].reserved <= ledger[m].reserved
            /\ ledger'[m].actual = ledger[m].actual + c
            /\ carried'[m] = carried[m] + c
        BY <1>11, <1>13, <2>9
      <3>2. QED
        BY <1>4, <1>12, <2>1, <2>4, <3>1
    <2>10. QED
      BY <2>6, <2>7, <2>8, <2>9
  <1>18. ReservationsComeBack'
    <2>1. SUFFICES ASSUME NEW m \in Months, ledger'[m].reserved > 0
                   PROVE  m < month
      BY <1>5 DEF ReservationsComeBack
    <2>2. ledger[m].reserved > 0 => m < month
      BY DEF ChatInvariant, ReservationsComeBack
    <2>3. CASE m = a /\ a # b
      BY <1>2, <1>3, <2>3
    <2>4. CASE ~(m = a /\ a # b)
      <3>1. ledger'[m].reserved <= ledger[m].reserved
        BY <1>11, <1>12, <2>4
      <3>2. QED
        BY <1>12, <2>1, <2>2, <3>1
    <2>5. QED
      BY <2>3, <2>4
  <1>19. LedgerMatchesEvents'
    <2> DEFINE actual == [m \in Months |-> ledger[m].actual]
               actualAfter == [m \in Months |-> ledger'[m].actual]
               events == [m \in Months |-> usage[m]["RECONCILED"] + usage[m]["REFUNDED"]]
               eventsAfter == [m \in Months |-> usage'[m]["RECONCILED"] + usage'[m]["REFUNDED"]]
    <2>1. Total(actual) = Total(events)
      BY DEF ChatInvariant, LedgerMatchesEvents
    <2>2. Total(actualAfter) = Total(actual) + c
      <3>1. actual \in [Months -> Nat] /\ actualAfter \in [Months -> Nat]
        BY <1>12
      <3>2. actualAfter[b] = actual[b] + c
        BY <1>2, <1>11
      <3>3. \A m \in Months \ {b} : actualAfter[m] = actual[m]
        BY <1>11
      <3> HIDE DEF actual, actualAfter
      <3>4. QED
        BY <1>2, <1>4, <3>1, <3>2, <3>3, TotalAdds
    <2>3. Total(eventsAfter) = Total(events) + c
      <3>1. /\ \A m \in Months, s \in UsageEventStatus :
                 usage[m][s] \in Nat /\ usage'[m][s] \in Nat
            /\ \A m \in Months \ {r.recordedIn} : usage'[m] = usage[m]
            /\ usage'[r.recordedIn][r.outcome] = usage[r.recordedIn][r.outcome] + c
            /\ \A s \in UsageEventStatus \ {r.outcome} :
                 usage'[r.recordedIn][s] = usage[r.recordedIn][s]
        BY <1>1, <1>2, <1>5, <1>13 DEF BudgetTypeOK
      <3>2. events \in [Months -> Nat] /\ eventsAfter \in [Months -> Nat]
        BY <3>1 DEF UsageEventStatus
      <3>3. eventsAfter[r.recordedIn] = events[r.recordedIn] + c
        <4> DEFINE q == r.recordedIn
        <4>1. /\ events[q] = usage[q]["RECONCILED"] + usage[q]["REFUNDED"]
              /\ eventsAfter[q] = usage'[q]["RECONCILED"] + usage'[q]["REFUNDED"]
              /\ usage[q]["RECONCILED"] \in Nat /\ usage[q]["REFUNDED"] \in Nat
          BY <1>2, <3>1 DEF UsageEventStatus
        <4>2. \/ /\ usage'[q]["RECONCILED"] = usage[q]["RECONCILED"] + c
                 /\ usage'[q]["REFUNDED"] = usage[q]["REFUNDED"]
              \/ /\ usage'[q]["RECONCILED"] = usage[q]["RECONCILED"]
                 /\ usage'[q]["REFUNDED"] = usage[q]["REFUNDED"] + c
          BY <1>2, <3>1 DEF UsageEventStatus
        <4> HIDE DEF events, eventsAfter
        <4>3. QED
          BY <1>4, <4>1, <4>2
      <3>4. \A m \in Months \ {r.recordedIn} : eventsAfter[m] = events[m]
        BY <3>1
      <3> HIDE DEF events, eventsAfter
      <3>5. QED
        BY <1>2, <1>4, <3>2, <3>3, <3>4, TotalAdds
    <2>4. Total(actualAfter) = Total(eventsAfter)
      BY <2>1, <2>2, <2>3
    <2>5. QED
      BY <2>4 DEF LedgerMatchesEvents, Total
  <1>20. QED
    BY <1>14, <1>15, <1>16, <1>17, <1>18, <1>19 DEF ChatInvariant

-----------------------------------------------------------------------------
(* The invariant, and what follows from it.                                *)

LEMMA NextMonthKeepsInvariant ==
  ASSUME ChatInvariant, NextMonth, UNCHANGED chatVars
  PROVE  ChatInvariant'
  <1>1. /\ month' = month + 1 /\ month < MaxMonth /\ ledger' = ledger /\ usage' = usage
        /\ turn' = turn /\ log' = log /\ actions' = actions /\ carried' = carried
        /\ posts' = posts
    BY DEF NextMonth, chatVars
  <1>2. month \in Months /\ month \in Nat /\ month' \in Months /\ month' \in Nat
    BY <1>1, InvariantFacts, Constants DEF BudgetTypeOK, Months
  <1>3. TypeOK'
    BY <1>1, <1>2 DEF ChatInvariant, TypeOK, BudgetTypeOK
  <1>4. RowsAreHeldByOne'
    BY <1>1 DEF ChatInvariant, RowsAreHeldByOne, Holds
  <1>5. ASSUME NEW t \in Turns
        PROVE  (SpendingOK(turn[t]) /\ VoiceOK(turn[t]))'
    <2>1. Good(turn[t])
      BY InvariantFacts
    <2>2. turn[t].reservedIn \in Nat /\ turn[t].settledIn \in Nat
      BY <2>1, Constants DEF Good, TurnRecord
    <2>3. turn[t].reservedIn <= month' /\ turn[t].settledIn <= month'
      BY <1>1, <1>2, <2>1, <2>2 DEF Good, SpendingOK
    <2>4. QED
      BY <1>1, <2>1, <2>3 DEF Good, SpendingOK, VoiceOK
  <1>6. HardCapHolds'
    BY <1>1 DEF ChatInvariant, HardCapHolds, SpentCents
  <1>7. ReservationsComeBack'
    <2>1. SUFFICES ASSUME NEW m \in Months, ledger[m].reserved > 0
                   PROVE  m < month'
      BY <1>1 DEF ReservationsComeBack
    <2>2. m \in Nat /\ m < month
      BY <2>1, Constants DEF ChatInvariant, ReservationsComeBack
    <2>3. QED
      BY <1>1, <1>2, <2>2
  <1>8. LedgerMatchesEvents'
    BY <1>1 DEF ChatInvariant, LedgerMatchesEvents
  <1>9. QED
    BY <1>3, <1>4, <1>5, <1>6, <1>7, <1>8 DEF ChatInvariant

LEMMA InitKeepsInvariant ==
  ASSUME Init
  PROVE  ChatInvariant
  <1>1. BudgetTypeOK
    BY Constants DEF Init, BudgetInit, BudgetTypeOK, EmptyRow
  <1>2. Good(IdleTurn) /\ \A m \in Months : ~HasRow(IdleTurn, m)
    BY <1>1, IdleIsGood
  <1>3. TypeOK
    <2>1. \A c \in Conversations : IsFiniteSet(log[c])
      BY FS_EmptySet DEF Init
    <2>2. QED
      BY <1>1, <1>2, <2>1, ChatAssumption DEF Init, TypeOK, Good
  <1>4. \A t \in Turns, m \in Months : ~Holds(t, m)
    BY <1>2 DEF Init, Holds, HasRow
  <1>5. HardCapHolds
    <2>1. Max({0, DearestTurn - LeastEstimate}) \in Nat /\ HardCap \in Nat
      <3>1. DearestTurn - LeastEstimate \in Int
        BY LeastEstimateIsLeast, DearestTurnIsDearest
      <3>2. QED
        BY <3>1, NotBelowZero, Constants
    <2>2. \A m \in Months : SpentCents(m) = 0 /\ carried[m] = 0
      BY DEF Init, BudgetInit, EmptyRow, SpentCents
    <2>3. QED
      BY <2>1, <2>2 DEF HardCapHolds
  <1>6. ReservationsComeBack
    BY DEF Init, BudgetInit, EmptyRow, ReservationsComeBack
  <1>7. LedgerMatchesEvents
    <2>1. [m \in Months |-> ledger[m].actual]
            = [m \in Months |-> usage[m]["RECONCILED"] + usage[m]["REFUNDED"]]
      BY DEF Init, BudgetInit, EmptyRow, UsageEventStatus
    <2>2. QED
      BY <2>1 DEF LedgerMatchesEvents
  <1>8. QED
    BY <1>2, <1>3, <1>4, <1>5, <1>6, <1>7 DEF ChatInvariant, RowsAreHeldByOne, Init, Good

LEMMA NextKeepsInvariant ==
  ASSUME ChatInvariant, [Next]_vars
  PROVE  ChatInvariant'
  <1>1. ASSUME NEW t \in Turns, NEW p \in Providers, NEW mode \in DOMAIN OutputTokens,
               NEW disabled \in SUBSET Providers, Post(t, p, mode, disabled)
        PROVE  ChatInvariant'
    BY <1>1, PostKeepsInvariant
  <1>2. ASSUME NEW t \in Turns, TurnStep(t)
        PROVE  ChatInvariant'
    <2>1. CASE Reserve(t)
      BY <2>1, ReserveKeepsInvariant
    <2>2. CASE ReserveRefused(t)
      BY <2>2, RollbackKeepsInvariant DEF ReserveRefused
    <2>3. CASE StreamText(t)
      BY <2>3, StreamTextKeepsInvariant
    <2>4. CASE \E kind \in ToolKinds : StreamToolCall(t, kind)
      BY <2>4, StreamToolCallKeepsInvariant
    <2>5. CASE \E tokens \in RoundTokens : StreamEnds(t, tokens)
      BY <2>5, StreamEndsKeepsInvariant
    <2>6. CASE Propose(t)
      BY <2>6, ProposeKeepsInvariant
    <2>7. CASE Fails(t) \/ Disconnect(t)
      BY <2>7, FailsKeepsInvariant
    <2>8. CASE \E disabled \in SUBSET Providers : FallBack(t, disabled)
      BY <2>8, FallBackKeepsInvariant
    <2>9. CASE Resume(t)
      BY <2>9, ResumeKeepsInvariant
    <2>10. CASE Settle(t)
      BY <2>10, SettleKeepsInvariant
    <2>11. CASE Finish(t)
      <3>1. turn[t].pc \in {"done", "end"} /\ UNCHANGED posts /\ (Commit(t) \/ Rollback(t))
        BY <2>11 DEF Finish
      <3>2. QED
        BY <3>1, CommitKeepsInvariant, RollbackKeepsInvariant
    <2>12. CASE DeadlockAborts(t)
      BY <2>12, RollbackKeepsInvariant DEF DeadlockAborts
    <2>13. CASE Replay(t) \/ Record(t)
      BY <2>13, StatusKeepsInvariant
    <2>14. QED
      BY <1>2, <2>1, <2>2, <2>3, <2>4, <2>5, <2>6, <2>7, <2>8, <2>9, <2>10, <2>11, <2>12, <2>13
         DEF TurnStep
  <1>3. ASSUME NEW t \in Turns, Dies(t)
        PROVE  ChatInvariant'
    BY <1>3, RollbackKeepsInvariant DEF Dies
  <1>4. CASE NextMonth /\ UNCHANGED chatVars
    BY <1>4, NextMonthKeepsInvariant
  <1>5. CASE UNCHANGED vars
    <2>1. /\ month' = month /\ ledger' = ledger /\ usage' = usage /\ turn' = turn
          /\ log' = log /\ actions' = actions /\ carried' = carried /\ posts' = posts
      BY <1>5 DEF vars, budgetVars, chatVars
    <2>2. TypeOK'
      BY <2>1 DEF ChatInvariant, TypeOK, BudgetTypeOK
    <2>3. RowsAreHeldByOne'
      BY <2>1 DEF ChatInvariant, RowsAreHeldByOne, Holds
    <2>4. \A t \in Turns : (SpendingOK(turn[t]) /\ VoiceOK(turn[t]))'
      BY <2>1 DEF ChatInvariant, SpendingOK, VoiceOK
    <2>5. HardCapHolds' /\ ReservationsComeBack' /\ LedgerMatchesEvents'
      BY <2>1 DEF ChatInvariant, HardCapHolds, SpentCents, ReservationsComeBack,
                  LedgerMatchesEvents
    <2>6. QED
      BY <2>2, <2>3, <2>4, <2>5 DEF ChatInvariant
  <1>6. QED
    BY <1>1, <1>2, <1>3, <1>4, <1>5 DEF Next

\* The inductive invariant holds throughout: a month's row is one turn's from
\* its reservation to its end, and what a turn's record says of its month, its
\* estimate, its tokens and its provider is what the ledger relies on.
THEOREM ChatInvariantHolds == Spec => []ChatInvariant
  <1>1. Init => ChatInvariant
    BY InitKeepsInvariant
  <1>2. ChatInvariant /\ [Next]_vars => ChatInvariant'
    BY NextKeepsInvariant
  <1>3. QED
    BY <1>1, <1>2, PTL DEF Spec

\* reserve_budget's lock and check: whatever the number of open turns, their
\* rounds and their usage, a month passes the hard cap by one turn's excess
\* over its estimate at most, and by what came over the month's end.
THEOREM CapIsPassedByOneTurn == Spec => []HardCapHolds
  <1>1. ChatInvariant => HardCapHolds
    BY DEF ChatInvariant
  <1>2. QED
    BY <1>1, ChatInvariantHolds, PTL

\* reconcile_budget gives back what reserve_budget took, however the turn
\* ends, unless the month ended in between.
THEOREM NothingStaysReserved == Spec => []ReservationsComeBack
  <1>1. ChatInvariant => ReservationsComeBack
    BY DEF ChatInvariant
  <1>2. QED
    BY <1>1, ChatInvariantHolds, PTL

\* _reconcile_and_record: the ledger and the usage events tell the same sum.
THEOREM EveryCentHasAnEvent == Spec => []LedgerMatchesEvents
  <1>1. ChatInvariant => LedgerMatchesEvents
    BY DEF ChatInvariant
  <1>2. QED
    BY <1>1, ChatInvariantHolds, PTL

\* The fallback of stream_message comes before the first word: a turn's text
\* is one provider's.
THEOREM OneVoice == Spec => []OneVoicePerTurn
  <1>1. ASSUME ChatInvariant
        PROVE  OneVoicePerTurn
    <2>1. SUFFICES ASSUME NEW t \in Turns
                   PROVE  Cardinality(turn[t].authors) <= 1
      BY DEF OneVoicePerTurn
    <2> DEFINE A == turn[t].authors
               P == {turn[t].provider}
    <2>2. A \subseteq P
      BY <1>1, InvariantFacts DEF Good, VoiceOK
    <2>3. IsFiniteSet(P) /\ Cardinality(P) = 1
      BY FS_Singleton
    <2>4. Cardinality(A) <= Cardinality(P)
      <3> HIDE DEF A, P
      <3> QED
        BY <2>2, <2>3, FS_Subset
    <2>5. QED
      BY <2>3, <2>4
  <1>2. QED
    BY <1>1, ChatInvariantHolds, PTL

\* The ledger's row comes before the audit tip in every turn: two turns that
\* wait for each other do not both have the current month's row.
THEOREM WaitingInACircleNeedsMonthEnd == Spec => []DeadlockNeedsMonthEnd
  <1>1. ASSUME ChatInvariant
        PROVE  DeadlockNeedsMonthEnd
    <2>1. SUFFICES ASSUME NEW t \in Turns, NEW u \in Turns,
                          t \in Blockers(u), u \in Blockers(t),
                          \A v \in {t, u} : ~(turn[v].reservedIn < month)
                   PROVE  FALSE
      BY DEF DeadlockNeedsMonthEnd
    <2>2. /\ Good(turn[t]) /\ Good(turn[u]) /\ BudgetTypeOK
      BY <1>1, InvariantFacts
    <2>3. t # u
      BY <2>1 DEF Blockers
    <2>4. turn[t].reservedIn = month /\ turn[u].reservedIn = month /\ month \in Months
      <3>1. month \in Months /\ turn[t].reservedIn \in Months /\ turn[u].reservedIn \in Months
        BY <2>2 DEF Good, TurnRecord, BudgetTypeOK
      <3>2. turn[t].reservedIn <= month /\ turn[u].reservedIn <= month
        BY <2>2 DEF Good, SpendingOK
      <3>3. ~(turn[t].reservedIn < month) /\ ~(turn[u].reservedIn < month)
        BY <2>1
      <3>4. month \in Nat /\ turn[t].reservedIn \in Nat /\ turn[u].reservedIn \in Nat
        BY <3>1, Constants
      <3>5. QED
        BY <3>1, <3>2, <3>3, <3>4
    <2>5. \A v \in {t, u} : turn[v].pc \in Places \ {"idle", "reserve"}
      <3>1. \A v \in {t, u} : turn[v].pc \in {"idle", "reserve"} =>
              ~HoldsTip(v) /\ \A m : ~Holds(v, m)
        BY <2>2 DEF Good, VoiceOK, HoldsTip, Holds
      <3>2. /\ HoldsTip(t) \/ \E m : Holds(t, m)
            /\ HoldsTip(u) \/ \E m : Holds(u, m)
        BY <2>1 DEF Blockers
      <3>3. turn[t].pc \in Places /\ turn[u].pc \in Places
        BY <2>2 DEF Good, TurnRecord
      <3>4. QED
        BY <3>1, <3>2, <3>3
    <2>6. Holds(t, month) /\ Holds(u, month)
      BY <2>4, <2>5 DEF Holds
    <2>7. QED
      BY <1>1, <2>3, <2>4, <2>6, InvariantFacts
  <1>2. QED
    BY <1>1, ChatInvariantHolds, PTL
=============================================================================
