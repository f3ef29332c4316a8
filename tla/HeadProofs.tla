---------------------------- MODULE HeadProofs ----------------------------
(***************************************************************************)
(* Proofs about HeadDiscovery, for any range of generations and any caps:  *)
(* SearchInv is inductive, and what resolve_head promises follows from it. *)
(***************************************************************************)
EXTENDS HeadDiscovery, TLAPS, WellFoundedInduction

\* The search's bounds straddle nothing it has not verified: low is
\* committed and the binary search starts right above it.
SearchInv ==
    /\ TypeOK
    /\ ResolvedIsCommitted
    /\ ResolvedIsRecent
    /\ startHead <= head
    /\ phase \in {"bracket", "search"} => low <= head
    /\ phase = "search" => left = low + 1

\* Whatever the lake and the hint hold when the search begins.
LEMMA SearchInit == Init => SearchInv
BY DiscoveryAssumption
   DEF Init, SearchInv, TypeOK, ResolvedIsCommitted, ResolvedIsRecent, Phases, Generations

\* Every GET, and every commit or hint write of another process.
LEMMA SearchStep == SearchInv /\ [Next]_vars => SearchInv'
<1> SUFFICES ASSUME SearchInv, [Next]_vars PROVE SearchInv'
  OBVIOUS
<1> USE DiscoveryAssumption
    DEF SearchInv, TypeOK, ResolvedIsCommitted, ResolvedIsRecent, Generations, lake,
        search, OneMoreGet
<1>1. CASE ReadHint
  BY <1>1 DEF ReadHint, Phases
<1>2. CASE VerifyHint
  BY <1>2 DEF VerifyHint, HintVerifies, StartProbing, Present, Phases
<1>3. CASE GallopStart
  BY <1>3 DEF GallopStart, Present, Phases
<1>4. CASE Bracket
  <2>1. CASE InRange(low + step) /\ Present(low + step)
    BY <1>4, <2>1 DEF Bracket, InRange, Present, WiderStep, Phases
  <2>2. CASE ~(InRange(low + step) /\ Present(low + step))
    BY <1>4, <2>2 DEF Bracket, InRange, Phases
  <2> QED
    BY <2>1, <2>2
<1>5. CASE BinarySearch
  <2> DEFINE mid == (left + right) \div 2
  <2>1. left <= mid /\ mid <= right /\ mid \in Nat
    BY <1>5 DEF BinarySearch
  <2>2. CASE Present(mid)
    BY <1>5, <2>1, <2>2 DEF BinarySearch, Present, Phases
  <2>3. CASE ~Present(mid)
    BY <1>5, <2>1, <2>3 DEF BinarySearch, Below, Phases
  <2> QED
    BY <2>2, <2>3
<1>6. CASE GallopEnd
  BY <1>6 DEF GallopEnd, StartProbing, Phases
<1>7. CASE Probe
  <2>1. CASE InRange(generation + step) /\ Present(generation + step)
    BY <1>7, <2>1 DEF Probe, InRange, Present, AtMost, Phases
  <2>2. CASE ~(InRange(generation + step) /\ Present(generation + step))
    BY <1>7, <2>2 DEF Probe, InRange, Present, GapIsFrontier, Phases
  <2> QED
    BY <2>1, <2>2
<1>8. CASE ProbeCapped
  BY <1>8 DEF ProbeCapped, Phases
<1>9. CASE Commit \/ MoveHint
  BY <1>9 DEF Commit, MoveHint, Phases
<1>10. CASE Idle \/ UNCHANGED vars
  BY <1>10 DEF Idle, vars
<1> QED
  BY <1>1, <1>2, <1>3, <1>4, <1>5, <1>6, <1>7, <1>8, <1>9, <1>10 DEF Next, Resolver

\* The invariant holds throughout the search.
THEOREM SearchInvariant == Spec => []SearchInv
BY SearchInit, SearchStep, PTL DEF Spec

\* Every generation the search names, the binary search's bounds included, is
\* one whose key can be formatted.
THEOREM SearchTypeCorrect == Spec => []TypeOK
<1>1. SearchInv => TypeOK
  BY DEF SearchInv
<1> QED
  BY <1>1, SearchInvariant, PTL

\* resolve_head returns only committed generations, whatever the hint says.
THEOREM ResolutionIsSound == Spec => []ResolvedIsCommitted
<1>1. SearchInv => ResolvedIsCommitted
  BY DEF SearchInv
<1> QED
  BY <1>1, SearchInvariant, PTL

\* resolve_head returns a head at least as recent as the one at its start.
THEOREM ResolutionIsRecent == Spec => []ResolvedIsRecent
<1>1. SearchInv => ResolvedIsRecent
  BY DEF SearchInv
<1> QED
  BY <1>1, SearchInvariant, PTL

---------------------------------------------------------------------------
(* Powers of two *)

\* Every set of numbers has a least one: what induction over numbers comes to when
\* the induction theorems cannot be instantiated.
LEMMA Least ==
    ASSUME NEW T \in SUBSET Nat, T # {}
    PROVE  \E x \in T : \A y \in Nat : y < x => y \notin T
<1>1. PICK x \in T : \A y \in T : ~(<<y, x>> \in OpToRel(<, Nat))
  BY NatLessThanWellFounded, WFMin
<1>2. \A y \in Nat : y < x => <<y, x>> \in OpToRel(<, Nat)
  BY DEF OpToRel
<1> QED
  BY <1>1, <1>2

\* The powers up to the n-th, in a table.
IsTable(g, n) ==
    /\ g \in [0..n -> Nat]
    /\ \A i \in 0..n : g[i] = IF i = 0 THEN 1 ELSE 2 * g[i - 1]

LEMMA TablesExist == \A n \in Nat : \E g : IsTable(g, n)
<1> DEFINE T == {n \in Nat : ~\E g : IsTable(g, n)}
<1> SUFFICES ASSUME T # {} PROVE FALSE
  OBVIOUS
<1>1. PICK n \in T : \A m \in Nat : m < n => m \notin T
  BY Least
<1>2. CASE n = 0
  <2>1. IsTable([i \in 0..0 |-> 1], 0)
    BY DEF IsTable
  <2> QED
    BY <1>2, <2>1
<1>3. CASE n # 0
  <2>1. n \in Nat /\ n - 1 \in Nat /\ n - 1 < n
    BY <1>3
  <2>2. PICK g : IsTable(g, n - 1)
    BY <1>1, <2>1
  <2> DEFINE h == [i \in 0..n |-> IF i = n THEN 2 * g[n - 1] ELSE g[i]]
  <2>3. /\ g \in [0..(n - 1) -> Nat]
        /\ \A i \in 0..(n - 1) : g[i] = IF i = 0 THEN 1 ELSE 2 * g[i - 1]
    BY <2>2 DEF IsTable
  <2>4. h \in [0..n -> Nat]
    BY <2>1, <2>3
  <2>5. ASSUME NEW i \in 0..n PROVE h[i] = IF i = 0 THEN 1 ELSE 2 * h[i - 1]
    <3>1. CASE i = n
      BY <1>3, <2>1, <3>1
    <3>2. CASE i # n
      BY <2>1, <2>3, <3>2
    <3> QED
      BY <3>1, <3>2
  <2>6. IsTable(h, n)
    BY <2>4, <2>5 DEF IsTable
  <2> QED
    BY <2>6
<1> QED
  BY <1>2, <1>3

\* Two tables agree where both are defined.
LEMMA TablesAgree ==
    ASSUME NEW n \in Nat, NEW m \in Nat, NEW g, NEW h, IsTable(g, n), IsTable(h, m)
    PROVE  \A i \in Nat : i <= n /\ i <= m => g[i] = h[i]
<1> DEFINE T == {i \in Nat : i <= n /\ i <= m /\ g[i] # h[i]}
<1> SUFFICES ASSUME T # {} PROVE FALSE
  OBVIOUS
<1>1. PICK i \in T : \A j \in Nat : j < i => j \notin T
  BY Least
<1>2. i \in 0..n /\ i \in 0..m
  OBVIOUS
<1>3. /\ g[i] = IF i = 0 THEN 1 ELSE 2 * g[i - 1]
      /\ h[i] = IF i = 0 THEN 1 ELSE 2 * h[i - 1]
  BY <1>2 DEF IsTable
<1>4. i # 0 => i - 1 \in Nat /\ i - 1 < i /\ i - 1 <= n /\ i - 1 <= m
  BY <1>2
<1> QED
  BY <1>1, <1>3, <1>4

\* The recursive definition of Power defines what it says.
LEMMA PowerRecursion ==
    /\ Power \in [Nat -> Nat]
    /\ Power[0] = 1
    /\ \A n \in Nat : Power[n + 1] = 2 * Power[n]
<1> DEFINE table(n) == CHOOSE g : IsTable(g, n)
           f == [n \in Nat |-> table(n)[n]]
           next == [n \in Nat |-> IF n = 0 THEN 1 ELSE 2 * f[n - 1]]
<1>1. ASSUME NEW n \in Nat
      PROVE  /\ table(n)[n] \in Nat
             /\ table(n)[n] = IF n = 0 THEN 1 ELSE 2 * table(n)[n - 1]
             /\ n # 0 => table(n)[n - 1] = table(n - 1)[n - 1]
  <2>1. IsTable(table(n), n)
    BY TablesExist
  <2>2. n # 0 => n - 1 \in Nat /\ IsTable(table(n - 1), n - 1)
    BY TablesExist
  <2>3. n # 0 => table(n)[n - 1] = table(n - 1)[n - 1]
    <3> HIDE DEF table
    <3> QED
      BY <2>1, <2>2, TablesAgree
  <2>4. table(n)[n] \in Nat /\ table(n)[n] = IF n = 0 THEN 1 ELSE 2 * table(n)[n - 1]
    <3> HIDE DEF table
    <3> QED
      BY <2>1 DEF IsTable
  <2> QED
    BY <2>3, <2>4
<1> HIDE DEF table
<1>2. f = [n \in Nat |-> IF n = 0 THEN 1 ELSE 2 * f[n - 1]]
  <2>1. \A n \in Nat : f[n] = next[n]
    BY <1>1
  <2> QED
    BY <2>1
<1>3. Power = [n \in Nat |-> IF n = 0 THEN 1 ELSE 2 * Power[n - 1]]
  <2>1. \E p : p = [n \in Nat |-> IF n = 0 THEN 1 ELSE 2 * p[n - 1]]
    BY <1>2
  <2> QED
    BY <2>1 DEF Power
<1>4. Power \in [Nat -> Nat]
  <2>1. f \in [Nat -> Nat]
    BY <1>1
  <2> DEFINE T == {n \in Nat : Power[n] # f[n]}
  <2>2. T = {}
    <3> SUFFICES ASSUME T # {} PROVE FALSE
      OBVIOUS
    <3>1. PICK n \in T : \A m \in Nat : m < n => m \notin T
      BY Least
    <3>2. n # 0 => n - 1 \in Nat /\ Power[n - 1] = f[n - 1]
      BY <3>1
    <3>3. Power[n] = IF n = 0 THEN 1 ELSE 2 * Power[n - 1]
      BY <1>3
    <3>4. f[n] = IF n = 0 THEN 1 ELSE 2 * f[n - 1]
      BY <1>2
    <3> QED
      BY <3>2, <3>3, <3>4
  <2> HIDE DEF f
  <2>3. \A n \in Nat : Power[n] \in Nat
    BY <2>1, <2>2
  <2>4. Power = [n \in Nat |-> Power[n]]
    BY <1>3
  <2> QED
    BY <2>3, <2>4
<1> HIDE DEF f
<1>5. Power[0] = 1
  BY <1>3
<1>6. ASSUME NEW n \in Nat PROVE Power[n + 1] = 2 * Power[n]
  <2>1. n + 1 \in Nat /\ n + 1 # 0 /\ (n + 1) - 1 = n
    OBVIOUS
  <2> QED
    BY <1>3, <2>1
<1> QED
  BY <1>4, <1>5, <1>6

\* Powers outgrow their exponents, and grow with them.
LEMMA PowerGrows ==
    /\ \A n \in Nat : n < Power[n]
    /\ \A k, n \in Nat : k <= n => Power[k] <= Power[n]
<1>1. ASSUME NEW n \in Nat PROVE n < Power[n]
  <2> DEFINE T == {i \in Nat : ~(i < Power[i])}
  <2> SUFFICES ASSUME T # {} PROVE FALSE
    OBVIOUS
  <2>1. PICK i \in T : \A j \in Nat : j < i => j \notin T
    BY Least
  <2>2. CASE i = 0
    BY <2>2, PowerRecursion
  <2>3. CASE i # 0
    <3>1. i - 1 \in Nat /\ i - 1 < Power[i - 1] /\ (i - 1) + 1 = i
      BY <2>1, <2>3
    <3>2. Power[i] = 2 * Power[i - 1] /\ Power[i - 1] \in Nat
      BY <3>1, PowerRecursion
    <3> QED
      BY <3>1, <3>2
  <2> QED
    BY <2>2, <2>3
<1>2. ASSUME NEW k \in Nat, NEW n \in Nat, k <= n PROVE Power[k] <= Power[n]
  <2> DEFINE T == {i \in Nat : k <= i /\ ~(Power[k] <= Power[i])}
  <2> SUFFICES ASSUME T # {} PROVE FALSE
    BY <1>2
  <2>1. PICK i \in T : \A j \in Nat : j < i => j \notin T
    BY Least
  <2>2. CASE i = k
    BY <2>2, PowerRecursion
  <2>3. CASE i # k
    <3>1. i - 1 \in Nat /\ Power[k] <= Power[i - 1] /\ (i - 1) + 1 = i
      BY <2>1, <2>3
    <3>2. Power[i] = 2 * Power[i - 1] /\ Power[i - 1] \in Nat /\ Power[k] \in Nat
      BY <3>1, PowerRecursion
    <3> QED
      BY <3>1, <3>2
  <2> QED
    BY <2>2, <2>3
<1> QED
  BY <1>1, <1>2

\* Log2 is the integer logarithm, and no exponent of a smaller power exceeds it.
LEMMA Log2Bounds ==
    ASSUME NEW n \in Nat \ {0}, NEW k \in Nat, Power[k] <= n
    PROVE  Log2(n) \in Nat /\ k <= Log2(n)
<1> DEFINE T == {i \in Nat : n < Power[i]}
<1>1. n \in T
  BY PowerGrows
<1>2. PICK i \in T : \A j \in Nat : j < i => j \notin T
  BY <1>1, Least
<1>3. i # 0 /\ i <= n
  BY <1>1, <1>2, PowerRecursion
<1>4. i - 1 \in 0..n /\ Power[i - 1] <= n /\ n < Power[(i - 1) + 1]
  <2>1. i - 1 \in Nat /\ i - 1 < i /\ (i - 1) + 1 = i
    BY <1>3
  <2>2. Power[i - 1] \in Nat /\ ~(n < Power[i - 1])
    BY <1>2, <2>1, PowerRecursion
  <2> QED
    BY <1>2, <1>3, <2>1, <2>2
<1>5. Log2(n) \in 0..n /\ n < Power[Log2(n) + 1]
  BY <1>4 DEF Log2
<1>6. k <= Log2(n)
  <2> SUFFICES ASSUME Log2(n) + 1 <= k PROVE FALSE
    BY <1>5
  <2>1. Power[Log2(n) + 1] <= Power[k]
    BY <1>5, PowerGrows
  <2> QED
    BY <1>5, <2>1, PowerRecursion
<1> QED
  BY <1>5, <1>6

---------------------------------------------------------------------------
(* The cost of the gallop *)

\* The bracket has doubled k times, from 0 to a committed generation, with a GET
\* each; what the binary search has left is less than the j-th power of two, and j
\* more GETs are enough.
CostInv ==
    /\ phase \in {"start", "verify_hint", "gallop"} => gets = 0
    /\ phase = "bracket" =>
          \E k \in Nat : step = Power[k] /\ low = step - 1 /\ gets <= 1 + k
    /\ phase = "search" =>
          \E k, j \in Nat : /\ Power[k] <= head + 1 /\ right - left + 1 < Power[j]
                           /\ gets + j <= 2 + 2 * k
    /\ \E k \in Nat : Power[k] <= head + 2 /\ gets <= 2 * k + 3

\* The arithmetic of a GET that widens the bracket, and of one that halves it.
LEMMA WideningCosts ==
    ASSUME NEW g \in Nat, NEW h \in Nat, NEW k \in Nat, g <= 1 + k, h <= g + 1
    PROVE  h + k <= 2 + 2 * k
OBVIOUS

LEMMA HalvingCosts ==
    ASSUME NEW g \in Nat, NEW h \in Nat, NEW k \in Nat, NEW j \in Nat,
           j >= 1, g + j <= 2 + 2 * k, h <= g + 1
    PROVE  h + (j - 1) <= 2 + 2 * k /\ h <= 2 * k + 3
OBVIOUS

LEMMA HalfIsLess ==
    ASSUME NEW a \in Int, NEW b \in Int, NEW p \in Nat, 2 * a <= b, b < 2 * p
    PROVE  a < p
OBVIOUS

LEMMA CostInit == Init => CostInv
<1> SUFFICES ASSUME Init PROVE CostInv
  OBVIOUS
<1>1. phase = "start" /\ gets = 0 /\ head \in Int /\ head >= -1
  BY DiscoveryAssumption DEF Init
<1>2. Power[0] <= head + 2 /\ gets <= 2 * 0 + 3
  BY <1>1, PowerRecursion
<1> QED
  BY <1>1, <1>2 DEF CostInv

LEMMA CostStep ==
    ASSUME SearchInv, CostInv, [Next]_vars
    PROVE  CostInv'
<1>1. /\ head \in Int /\ head >= -1 /\ low \in Nat /\ left \in Nat /\ right \in Nat
      /\ step \in Nat /\ gets \in Nat /\ MaxGeneration \in Nat
      /\ \A k \in Nat : Power[k] \in Nat /\ Power[k + 1] = 2 * Power[k]
      /\ Power[0] = 1
  BY DiscoveryAssumption, PowerRecursion DEF SearchInv, TypeOK, Generations
<1>a. gets \in Nat /\ left \in Nat /\ right \in Nat
  BY <1>1
<1>2. OneMoreGet <= gets + 1 /\ OneMoreGet \in Nat
  BY <1>1, DiscoveryAssumption DEF OneMoreGet
<1>3. PICK n \in Nat : Power[n] <= head + 2 /\ gets <= 2 * n + 3
  BY DEF CostInv
\* A step of others, or one that GETs no marker of the gallop.
<1>4. ASSUME head' >= head, head' \in Int, gets' = gets, UNCHANGED search,
             \/ phase' = phase /\ (phase = "bracket" => step' = step)
             \/ phase' \notin {"start", "verify_hint", "gallop", "bracket", "search"}
      PROVE  CostInv'
  <2>1. (\E k \in Nat : Power[k] <= head + 2 /\ gets <= 2 * k + 3)'
    <3>1. Power[n] <= head' + 2
      BY <1>1, <1>3, <1>4
    <3> QED
      BY <1>3, <1>4, <3>1
  <2>2. CASE phase' = "search"
    <3>1. PICK k, j \in Nat : /\ Power[k] <= head + 1 /\ right - left + 1 < Power[j]
                              /\ gets + j <= 2 + 2 * k
      BY <1>4, <2>2 DEF CostInv
    <3>2. Power[k] <= head' + 1
      BY <1>1, <1>4, <3>1
    <3> QED
      BY <1>4, <2>1, <2>2, <3>1, <3>2 DEF CostInv, search
  <2>3. CASE phase' # "search"
    BY <1>4, <2>1, <2>3 DEF CostInv, search
  <2> QED
    BY <2>2, <2>3
<1>5. CASE Commit \/ MoveHint
  BY <1>1, <1>4, <1>5 DEF Commit, MoveHint
<1>6. CASE Probe \/ ProbeCapped \/ Idle \/ UNCHANGED vars
  BY <1>1, <1>4, <1>6 DEF Probe, ProbeCapped, Idle, vars, lake, search, Ended
<1>7. CASE ReadHint \/ VerifyHint
  <2>1. /\ gets' = gets /\ head' = head /\ gets = 0
        /\ phase' \in {"verify_hint", "gallop", "hint_error", "probing"}
    BY <1>7 DEF ReadHint, VerifyHint, StartProbing, CostInv, lake
  <2> QED
    BY <1>3, <2>1 DEF CostInv
<1>8. CASE GallopStart
  <2>1. /\ gets' <= 1 /\ head' = head /\ low' = 0 /\ step' = 1
        /\ phase' \in {"bracket", "uninitialized"}
    BY <1>1, <1>2, <1>8 DEF GallopStart, CostInv, lake
  <2>2. gets' \in Int
    BY <1>2, <1>8 DEF GallopStart
  <2>3. Power[0] <= head' + 2 /\ gets' <= 2 * 0 + 3
    BY <1>1, <2>1, <2>2
  <2>4. step' = Power[0] /\ low' = step' - 1 /\ gets' <= 1 + 0
    BY <1>1, <2>1, <2>2
  <2> QED
    BY <2>1, <2>3, <2>4 DEF CostInv
<1>9. CASE Bracket
  <2>1. PICK k \in Nat : step = Power[k] /\ low = step - 1 /\ gets <= 1 + k
    BY <1>9 DEF Bracket, CostInv
  <2>2. low <= head /\ head' = head
    BY <1>9 DEF Bracket, SearchInv, lake
  <2>3. gets' \in Nat /\ gets' <= gets + 1 /\ (~InRange(low + step) => gets' = gets)
    BY <1>1, <1>2, <1>9 DEF Bracket
  <2>4. Power[k] <= head' + 1 /\ Power[k] <= head' + 2 /\ gets' <= 2 * k + 3
    BY <1>1, <2>1, <2>2, <2>3
  <2>5. CASE InRange(low + step) /\ Present(low + step)
    <3>1. phase' = "bracket" /\ low' = low + step /\ step' = 2 * step
      BY <1>1, <1>9, <2>5 DEF Bracket, WiderStep
    <3>2. /\ step' = Power[k + 1] /\ low' = step' - 1 /\ gets' <= 1 + (k + 1)
          /\ k + 1 \in Nat
      BY <1>1, <2>1, <2>3, <3>1
    <3> QED
      BY <2>4, <3>1, <3>2 DEF CostInv
  <2>6. CASE ~(InRange(low + step) /\ Present(low + step))
    <3>1. /\ phase' = "search" /\ left' = low + 1
          /\ right' = (IF InRange(low + step) THEN low + step ELSE MaxGeneration + 1) - 1
      BY <1>9, <2>6 DEF Bracket
    <3>2. right' - left' + 1 < Power[k]
      BY <1>1, <2>1, <3>1 DEF InRange
    <3>3. gets' + k <= 2 + 2 * k
      <4>1. gets <= 1 + k /\ k \in Nat /\ gets' \in Nat /\ gets' <= gets + 1
        BY <2>1, <2>3
      <4> QED
        BY <1>a, <4>1, WideningCosts
    <3> QED
      BY <2>4, <3>1, <3>2, <3>3 DEF CostInv
  <2> QED
    BY <2>5, <2>6
<1>10. CASE BinarySearch
  <2>1. PICK k, j \in Nat : /\ Power[k] <= head + 1 /\ right - left + 1 < Power[j]
                            /\ gets + j <= 2 + 2 * k
    BY <1>10 DEF BinarySearch, CostInv
  <2> DEFINE mid == (left + right) \div 2
  <2>2. /\ phase' = "search" /\ head' = head /\ left <= right
        /\ gets' <= gets + 1 /\ gets' \in Nat
    BY <1>2, <1>10 DEF BinarySearch, lake
  <2>3. \/ left' = mid + 1 /\ right' = right
        \/ left' = left /\ right' = mid - 1
    BY <1>10 DEF BinarySearch, Below
  <2>4. mid \in Nat /\ 2 * mid <= left + right /\ left + right <= 2 * mid + 1
    BY <1>1
  <2> HIDE DEF mid
  <2>5. 2 * (right' - left' + 1) <= right - left + 1
    BY <1>1, <2>3, <2>4
  <2>6. j # 0 /\ j - 1 \in Nat /\ Power[j] = 2 * Power[j - 1]
    <3>1. j # 0
      BY <1>1, <2>1, <2>2
    <3>2. j - 1 \in Nat /\ (j - 1) + 1 = j
      BY <3>1
    <3> QED
      BY <1>1, <3>1, <3>2
  <2>7. right' \in Int /\ left' \in Int
    BY <1>1, <2>3, <2>4
  <2>8. right' - left' + 1 < Power[j - 1]
    <3>1. Power[j] \in Nat /\ Power[j - 1] \in Nat
      BY <1>1, <2>6
    <3>2. right - left + 1 < 2 * Power[j - 1]
      BY <2>1, <2>6
    <3>3. right' - left' + 1 \in Int /\ right - left + 1 \in Int
      BY <1>a, <2>7
    <3> QED
      BY <2>5, <3>1, <3>2, <3>3, HalfIsLess
  <2>9. gets' + (j - 1) <= 2 + 2 * k /\ gets' <= 2 * k + 3
    <3>1. gets + j <= 2 + 2 * k /\ gets' <= gets + 1 /\ gets' \in Nat
      BY <2>1, <2>2
    <3>2. j \in Nat /\ j >= 1
      BY <2>6
    <3> QED
      BY <1>a, <3>1, <3>2, HalvingCosts
  <2>10. Power[k] <= head' + 1 /\ Power[k] <= head' + 2
    BY <1>1, <2>1, <2>2
  <2> QED
    BY <2>2, <2>6, <2>8, <2>9, <2>10 DEF CostInv
<1>11. CASE GallopEnd
  <2>1. PICK k, j \in Nat : Power[k] <= head + 1 /\ gets + j <= 2 + 2 * k
    BY <1>11 DEF GallopEnd, CostInv
  <2>2. phase' = "probing" /\ head' = head /\ gets' <= gets + 1 /\ gets' \in Nat
    BY <1>1, <1>2, <1>11 DEF GallopEnd, StartProbing, lake
  <2>3. Power[k] <= head' + 2 /\ gets' <= 2 * k + 3
    BY <1>1, <2>1, <2>2
  <2> QED
    BY <2>2, <2>3 DEF CostInv
<1> QED
  BY <1>5, <1>6, <1>7, <1>8, <1>9, <1>10, <1>11 DEF Next, Resolver

\* However long the history, whoever commits meanwhile and wherever the frontier is,
\* _gallop_discover needs at most two GETs per doubling of the head, and three.
THEOREM GallopCost == Spec => []GallopIsLogarithmic
<1>1. SearchInv /\ CostInv => GallopIsLogarithmic
  <2> SUFFICES ASSUME SearchInv, CostInv PROVE GallopIsLogarithmic
    OBVIOUS
  <2>1. PICK k \in Nat : Power[k] <= head + 2 /\ gets <= 2 * k + 3
    BY DEF CostInv
  <2>2. head + 2 \in Nat \ {0} /\ gets \in Nat
    BY DiscoveryAssumption DEF SearchInv, TypeOK
  <2>3. Log2(head + 2) \in Nat /\ k <= Log2(head + 2)
    BY <2>1, <2>2, Log2Bounds
  <2> HIDE DEF Log2
  <2> QED
    BY <2>1, <2>2, <2>3 DEF GallopIsLogarithmic
<1>2. SearchInv /\ CostInv /\ [Next]_vars => CostInv'
  BY CostStep
<1> QED
  BY <1>1, <1>2, CostInit, SearchInvariant, PTL DEF Spec
===========================================================================
