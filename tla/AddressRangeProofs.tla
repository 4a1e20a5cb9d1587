-------------------------- MODULE AddressRangeProofs --------------------------
(***************************************************************************)
(* Theorems about AddressRange, for words of any size: what a scan probes. *)
(***************************************************************************)
EXTENDS AddressRange, FiniteSetTheorems, TLAPS

\* The i-th address after From, with the carry into the high half.
At(i) ==
  IF version = "v4" \/ from.lo + i < Word6
  THEN [hi |-> from.hi, lo |-> from.lo + i]
  ELSE [hi |-> from.hi + 1, lo |-> from.lo + i - Word6]

Accepted == ValidAddress(from) /\ ValidAddress(to) /\ InOrder(from, to)

Fields ==
  /\ version \in {"v4", "v6"}
  /\ from \in Address[version] /\ to \in Address[version]
  /\ pc \in {"ask", "refused", "probe", "wait"}

\* How far the scan has come: what was probed is the first j addresses, and
\* the next one is at hand as long as one is left.  (After the last one
\* cur_address may have wrapped around.)
Scanned ==
  /\ j \in Nat /\ num_addresses \in Nat /\ j <= num_addresses
  /\ probed = {At(i) : i \in 0..(j - 1)}
  /\ Cardinality(probed) = j /\ IsFiniteSet(probed)
  /\ j < num_addresses \/ pc = "ask" => cur_address = At(j)
  /\ pc \in {"ask", "refused"} => j = 0
  /\ pc = "wait" => j = num_addresses
  /\ pc \in {"probe", "wait"} =>
       /\ Accepted
       /\ num_addresses = IF version = "v4" THEN CountV4(from, to) ELSE CountV6(from, to)

IInv == Fields /\ Scanned
-----------------------------------------------------------------------------
\* Arithmetic of words.
LEMMA Words ==
  ASSUME NEW w \in Nat, w > 0, NEW x \in Int
  PROVE  /\ x \in 0..(w - 1) => x % w = x
         /\ x \in w..(2 * w - 1) => x % w = x - w
         /\ x \in (-w)..(-1) => x % w = x + w
         /\ x % w \in 0..(w - 1)
OBVIOUS

\* The count never leaves the range: an accepted range is counted in full, or
\* (a whole high half, a range into the next one) too short.
LEMMA CountV4Exact ==
  ASSUME Fields, Accepted, version = "v4"
  PROVE  from.hi = 0 /\ to.hi = 0 /\ CountV4(from, to) = to.lo - from.lo + 1
         /\ from.lo \in 0..(Word4 - 1) /\ to.lo \in 0..(Word4 - 1) /\ from.lo <= to.lo
<1>1. /\ from \in [hi : {0}, lo : 0..(Word4 - 1)] /\ to \in [hi : {0}, lo : 0..(Word4 - 1)]
  BY DEF Fields, Address
<1>2. from.lo >= Low4 /\ from.lo <= to.lo
  BY DEF Accepted, ValidAddress, InOrder
<1>3. /\ Word4 \in Nat /\ Word4 > 0 /\ Low4 >= 1 /\ Low4 \in Int
  BY WordAssumption
<1>4. to.lo - from.lo + 1 \in 0..(Word4 - 1)
  BY <1>1, <1>2, <1>3
<1>5. (to.lo - from.lo + 1) % Word4 = to.lo - from.lo + 1
  BY <1>3, <1>4, Words
<1> QED
  BY <1>1, <1>2, <1>5 DEF CountV4

LEMMA CountV6Facts ==
  ASSUME Fields, Accepted, version = "v6"
  PROVE  /\ {from.hi, to.hi, from.lo, to.lo} \subseteq 0..(Word6 - 1)
         /\ CountV6(from, to) \in Nat
         /\ \/ /\ from.hi = to.hi /\ from.lo <= to.lo
               /\ CountV6(from, to) <= to.lo - from.lo + 1
               /\ to.lo - from.lo + 1 < Word6 => CountV6(from, to) = to.lo - from.lo + 1
            \/ /\ to.hi = from.hi + 1 /\ to.lo < from.lo
               /\ CountV6(from, to) = Word6 - from.lo + to.lo
<1> DEFINE d == to.hi - from.hi
           n == to.lo - from.lo + 1
           m == (Word6 - 1 - from.lo) + to.lo + 1
<1>1. /\ from \in [hi : 0..(Word6 - 1), lo : 0..(Word6 - 1)]
      /\ to \in [hi : 0..(Word6 - 1), lo : 0..(Word6 - 1)]
  BY DEF Fields, Address
<1>2. /\ Word6 \in Nat /\ Word6 > 1 /\ Low6 \in 1..(Word6 - 1)
  BY WordAssumption
<1>3. from.hi >= Low6 /\ to.hi >= Low6
  BY DEF Accepted, ValidAddress
<1>4. SameHalf(from, to) \/ NextHalf(from, to)
  BY DEF Accepted, InOrder
<1>5. d \in Int /\ d % Word6 = IF d >= 0 THEN d ELSE d + Word6
  <2>1. d \in Int /\ (d \in 0..(Word6 - 1) \/ d \in (-Word6)..(-1))
    BY <1>1, <1>2
  <2> HIDE DEF d
  <2> QED
    BY <2>1, <1>2, Words
<1>6. ASSUME SameHalf(from, to)
      PROVE  /\ from.hi = to.hi /\ from.lo <= to.lo /\ CountV6(from, to) = n % Word6
  <2>1. d = 0 /\ from.lo <= to.lo
    BY <1>1, <1>2, <1>5, <1>6 DEF SameHalf
  <2>2. from.hi = to.hi
    BY <2>1, <1>1
  <2> QED
    BY <2>1, <2>2, <1>6 DEF CountV6
<1>7. n \in Int /\ (from.lo <= to.lo => n \in 1..Word6)
  BY <1>1, <1>2
<1>8. from.lo <= to.lo =>
        n % Word6 \in Nat /\ n % Word6 <= n /\ (n < Word6 => n % Word6 = n)
  <2>1. n \in 1..Word6 => n \in 0..(Word6 - 1) \/ n \in Word6..(2 * Word6 - 1)
    BY <1>2
  <2> HIDE DEF n
  <2> QED
    BY <2>1, <1>7, <1>2, Words
<1>9. ASSUME ~SameHalf(from, to)
      PROVE  /\ to.hi = from.hi + 1 /\ to.lo < from.lo /\ CountV6(from, to) = m % Word6
  <2>1. d % Word6 = 1 /\ from.lo > to.lo
    BY <1>4, <1>9 DEF NextHalf
  <2>2. d = 1
    BY <2>1, <1>1, <1>2, <1>3, <1>5
  <2> QED
    BY <2>1, <2>2, <1>1, <1>9 DEF CountV6
<1>10. to.lo < from.lo => m % Word6 = m /\ m \in Nat /\ m = Word6 - from.lo + to.lo
  <2>1. to.lo < from.lo => m \in 0..(Word6 - 1) /\ m = Word6 - from.lo + to.lo
    BY <1>1, <1>2
  <2>2. m \in Int
    BY <1>1, <1>2
  <2> HIDE DEF m
  <2> QED
    BY <2>1, <2>2, <1>2, Words
<1>11. CASE SameHalf(from, to)
  BY <1>1, <1>6, <1>8, <1>11
<1>12. CASE ~SameHalf(from, to)
  BY <1>1, <1>9, <1>10, <1>12
<1> QED
  BY <1>11, <1>12
-----------------------------------------------------------------------------
\* The i-th address, for i below the count, lies in the range, and the next
\* one is what incrementing it gives; no two are the same.
LEMMA AtFacts ==
  ASSUME Fields, Accepted, NEW num \in Nat,
         num = (IF version = "v4" THEN CountV4(from, to) ELSE CountV6(from, to)),
         NEW i \in 0..(num - 1)
  PROVE  /\ At(i) \in Between(from, to)
         /\ i + 1 < num => Increment(At(i)) = At(i + 1)
         /\ \A k \in 0..(i - 1) : At(k) # At(i)
<1>1. i \in Nat /\ i < num
  OBVIOUS
<1>2. CASE version = "v4"
  <2>1. /\ from.hi = 0 /\ to.hi = 0 /\ num = to.lo - from.lo + 1
        /\ from.lo \in 0..(Word4 - 1) /\ to.lo \in 0..(Word4 - 1)
    BY <1>2, CountV4Exact
  <2>2. Word4 \in Nat /\ Word4 > 0
    BY WordAssumption
  <2>3. At(i) = [hi |-> 0, lo |-> from.lo + i] /\ At(i + 1) = [hi |-> 0, lo |-> from.lo + (i + 1)]
        /\ \A k \in 0..(i - 1) : At(k) = [hi |-> 0, lo |-> from.lo + k]
    BY <1>2, <2>1 DEF At
  <2>4. from.lo + i \in from.lo..to.lo /\ (i + 1 < num => from.lo + i + 1 \in 0..(Word4 - 1))
    BY <1>1, <2>1, <2>2
  <2>5. At(i) \in Between(from, to)
    <3>1. At(i) \in Address[version]
      BY <1>2, <2>1, <2>2, <2>3, <2>4 DEF Address
    <3> QED
      BY <3>1, <2>1, <2>3, <2>4 DEF Between, Below
  <2>6. ASSUME i + 1 < num PROVE Increment(At(i)) = At(i + 1)
    <3>1. (from.lo + i + 1) % Word4 = from.lo + i + 1
      BY <2>2, <2>4, <2>6, Words
    <3> QED
      BY <1>1, <1>2, <2>1, <2>3, <3>1 DEF Increment
  <2>7. \A k \in 0..(i - 1) : At(k) # At(i)
    BY <1>1, <2>1, <2>3
  <2> QED
    BY <2>5, <2>6, <2>7
<1>3. CASE version = "v6"
  <2>1. /\ {from.hi, to.hi, from.lo, to.lo} \subseteq 0..(Word6 - 1)
        /\ \/ from.hi = to.hi /\ from.lo <= to.lo /\ num <= to.lo - from.lo + 1
           \/ to.hi = from.hi + 1 /\ to.lo < from.lo /\ num = Word6 - from.lo + to.lo
    BY <1>3, CountV6Facts
  <2>2. Word6 \in Nat /\ Word6 > 1
    BY WordAssumption
  <2>3. \A k \in Nat : At(k) = IF from.lo + k < Word6
                               THEN [hi |-> from.hi, lo |-> from.lo + k]
                               ELSE [hi |-> from.hi + 1, lo |-> from.lo + k - Word6]
    BY <1>3 DEF At
  <2>4. At(i) \in Between(from, to)
    <3>1. CASE from.lo + i < Word6
      <4>1. At(i) = [hi |-> from.hi, lo |-> from.lo + i]
        BY <1>1, <2>3, <3>1
      <4>2. At(i) \in Address[version]
        BY <1>1, <1>3, <2>1, <2>2, <3>1, <4>1 DEF Address
      <4>3. Below(from, At(i)) /\ Below(At(i), to)
        BY <1>1, <2>1, <2>2, <3>1, <4>1 DEF Below
      <4> QED
        BY <4>2, <4>3 DEF Between
    <3>2. CASE ~(from.lo + i < Word6)
      <4>1. At(i) = [hi |-> from.hi + 1, lo |-> from.lo + i - Word6]
        BY <1>1, <2>3, <3>2
      <4>2. to.hi = from.hi + 1 /\ from.lo + i - Word6 \in 0..(to.lo)
        BY <1>1, <2>1, <2>2, <3>2
      <4>3. At(i) \in Address[version]
        BY <1>3, <2>1, <2>2, <4>1, <4>2 DEF Address
      <4>4. Below(from, At(i)) /\ Below(At(i), to)
        BY <2>1, <2>2, <4>1, <4>2 DEF Below
      <4> QED
        BY <4>3, <4>4 DEF Between
    <3> QED
      BY <3>1, <3>2
  <2>5. ASSUME i + 1 < num PROVE Increment(At(i)) = At(i + 1)
    <3>1. CASE from.lo + i + 1 < Word6
      <4>1. At(i) = [hi |-> from.hi, lo |-> from.lo + i]
            /\ At(i + 1) = [hi |-> from.hi, lo |-> from.lo + i + 1]
        BY <1>1, <2>1, <2>2, <2>3, <3>1
      <4>2. from.lo + i + 1 \in 0..(Word6 - 1) /\ from.lo + i # Word6 - 1
        BY <1>1, <2>1, <2>2, <3>1
      <4>3. (from.lo + i + 1) % Word6 = from.lo + i + 1
        BY <2>2, <4>2, Words
      <4> QED
        BY <1>3, <4>1, <4>2, <4>3 DEF Increment
    <3>2. CASE from.lo + i + 1 = Word6
      <4>1. At(i) = [hi |-> from.hi, lo |-> Word6 - 1]
            /\ At(i + 1) = [hi |-> from.hi + 1, lo |-> 0]
        BY <1>1, <2>1, <2>2, <2>3, <3>2
      <4>2. from.hi + 1 \in 0..(Word6 - 1)
        BY <1>1, <2>1, <2>2, <2>5, <3>2
      <4>3. (from.hi + 1) % Word6 = from.hi + 1 /\ (Word6 - 1 + 1) % Word6 = 0
        <5>1. Word6 - 1 + 1 \in Word6..(2 * Word6 - 1) /\ (Word6 - 1 + 1) - Word6 = 0
          BY <2>2
        <5> QED
          BY <2>2, <4>2, <5>1, Words
      <4> QED
        BY <1>3, <4>1, <4>3 DEF Increment
    <3>3. CASE from.lo + i + 1 > Word6
      <4>1. At(i) = [hi |-> from.hi + 1, lo |-> from.lo + i - Word6]
            /\ At(i + 1) = [hi |-> from.hi + 1, lo |-> from.lo + i + 1 - Word6]
        BY <1>1, <2>1, <2>2, <2>3, <3>3
      <4>2. from.lo + i - Word6 + 1 \in 0..(Word6 - 1) /\ from.lo + i - Word6 # Word6 - 1
        BY <1>1, <2>1, <2>2, <3>3
      <4>3. (from.lo + i - Word6 + 1) % Word6 = from.lo + i - Word6 + 1
        BY <2>2, <4>2, Words
      <4> QED
        BY <1>1, <1>3, <2>1, <2>2, <4>1, <4>2, <4>3 DEF Increment
    <3> QED
      BY <1>1, <2>1, <2>2, <3>1, <3>2, <3>3
  <2>6. \A k \in 0..(i - 1) : At(k) # At(i)
    <3> SUFFICES ASSUME NEW k \in 0..(i - 1) PROVE At(k) # At(i)
      OBVIOUS
    <3>1. k \in Nat /\ k < i /\ from.lo \in Nat /\ from.hi \in Nat
      BY <1>1, <2>1, <2>2
    <3> QED
      BY <1>1, <2>2, <2>3, <3>1
  <2> QED
    BY <2>4, <2>5, <2>6
<1> QED
  BY <1>2, <1>3 DEF Fields
-----------------------------------------------------------------------------
LEMMA AtZero == ASSUME Fields PROVE At(0) = from
<1>1. WordAssumption
  BY WordAssumption
<1>2. CASE version = "v4"
  <2>1. from \in [hi : {0}, lo : 0..(Word4 - 1)]
    BY <1>2 DEF Fields, Address
  <2>2. At(0) = [hi |-> from.hi, lo |-> from.lo]
    BY <1>1, <1>2, <2>1 DEF At, WordAssumption
  <2> QED
    BY <2>1, <2>2
<1>3. CASE version = "v6"
  <2>1. from \in [hi : 0..(Word6 - 1), lo : 0..(Word6 - 1)]
    BY <1>3 DEF Fields, Address
  <2>2. At(0) = [hi |-> from.hi, lo |-> from.lo]
    BY <1>1, <1>3, <2>1 DEF At, WordAssumption
  <2> QED
    BY <2>1, <2>2
<1> QED
  BY <1>2, <1>3 DEF Fields

LEMMA CountNat ==
  ASSUME Fields, Accepted
  PROVE  (IF version = "v4" THEN CountV4(from, to) ELSE CountV6(from, to)) \in Nat
<1>1. CASE version = "v4"
  BY <1>1, CountV4Exact
<1>2. CASE version = "v6"
  BY <1>2, CountV6Facts
<1> QED
  BY <1>1, <1>2 DEF Fields

LEMMA InitInv == ASSUME Init PROVE IInv
<1>1. Fields
  BY DEF Init, Fields
<1>2. cur_address = At(0)
  BY <1>1, AtZero DEF Init
<1>3. probed = {At(i) : i \in 0..(j - 1)} /\ Cardinality(probed) = j /\ IsFiniteSet(probed)
  <2>1. 0..(0 - 1) = {}
    OBVIOUS
  <2> QED
    BY <2>1, FS_EmptySet DEF Init
<1> QED
  BY <1>1, <1>2, <1>3 DEF Init, IInv, Scanned

\* The fields of the tab and so the addresses of the range stay as they are.
LEMMA AtKept ==
  ASSUME UNCHANGED <<version, from, to>>
  PROVE  /\ \A i : At(i)' = At(i)
         /\ Accepted' = Accepted
         /\ CountV4(from, to)' = CountV4(from, to) /\ CountV6(from, to)' = CountV6(from, to)
BY DEF At, Accepted, ValidAddress, InOrder, SameHalf, NextHalf, CountV4, CountV6

LEMMA StepInv == ASSUME IInv, [Next]_vars PROVE IInv'
<1> USE DEF IInv
<1>1. CASE Discover
  <2>1. Accepted /\ num_addresses' \in Nat
        /\ num_addresses' = IF version = "v4" THEN CountV4(from, to) ELSE CountV6(from, to)
    BY <1>1, CountNat DEF Discover, Accepted
  <2>2. Fields' /\ UNCHANGED <<version, from, to>>
    BY <1>1 DEF Discover, Fields
  <2>3. /\ j' = j /\ j = 0 /\ probed' = probed /\ cur_address' = cur_address
        /\ cur_address = At(0) /\ pc' = "probe"
    BY <1>1 DEF Discover, Scanned
  <2>4. Scanned'
    BY <2>1, <2>2, <2>3, AtKept DEF Scanned
  <2> QED
    BY <2>2, <2>4
<1>2. CASE Refuses
  <2>1. /\ UNCHANGED <<version, from, to, j, num_addresses, probed, cur_address>>
        /\ pc' = "refused" /\ pc = "ask"
    BY <1>2 DEF Refuses
  <2>2. Fields'
    BY <2>1 DEF Fields
  <2>3. Scanned'
    BY <2>1, AtKept DEF Scanned
  <2> QED
    BY <2>2, <2>3
<1>3. CASE Probe
  <2>1. /\ pc = "probe" /\ pc' = "probe" /\ j < num_addresses /\ j' = j + 1
        /\ UNCHANGED <<version, from, to, num_addresses>>
        /\ probed' = probed \cup {At(j)} /\ cur_address' = Increment(At(j))
    BY <1>3 DEF Probe, Scanned
  <2>2. Fields'
    BY <2>1 DEF Fields
  <2>3. j \in Nat /\ num_addresses \in Nat /\ j \in 0..(num_addresses - 1)
    BY <2>1 DEF Scanned
  <2>4. /\ j + 1 < num_addresses => Increment(At(j)) = At(j + 1)
        /\ \A k \in 0..(j - 1) : At(k) # At(j)
    BY <2>1, <2>3, AtFacts DEF Scanned
  <2>5. probed' = {At(i) : i \in 0..(j' - 1)}
    <3>1. 0..(j' - 1) = 0..(j - 1) \cup {j}
      BY <2>1, <2>3
    <3> QED
      BY <2>1, <3>1 DEF Scanned
  <2>6. At(j) \notin probed
    BY <2>4 DEF Scanned
  <2>7. Cardinality(probed') = j' /\ IsFiniteSet(probed')
    BY <2>1, <2>3, <2>6, FS_AddElement DEF Scanned
  <2>8. probed' = {At(i)' : i \in 0..(j' - 1)}
    BY <2>1, <2>5, AtKept
  <2>9. Scanned'
    BY <2>1, <2>3, <2>4, <2>7, <2>8, AtKept DEF Scanned
  <2> QED
    BY <2>2, <2>9
<1>4. CASE Waits
  <2>1. /\ UNCHANGED <<version, from, to, j, num_addresses, probed, cur_address>>
        /\ pc' = "wait" /\ pc = "probe" /\ j = num_addresses
    BY <1>4 DEF Waits
  <2>2. Fields'
    BY <2>1 DEF Fields
  <2>3. Scanned'
    BY <2>1, AtKept DEF Scanned
  <2> QED
    BY <2>2, <2>3
<1>5. CASE UNCHANGED vars
  <2>1. UNCHANGED <<version, from, to, j, num_addresses, probed, cur_address, pc>>
    BY <1>5 DEF vars
  <2> QED
    BY <2>1, AtKept DEF Fields, Scanned
<1> QED
  BY <1>1, <1>2, <1>3, <1>4, <1>5 DEF Next

LEMMA Invariance == Spec => []IInv
BY InitInv, StepInv, PTL DEF Spec
-----------------------------------------------------------------------------
\* For words of any size a scan probes only addresses of the range that was
\* typed, and none of them twice.
THEOREM OnlyTheRange == Spec => []ProbesInside
<1>1. IInv => ProbesInside
  <2> SUFFICES ASSUME IInv PROVE ProbesInside
    OBVIOUS
  <2>1. CASE pc \in {"ask", "refused"}
    <3>1. j = 0 /\ 0..(0 - 1) = {}
      BY <2>1 DEF IInv, Scanned
    <3> QED
      BY <3>1 DEF IInv, Scanned, ProbesInside
  <2>2. CASE pc \in {"probe", "wait"}
    <3>1. ASSUME NEW i \in 0..(j - 1) PROVE At(i) \in Between(from, to)
      <4>1. j \in Nat /\ num_addresses \in Nat /\ i \in 0..(num_addresses - 1)
        BY <3>1 DEF IInv, Scanned
      <4> QED
        BY <2>2, <4>1, AtFacts DEF IInv, Scanned
    <3> QED
      BY <3>1 DEF IInv, Scanned, ProbesInside
  <2> QED
    BY <2>1, <2>2 DEF IInv, Fields
<1> QED
  BY <1>1, Invariance, PTL

\* A scan that comes to its end has probed every address of the range, for
\* IPv4 and for an IPv6 range that is smaller than one high half.
THEOREM AllOfTheRange == Spec => []WholeRange
<1>1. IInv => WholeRange
  <2> SUFFICES ASSUME IInv, pc = "wait",
                      version = "v4" \/ (from.hi = to.hi /\ to.lo - from.lo + 1 < Word6)
               PROVE  probed = Between(from, to)
    BY DEF WholeRange
  <2>1. Fields /\ Accepted /\ j = num_addresses
        /\ num_addresses = IF version = "v4" THEN CountV4(from, to) ELSE CountV6(from, to)
    BY DEF IInv, Scanned
  <2>2. Word4 \in Nat /\ Word4 > 0 /\ Word6 \in Nat /\ Word6 > 1
    BY WordAssumption
  <2>3. /\ from.hi = to.hi /\ from.hi \in Nat /\ num_addresses = to.lo - from.lo + 1
        /\ from.lo \in Nat /\ to.lo \in Nat /\ from.lo <= to.lo
        /\ version = "v6" => to.lo < Word6
    <3>1. CASE version = "v4"
      BY <2>1, <2>2, <3>1, CountV4Exact
    <3>2. CASE version = "v6"
      BY <2>1, <2>2, <3>2, CountV6Facts
    <3> QED
      BY <2>1, <3>1, <3>2 DEF Fields
  <2>4. probed \subseteq Between(from, to)
    <3>1. ASSUME NEW i \in 0..(j - 1) PROVE At(i) \in Between(from, to)
      <4>1. num_addresses \in Nat /\ i \in 0..(num_addresses - 1)
        BY <2>1, <3>1 DEF IInv, Scanned
      <4> QED
        BY <2>1, <4>1, AtFacts
    <3> QED
      BY <3>1 DEF IInv, Scanned
  <2>5. ASSUME NEW x \in Between(from, to) PROVE x \in probed
    <3>1. x = [hi |-> x.hi, lo |-> x.lo] /\ x.hi \in Nat /\ x.lo \in Nat
      <4>1. x \in Address[version] /\ (version = "v4" \/ version = "v6")
        BY <2>1, <2>5 DEF Between, Fields
      <4>2. CASE version = "v4"
        BY <2>2, <4>1, <4>2 DEF Address
      <4>3. CASE version = "v6"
        BY <2>2, <4>1, <4>3 DEF Address
      <4> QED
        BY <4>1, <4>2, <4>3
    <3>2. x.hi = from.hi /\ from.lo <= x.lo /\ x.lo <= to.lo
      BY <2>3, <2>5, <3>1 DEF Between, Below
    <3>3. x.lo - from.lo \in 0..(j - 1)
      BY <2>1, <2>3, <3>1, <3>2
    <3>4. At(x.lo - from.lo) = x
      <4>1. from.lo + (x.lo - from.lo) = x.lo
        BY <2>3, <3>1
      <4>2. version = "v4" \/ from.lo + (x.lo - from.lo) < Word6
        BY <2>1, <2>2, <2>3, <3>1, <3>2, <4>1 DEF Fields
      <4> QED
        BY <3>1, <3>2, <4>1, <4>2 DEF At
    <3> QED
      BY <3>3, <3>4 DEF IInv, Scanned
  <2> QED
    BY <2>4, <2>5
<1> QED
  BY <1>1, Invariance, PTL
=============================================================================
