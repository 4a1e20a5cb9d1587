---------------------------- MODULE AddressRange ----------------------------
(***************************************************************************)
(* The address arithmetic of Discovery: how Discover counts the addresses  *)
(* from "From" to "To" and how DiscoverySnmp::discover steps through them. *)
(* An address has two halves of one machine word each; an IPv4 address     *)
(* uses the low one only.  Words are unsigned and wrap.                    *)
(***************************************************************************)
EXTENDS Integers, FiniteSets

CONSTANTS Word4,   \* number of values of unsigned int (2^32)
          Word6,   \* number of values of unsigned long long (2^64)
          Low4,    \* IPv4 addresses below this one have first byte 0
          Low6     \* IPv6 high halves below this one have first byte 0

ASSUME WordAssumption ==
  /\ Word4 \in Nat /\ Low4 \in 1..(Word4 - 1)
  /\ Word6 \in Nat /\ Low6 \in 1..(Word6 - 1)

VARIABLES version,        \* get_ip_version() of both addresses
          from, to,       \* the fields of the discovery tab
          num_addresses,  \* DiscoveryThread::num_addresses
          cur_address,    \* discover's cur_address
          j,              \* discover's loop counter
          probed,         \* history: the addresses a probe was sent to
          pc

vars == <<version, from, to, num_addresses, cur_address, j, probed, pc>>

Address == [v4 |-> [hi : {0}, lo : 0..(Word4 - 1)],
            v6 |-> [hi : 0..(Word6 - 1), lo : 0..(Word6 - 1)]]

\* The order of addresses, as the user reads them.
Below(a, b) == a.hi < b.hi \/ (a.hi = b.hi /\ a.lo <= b.lo)
Between(a, b) == {x \in Address[version] : Below(a, x) /\ Below(x, b)}
-----------------------------------------------------------------------------
\* valid(), and a first byte other than 0.
ValidAddress(a) == IF version = "v4" THEN a.lo >= Low4 ELSE a.hi >= Low6

\* Mutant of CountV4: the two ends are subtracted without the last address.
CountV4Short(a, b) == (b.lo - a.lo) % Word4

\* `to - from + 1' and its two IPv6 variants; the result is a word.
CountV4(a, b) == (b.lo - a.lo + 1) % Word4
SameHalf(a, b) == (b.hi - a.hi) % Word6 = 0 /\ a.lo <= b.lo
NextHalf(a, b) == (b.hi - a.hi) % Word6 = 1 /\ a.lo > b.lo
CountV6(a, b) ==
  IF SameHalf(a, b) THEN (b.lo - a.lo + 1) % Word6
                    ELSE ((Word6 - 1 - a.lo) + b.lo + 1) % Word6

InOrder(a, b) == IF version = "v4" THEN a.lo <= b.lo
                                   ELSE SameHalf(a, b) \/ NextHalf(a, b)

\* Mutant of Discover: the first byte of the addresses is not looked at.
DiscoverAnyAddress ==
  /\ pc = "ask"
  /\ InOrder(from, to)
  /\ num_addresses' = IF version = "v4" THEN CountV4(from, to) ELSE CountV6(from, to)
  /\ pc' = "probe"
  /\ UNCHANGED <<version, from, to, cur_address, j, probed>>

\* Discover: the range is accepted, counted and handed to the thread.
Discover ==
  /\ pc = "ask"
  /\ ValidAddress(from) /\ ValidAddress(to)
  /\ InOrder(from, to)
  /\ num_addresses' = IF version = "v4" THEN CountV4(from, to) ELSE CountV6(from, to)
  /\ pc' = "probe"
  /\ UNCHANGED <<version, from, to, cur_address, j, probed>>

\* Discover: a message box and nothing else.
Refuses ==
  /\ pc = "ask"
  /\ ~(ValidAddress(from) /\ ValidAddress(to) /\ InOrder(from, to))
  /\ pc' = "refused"
  /\ UNCHANGED <<version, from, to, num_addresses, cur_address, j, probed>>

\* "Increment the address according to transport protocol version".
Increment(a) ==
  IF version = "v4"
  THEN [a EXCEPT !.lo = (@ + 1) % Word4]
  ELSE [hi |-> IF a.lo = Word6 - 1 THEN (a.hi + 1) % Word6 ELSE a.hi,
        lo |-> (a.lo + 1) % Word6]

Probe ==
  /\ pc = "probe"
  /\ j < num_addresses
  /\ probed' = probed \cup {cur_address}
  /\ cur_address' = Increment(cur_address)
  /\ j' = j + 1
  /\ UNCHANGED <<version, from, to, num_addresses, pc>>

Waits ==
  /\ pc = "probe"
  /\ j = num_addresses
  /\ pc' = "wait"
  /\ UNCHANGED <<version, from, to, num_addresses, cur_address, j, probed>>

Init ==
  /\ version \in {"v4", "v6"}
  /\ from \in Address[version] /\ to \in Address[version]
  /\ cur_address = from
  /\ num_addresses = 0 /\ j = 0
  /\ probed = {}
  /\ pc = "ask"

Next == Discover \/ Refuses \/ Probe \/ Waits

Spec == Init /\ [][Next]_vars
-----------------------------------------------------------------------------
\* Discover and discover: whatever was typed, only addresses from From to To
\* are probed, each of them once.  (An IPv6 range whose high halves wrap
\* around passes the test on their difference; the test on the first byte is
\* what refuses it.)
ProbesInside ==
  /\ probed \subseteq Between(from, to)
  /\ Cardinality(probed) = j

\* Every address of the range is probed, for IPv4 and for an IPv6 range
\* within one high half and smaller than it.
WholeRange ==
  /\ pc = "wait"
  /\ version = "v4" \/ (from.hi = to.hi /\ to.lo - from.lo + 1 < Word6)
  => probed = Between(from, to)
=============================================================================
