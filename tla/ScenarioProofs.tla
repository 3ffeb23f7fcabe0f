--------------------------- MODULE ScenarioProofs ---------------------------
(***************************************************************************)
(* Theorems about the scenario language, about the manifests an author may *)
(* write in it and about the catalog that is built from them.              *)
(***************************************************************************)
EXTENDS ScenarioManifest, ScenarioCatalog, SequenceTheorems,
        WellFoundedInduction, TLAPS

-----------------------------------------------------------------------------
(* Blocks of addresses *)

Octets == [1..4 -> 0..255]
Powers == {1, 2, 4, 8, 16, 32, 64, 128, 256}

\* The powers of two that an octet can meet.
LEMMA PowersOfTwo ==
    /\ 2 ^ 0 = 1 /\ 2 ^ 1 = 2 /\ 2 ^ 2 = 4 /\ 2 ^ 3 = 8 /\ 2 ^ 4 = 16
    /\ 2 ^ 5 = 32 /\ 2 ^ 6 = 64 /\ 2 ^ 7 = 128 /\ 2 ^ 8 = 256
OBVIOUS

\* An octet of a block takes a power of two of values.
LEMMA SpreadIsPower ==
    ASSUME NEW p \in Nat, NEW i \in 1..4
    PROVE  Spread(p, i) \in Powers
<1> DEFINE free == 8 * i - p
           k == IF free < 0 THEN 0 ELSE IF free > 8 THEN 8 ELSE free
<1>1. k \in 0..8
  OBVIOUS
<1>2. \A n \in 0..8 : 2 ^ n \in Powers
  <2> SUFFICES ASSUME NEW n \in 0..8 PROVE 2 ^ n \in Powers
    OBVIOUS
  <2>1. n \in {0, 1, 2, 3, 4, 5, 6, 7, 8}
    OBVIOUS
  <2> DEFINE power(x) == 2 ^ x
  <2>2. /\ power(0) = 1 /\ power(1) = 2 /\ power(2) = 4 /\ power(3) = 8 /\ power(4) = 16
        /\ power(5) = 32 /\ power(6) = 64 /\ power(7) = 128 /\ power(8) = 256
    BY PowersOfTwo
  <2> HIDE DEF power
  <2>3. power(n) \in Powers
    BY <2>1, <2>2 DEF Powers
  <2> QED
    BY <2>3 DEF power
<1> HIDE DEF k
<1>3. 2 ^ k \in Powers
  BY <1>1, <1>2
<1> QED
  BY <1>3 DEF Spread, k

\* An address is one value in each octet.
LEMMA SpreadOfNone ==
    ASSUME NEW i \in 1..4
    PROVE  Spread(32, i) = 1
<1>1. 8 * i - 32 <= 0
  OBVIOUS
<1>2. (IF 8 * i - 32 < 0 THEN 0 ELSE IF 8 * i - 32 > 8 THEN 8 ELSE 8 * i - 32) = 0
  BY <1>1
<1>3. 2 ^ 0 = 1
  OBVIOUS
<1> QED
  BY <1>2, <1>3 DEF Spread

\* The fewer bits are fixed, the more values an octet takes.
LEMMA SpreadGrows ==
    ASSUME NEW p \in Nat, NEW q \in Nat, q <= p, NEW i \in 1..4
    PROVE  Spread(p, i) <= Spread(q, i)
<1> DEFINE clamp(n) == IF n < 0 THEN 0 ELSE IF n > 8 THEN 8 ELSE n
<1>1. clamp(8 * i - p) \in 0..8 /\ clamp(8 * i - q) \in 0..8
  OBVIOUS
<1>2. clamp(8 * i - p) <= clamp(8 * i - q)
  OBVIOUS
<1>3. \A m, n \in 0..8 : m <= n => 2 ^ m <= 2 ^ n
  <2> SUFFICES ASSUME NEW m \in 0..8, NEW n \in 0..8, m <= n PROVE 2 ^ m <= 2 ^ n
    OBVIOUS
  <2> DEFINE power(x) == 2 ^ x
  <2>1. /\ power(0) = 1 /\ power(1) = 2 /\ power(2) = 4 /\ power(3) = 8 /\ power(4) = 16
        /\ power(5) = 32 /\ power(6) = 64 /\ power(7) = 128 /\ power(8) = 256
    BY PowersOfTwo
  <2> HIDE DEF power
  <2>2. m \in {0, 1, 2, 3, 4, 5, 6, 7, 8} /\ n \in {0, 1, 2, 3, 4, 5, 6, 7, 8}
    OBVIOUS
  <2>4. power(m) <= power(n)
    BY <2>1, <2>2
  <2> QED
    BY <2>4 DEF power
<1>4. Spread(p, i) = 2 ^ clamp(8 * i - p) /\ Spread(q, i) = 2 ^ clamp(8 * i - q)
  BY DEF Spread
<1> HIDE DEF clamp
<1> QED
  BY <1>1, <1>2, <1>3, <1>4

\* After the first octet that takes more than one value all are free.
LEMMA SpreadShape ==
    ASSUME NEW p \in Nat, NEW i \in 1..4, NEW j \in 1..4, i < j, Spread(p, i) # 1
    PROVE  Spread(p, j) = 256
<1> DEFINE clamp(n) == IF n < 0 THEN 0 ELSE IF n > 8 THEN 8 ELSE n
<1>1. Spread(p, i) = 2 ^ clamp(8 * i - p) /\ Spread(p, j) = 2 ^ clamp(8 * j - p)
  BY DEF Spread
<1>2. 2 ^ 0 = 1 /\ 2 ^ 8 = 256
  OBVIOUS
<1>3. clamp(8 * i - p) # 0
  BY <1>1, <1>2
<1>4. 8 * i - p > 0
  BY <1>3
<1>5. clamp(8 * j - p) = 8
  BY <1>4
<1> HIDE DEF clamp
<1>6. Spread(p, j) = 2 ^ 8
  BY <1>1, <1>5
<1> QED
  BY <1>2, <1>6

\* An octet under the mask that leaves s of its values open.
Masked(x, s) == x - (x % s)

\* What an octet loses under the mask.
LEMMA MaskedOctet ==
    ASSUME NEW x \in 0..255, NEW s \in Powers
    PROVE  /\ Masked(x, s) \in 0..255
           /\ Masked(x, s) <= x /\ x <= Masked(x, s) + s - 1
           /\ Masked(x, s) + s - 1 \in 0..255
           /\ s = 1 => Masked(x, s) = x
           /\ s = 256 => Masked(x, s) = 0
BY SMTT(40) DEF Powers, Masked

\* Two octets are alike under a mask when one lies in the other's range.
LEMMA SameMaskedOctet ==
    ASSUME NEW x \in 0..255, NEW y \in 0..255, NEW s \in Powers
    PROVE  Masked(y, s) = Masked(x, s) <=>
              Masked(x, s) <= y /\ y <= Masked(x, s) + s - 1
BY SMTT(40) DEF Powers, Masked

\* A wider mask over a narrower one is the wider one.
LEMMA MaskedTwice ==
    ASSUME NEW x \in 0..255, NEW s \in Powers, NEW t \in Powers, s <= t
    PROVE  Masked(Masked(x, s), t) = Masked(x, t)
BY SMTT(40) DEF Powers, Masked

\* The octets of an address.
LEMMA FourOctets ==
    ASSUME NEW a \in Octets
    PROVE  /\ a[1] \in 0..255 /\ a[2] \in 0..255 /\ a[3] \in 0..255 /\ a[4] \in 0..255
           /\ a[1] \in Int /\ a[2] \in Int /\ a[3] \in Int /\ a[4] \in Int
BY DEF Octets

\* An octet of the network.
LEMMA NetworkAt ==
    ASSUME NEW a, NEW p, NEW i \in 1..4
    PROVE  Network(a, p)[i] = Masked(a[i], Spread(p, i))
BY DEF Network, Masked

\* Its operands, too, are as they should be.
LEMMA NetworkOctet ==
    ASSUME NEW a \in Octets, NEW p \in Nat, NEW i \in 1..4
    PROVE  /\ Network(a, p)[i] = Masked(a[i], Spread(p, i))
           /\ a[i] \in 0..255 /\ Spread(p, i) \in Powers
<1>1. a[i] \in 0..255
  BY DEF Octets
<1>2. Spread(p, i) \in Powers
  BY SpreadIsPower
<1>3. Network(a, p)[i] = Masked(a[i], Spread(p, i))
  BY NetworkAt
<1> QED
  BY <1>1, <1>2, <1>3

\* It is an octet, and so is the last one of its range.
LEMMA NetworkRange ==
    ASSUME NEW a \in Octets, NEW p \in Nat, NEW i \in 1..4
    PROVE  Network(a, p)[i] \in 0..255 /\ Network(a, p)[i] + Spread(p, i) - 1 \in 0..255
<1> DEFINE x == a[i]
           s == Spread(p, i)
<1>1. x \in 0..255 /\ s \in Powers
  BY NetworkOctet
<1>2. Network(a, p)[i] = Masked(x, s)
  BY NetworkOctet
<1> HIDE DEF x, s
<1>3. Masked(x, s) \in 0..255 /\ Masked(x, s) + s - 1 \in 0..255
  BY <1>1, MaskedOctet
<1>4. Network(a, p)[i] \in 0..255 /\ Network(a, p)[i] + s - 1 \in 0..255
  BY <1>2, <1>3
<1> QED
  BY <1>4 DEF s

\* The network of an address is an address.
LEMMA NetworkIsAddress ==
    ASSUME NEW a \in Octets, NEW p \in Nat
    PROVE  Network(a, p) \in Octets
<1>1. \A i \in 1..4 : Network(a, p)[i] \in 0..255
  BY NetworkRange
<1>2. Network(a, p) = [i \in 1..4 |-> Network(a, p)[i]]
  BY DEF Network
<1> QED
  BY <1>1, <1>2 DEF Octets

\* Masking with fewer bits afterwards forgets the first mask.
LEMMA NetworkTwice ==
    ASSUME NEW a \in Octets, NEW p \in Nat, NEW q \in Nat, q <= p
    PROVE  Network(Network(a, p), q) = Network(a, q)
<1>1. ASSUME NEW i \in 1..4
      PROVE  Network(Network(a, p), q)[i] = Network(a, q)[i]
  <2>1. Spread(p, i) <= Spread(q, i)
    BY SpreadGrows
  <2>2. /\ a[i] \in 0..255 /\ Spread(p, i) \in Powers /\ Spread(q, i) \in Powers
        /\ Network(a, p)[i] = Masked(a[i], Spread(p, i))
        /\ Network(a, q)[i] = Masked(a[i], Spread(q, i))
    <3>1. a[i] \in 0..255
      BY DEF Octets
    <3>2. Spread(p, i) \in Powers /\ Spread(q, i) \in Powers
      BY SpreadIsPower
    <3>3. Network(a, p)[i] = Masked(a[i], Spread(p, i))
      BY NetworkAt
    <3>4. Network(a, q)[i] = Masked(a[i], Spread(q, i))
      BY NetworkAt
    <3> QED
      BY <3>1, <3>2, <3>3, <3>4
  <2> DEFINE b == Network(a, p)
  <2>3. b \in Octets
    BY NetworkIsAddress
  <2>4. b[i] = Masked(a[i], Spread(p, i))
    BY <2>2
  <2> HIDE DEF b
  <2>5. Network(b, q)[i] = Masked(b[i], Spread(q, i))
    BY <2>3, NetworkOctet
  <2> DEFINE x == a[i]
             s == Spread(p, i)
             t == Spread(q, i)
  <2>6. x \in 0..255 /\ s \in Powers /\ t \in Powers /\ s <= t
    BY <2>1, <2>2
  <2>7. b[i] = Masked(x, s) /\ Network(a, q)[i] = Masked(x, t)
        /\ Network(b, q)[i] = Masked(b[i], t)
    BY <2>2, <2>4, <2>5
  <2> HIDE DEF x, s, t
  <2>8. Masked(Masked(x, s), t) = Masked(x, t)
    BY <2>6, MaskedTwice
  <2>9. Network(b, q)[i] = Network(a, q)[i]
    BY <2>7, <2>8
  <2> QED
    BY <2>9 DEF b
<1>2. Network(Network(a, p), q) \in Octets /\ Network(a, q) \in Octets
  BY NetworkIsAddress
<1> QED
  BY <1>1, <1>2 DEF Octets

\* An address of 32 bits is a block of its own.
LEMMA SingleAddress ==
    ASSUME NEW a \in Octets
    PROVE  Network(a, 32) = a
<1>1. ASSUME NEW i \in 1..4 PROVE Network(a, 32)[i] = a[i]
  <2>1. Spread(32, i) = 1
    BY SpreadOfNone
  <2>2. 32 \in Nat /\ 1 \in Powers
    BY DEF Powers
  <2>3. Network(a, 32)[i] = Masked(a[i], 1) /\ a[i] \in 0..255
    BY <2>1, <2>2, NetworkOctet
  <2> DEFINE x == a[i]
  <2>4. x \in 0..255 /\ Network(a, 32)[i] = Masked(x, 1)
    BY <2>3
  <2> HIDE DEF x
  <2>5. Network(a, 32)[i] = x
    BY <2>2, <2>4, MaskedOctet
  <2> QED
    BY <2>5 DEF x
<1>2. Network(a, 32) \in Octets
  BY NetworkIsAddress
<1> QED
  BY <1>1, <1>2 DEF Octets

\* The last address of a block.
LEMMA LastOctets ==
    ASSUME NEW cidr, cidr.octets \in Octets, cidr.prefix \in Nat
    PROVE  /\ First(cidr) \in Octets /\ Last(cidr) \in Octets
           /\ First(cidr) = Network(cidr.octets, cidr.prefix)
           /\ \A i \in 1..4 : Last(cidr)[i] = First(cidr)[i] + Spread(cidr.prefix, i) - 1
<1>1. First(cidr) \in Octets /\ First(cidr) = Network(cidr.octets, cidr.prefix)
  BY NetworkIsAddress DEF First
<1>2. \A i \in 1..4 : Last(cidr)[i] = First(cidr)[i] + Spread(cidr.prefix, i) - 1
  BY DEF Last
<1>3. ASSUME NEW i \in 1..4
      PROVE  First(cidr)[i] + Spread(cidr.prefix, i) - 1 \in 0..255
  BY <1>1, NetworkRange
<1>4. Last(cidr) \in Octets
  BY <1>3 DEF Last, Octets
<1> QED
  BY <1>1, <1>2, <1>4

\* The order of addresses, octet after octet.
LEMMA AtMostIs ==
    ASSUME NEW a \in Octets, NEW b \in Octets
    PROVE  AtMost(a, b) <=>
              \/ a[1] < b[1]
              \/ a[1] = b[1] /\ a[2] < b[2]
              \/ a[1] = b[1] /\ a[2] = b[2] /\ a[3] < b[3]
              \/ a[1] = b[1] /\ a[2] = b[2] /\ a[3] = b[3] /\ a[4] <= b[4]
<1>1. \A i \in 1..4 : a[i] \in 0..255 /\ b[i] \in 0..255
  BY DEF Octets
<1>2. a = b <=> a[1] = b[1] /\ a[2] = b[2] /\ a[3] = b[3] /\ a[4] = b[4]
  <2>1. a = b <=> \A i \in 1..4 : a[i] = b[i]
    BY DEF Octets
  <2>2. \A i \in 1..4 : i \in {1, 2, 3, 4}
    OBVIOUS
  <2> QED
    BY <2>1, <2>2
<1> DEFINE a1 == a[1]  a2 == a[2]  a3 == a[3]  a4 == a[4]
           b1 == b[1]  b2 == b[2]  b3 == b[3]  b4 == b[4]
<1>4. /\ a1 \in Int /\ a2 \in Int /\ a3 \in Int /\ a4 \in Int
      /\ b1 \in Int /\ b2 \in Int /\ b3 \in Int /\ b4 \in Int
  <2>1. a1 \in Int /\ a2 \in Int /\ a3 \in Int /\ a4 \in Int
    BY FourOctets
  <2>2. b1 \in Int /\ b2 \in Int /\ b3 \in Int /\ b4 \in Int
    BY FourOctets
  <2> QED
    BY <2>1, <2>2
<1>3. (\E i \in 1..4 : a[i] < b[i] /\ \A j \in 1..(i - 1) : a[j] = b[j]) <=>
         \/ a[1] < b[1]
         \/ a[2] < b[2] /\ a[1] = b[1]
         \/ a[3] < b[3] /\ a[1] = b[1] /\ a[2] = b[2]
         \/ a[4] < b[4] /\ a[1] = b[1] /\ a[2] = b[2] /\ a[3] = b[3]
  OBVIOUS
<1>5. AtMost(a, b) <=>
         \/ a1 = b1 /\ a2 = b2 /\ a3 = b3 /\ a4 = b4
         \/ a1 < b1
         \/ a2 < b2 /\ a1 = b1
         \/ a3 < b3 /\ a1 = b1 /\ a2 = b2
         \/ a4 < b4 /\ a1 = b1 /\ a2 = b2 /\ a3 = b3
  BY <1>2, <1>3 DEF AtMost
<1> HIDE DEF a1, a2, a3, a4, b1, b2, b3, b4
<1>6. AtMost(a, b) <=>
         \/ a1 < b1
         \/ a1 = b1 /\ a2 < b2
         \/ a1 = b1 /\ a2 = b2 /\ a3 < b3
         \/ a1 = b1 /\ a2 = b2 /\ a3 = b3 /\ a4 <= b4
  BY <1>4, <1>5
<1> QED
  BY <1>6 DEF a1, a2, a3, a4, b1, b2, b3, b4

\* An address is in a block when it is within it in every octet.
LEMMA InBlock ==
    ASSUME NEW cidr, cidr.octets \in Octets, cidr.prefix \in Nat, NEW dst \in Octets
    PROVE  Network(dst, cidr.prefix) = First(cidr) <=>
              \A i \in 1..4 : First(cidr)[i] <= dst[i] /\ dst[i] <= Last(cidr)[i]
<1> DEFINE p == cidr.prefix
           a == cidr.octets
<1>1. p \in Nat /\ a \in Octets
  OBVIOUS
<1>2. First(cidr) = Network(a, p)
  BY DEF First
<1>3. \A i \in 1..4 : Last(cidr)[i] = Network(a, p)[i] + Spread(p, i) - 1
  BY <1>2, LastOctets
<1> HIDE DEF p, a
<1>4. Network(dst, p) = Network(a, p) <=> \A i \in 1..4 : Network(dst, p)[i] = Network(a, p)[i]
  <2>1. Network(dst, p) \in Octets /\ Network(a, p) \in Octets
    BY <1>1, NetworkIsAddress
  <2> QED
    BY <2>1 DEF Octets
<1>5. ASSUME NEW i \in 1..4
      PROVE  Network(dst, p)[i] = Network(a, p)[i] <=>
                Network(a, p)[i] <= dst[i] /\ dst[i] <= Network(a, p)[i] + Spread(p, i) - 1
  <2> DEFINE x == a[i]
             y == dst[i]
             s == Spread(p, i)
  <2>1. x \in 0..255 /\ s \in Powers /\ Network(a, p)[i] = Masked(x, s)
    <3>1. a[i] \in 0..255
      BY <1>1 DEF Octets
    <3>2. Spread(p, i) \in Powers
      BY <1>1, SpreadIsPower
    <3>3. Network(a, p)[i] = Masked(a[i], Spread(p, i))
      BY NetworkAt
    <3> QED
      BY <3>1, <3>2, <3>3
  <2>2. y \in 0..255 /\ Network(dst, p)[i] = Masked(y, s)
    <3>1. dst[i] \in 0..255
      BY DEF Octets
    <3>2. Network(dst, p)[i] = Masked(dst[i], Spread(p, i))
      BY NetworkAt
    <3> QED
      BY <3>1, <3>2
  <2> HIDE DEF x, y, s
  <2>3. Masked(y, s) = Masked(x, s) <=> Masked(x, s) <= y /\ y <= Masked(x, s) + s - 1
    BY <2>1, <2>2, SameMaskedOctet
  <2>4. Network(dst, p)[i] = Network(a, p)[i] <=>
           Network(a, p)[i] <= y /\ y <= Network(a, p)[i] + s - 1
    BY <2>1, <2>2, <2>3
  <2> QED
    BY <2>4 DEF y, s
<1>6. Network(dst, p) = Network(a, p) <=>
         \A i \in 1..4 : Network(a, p)[i] <= dst[i] /\ dst[i] <= Last(cidr)[i]
  BY <1>3, <1>4, <1>5
<1> QED
  BY <1>2, <1>6 DEF p

\* What an octet that takes one value, or all of them, leaves open.
LEMMA WholeOctet ==
    ASSUME NEW a \in Octets, NEW p \in Nat, NEW i \in 1..4, Spread(p, i) = 256
    PROVE  Network(a, p)[i] = 0
<1> DEFINE x == a[i]
<1>1. x \in 0..255 /\ Network(a, p)[i] = Masked(x, 256)
  <2>1. a[i] \in 0..255
    BY DEF Octets
  <2>2. Network(a, p)[i] = Masked(a[i], Spread(p, i))
    BY NetworkAt
  <2> QED
    BY <2>1, <2>2
<1> HIDE DEF x
<1>2. Masked(x, 256) = 0
  <2>1. \A y \in 0..255 : \A s \in Powers : s = 256 => Masked(y, s) = 0
    BY MaskedOctet
  <2>2. 256 \in Powers
    BY DEF Powers
  <2> QED
    BY <1>1, <2>1, <2>2
<1> QED
  BY <1>1, <1>2

\* The addresses of a block are those from its first to its last.
LEMMA BlockIsInterval ==
    ASSUME NEW cidr, cidr.octets \in Octets, cidr.prefix \in Nat, NEW dst \in Octets
    PROVE  Network(dst, cidr.prefix) = First(cidr) <=>
              AtMost(First(cidr), dst) /\ AtMost(dst, Last(cidr))
<1> DEFINE p == cidr.prefix
           f == First(cidr)
           l == Last(cidr)
<1>1. p \in Nat /\ f \in Octets /\ l \in Octets /\ f = Network(cidr.octets, p)
      /\ \A i \in 1..4 : l[i] = f[i] + Spread(p, i) - 1
  BY LastOctets
<1>2. \A i \in 1..4 : Spread(p, i) = 256 => f[i] = 0
  <2>1. ASSUME NEW i \in 1..4, Spread(p, i) = 256 PROVE Network(cidr.octets, p)[i] = 0
    BY <1>1, <2>1, WholeOctet
  <2> QED
    BY <1>1, <2>1
<1>3. \A i \in 1..4 : Spread(p, i) \in Powers
  BY <1>1, SpreadIsPower
<1>4. \A i, j \in 1..4 : i < j /\ Spread(p, i) # 1 => Spread(p, j) = 256
  BY <1>1, SpreadShape
<1>5. Network(dst, p) = f <=> \A i \in 1..4 : f[i] <= dst[i] /\ dst[i] <= l[i]
  BY InBlock
<1> HIDE DEF p, f, l
<1> DEFINE s1 == Spread(p, 1)  s2 == Spread(p, 2)  s3 == Spread(p, 3)  s4 == Spread(p, 4)
           f1 == f[1]  f2 == f[2]  f3 == f[3]  f4 == f[4]
           l1 == l[1]  l2 == l[2]  l3 == l[3]  l4 == l[4]
           d1 == dst[1]  d2 == dst[2]  d3 == dst[3]  d4 == dst[4]
<1>6. /\ f1 \in 0..255 /\ f2 \in 0..255 /\ f3 \in 0..255 /\ f4 \in 0..255
      /\ d1 \in 0..255 /\ d2 \in 0..255 /\ d3 \in 0..255 /\ d4 \in 0..255
  <2>1. f1 \in 0..255 /\ f2 \in 0..255 /\ f3 \in 0..255 /\ f4 \in 0..255
    BY <1>1, FourOctets
  <2>2. d1 \in 0..255 /\ d2 \in 0..255 /\ d3 \in 0..255 /\ d4 \in 0..255
    BY FourOctets
  <2> QED
    BY <2>1, <2>2
<1>7. /\ l1 = f1 + s1 - 1 /\ l2 = f2 + s2 - 1 /\ l3 = f3 + s3 - 1 /\ l4 = f4 + s4 - 1
      /\ s1 \in 1..256 /\ s2 \in 1..256 /\ s3 \in 1..256 /\ s4 \in 1..256
  BY <1>1, <1>3 DEF Powers
<1>8. /\ s1 # 1 => s2 = 256 /\ s3 = 256 /\ s4 = 256
      /\ s2 # 1 => s3 = 256 /\ s4 = 256
      /\ s3 # 1 => s4 = 256
  BY <1>4
<1>9. (s2 = 256 => f2 = 0) /\ (s3 = 256 => f3 = 0) /\ (s4 = 256 => f4 = 0)
  BY <1>2
<1>10. Network(dst, p) = f <=>
          /\ f1 <= d1 /\ d1 <= l1 /\ f2 <= d2 /\ d2 <= l2
          /\ f3 <= d3 /\ d3 <= l3 /\ f4 <= d4 /\ d4 <= l4
  <2>1. \A i \in 1..4 : i \in {1, 2, 3, 4}
    OBVIOUS
  <2> QED
    BY <1>5, <2>1
<1>11. AtMost(f, dst) <=>
          \/ f1 < d1
          \/ f1 = d1 /\ f2 < d2
          \/ f1 = d1 /\ f2 = d2 /\ f3 < d3
          \/ f1 = d1 /\ f2 = d2 /\ f3 = d3 /\ f4 <= d4
  BY <1>1, AtMostIs
<1>12. AtMost(dst, l) <=>
          \/ d1 < l1
          \/ d1 = l1 /\ d2 < l2
          \/ d1 = l1 /\ d2 = l2 /\ d3 < l3
          \/ d1 = l1 /\ d2 = l2 /\ d3 = l3 /\ d4 <= l4
  BY <1>1, AtMostIs
<1> HIDE DEF s1, s2, s3, s4, f1, f2, f3, f4, l1, l2, l3, l4, d1, d2, d3, d4
<1>13. Network(dst, p) = f => AtMost(f, dst) /\ AtMost(dst, l)
  BY <1>6, <1>7, <1>10, <1>11, <1>12
<1>14. ASSUME AtMost(f, dst), AtMost(dst, l) PROVE Network(dst, p) = f
  <2>1. CASE s1 # 1
    BY <2>1, <1>14, <1>6, <1>7, <1>8, <1>9, <1>10, <1>11, <1>12
  <2>2. CASE s1 = 1 /\ s2 # 1
    BY <2>2, <1>14, <1>6, <1>7, <1>8, <1>9, <1>10, <1>11, <1>12
  <2>3. CASE s1 = 1 /\ s2 = 1
    BY <2>3, <1>14, <1>6, <1>7, <1>8, <1>9, <1>10, <1>11, <1>12
  <2> QED
    BY <2>1, <2>2, <2>3
<1>15. Network(dst, p) = f <=> AtMost(f, dst) /\ AtMost(dst, l)
  BY <1>13, <1>14
<1> QED
  BY <1>15 DEF p, f, l

-----------------------------------------------------------------------------
(* Reserved blocks *)

\* The reserved blocks are written as networks.
LEMMA TestBlocks ==
    ASSUME NEW block \in NetTestBlocks
    PROVE  block.octets \in Octets /\ block.prefix \in Nat
BY DEF NetTestBlocks, Octets

\* An address whose network is a reserved block's is in the block.
LEMMA InTestBlock ==
    ASSUME NEW block \in NetTestBlocks, NEW dst \in Octets,
           Network(dst, block.prefix) = block.octets
    PROVE  AtMost(First(block), dst) /\ AtMost(dst, Last(block))
<1>1. block.octets \in Octets /\ block.prefix \in Nat
  BY TestBlocks
<1>2. Network(Network(dst, block.prefix), block.prefix) = Network(dst, block.prefix)
  BY <1>1, NetworkTwice
<1>3. First(block) = Network(dst, block.prefix)
  BY <1>2 DEF First
<1> QED
  BY <1>1, <1>3, BlockIsInterval

\* A target in scope (net_target_in_scope) reaches one reserved block only: so is
\* every address of it.
LEMMA TargetsAreReserved ==
    ASSUME NEW cidr, cidr.octets \in Octets, cidr.prefix \in Nat, NetTargetInScope(cidr)
    PROVE  /\ Reserved(cidr)
           /\ \A dst \in Octets : Network(dst, cidr.prefix) = First(cidr) =>
                 Reserved([octets |-> dst, prefix |-> 32])
<1> DEFINE p == cidr.prefix
<1>1. p \in Nat /\ First(cidr) \in Octets /\ Last(cidr) \in Octets
      /\ First(cidr) = Network(cidr.octets, p)
  BY LastOctets
<1>2. PICK block \in NetTestBlocks :
         block.prefix <= p /\ Network(First(cidr), block.prefix) = block.octets
  <2>1. PICK block \in NetTestBlocks :
           p >= block.prefix /\ Network(Network(cidr.octets, p), block.prefix) = block.octets
    BY DEF NetTargetInScope
  <2>2. block.prefix <= p
    BY <1>1, <2>1, TestBlocks
  <2> QED
    BY <1>1, <2>1, <2>2
<1>3. block.octets \in Octets /\ block.prefix \in Nat
  BY TestBlocks
<1> HIDE DEF p
<1>4. ASSUME NEW dst \in Octets, Network(dst, p) = First(cidr)
      PROVE  AtMost(First(block), dst) /\ AtMost(dst, Last(block))
  <2>1. Network(Network(dst, p), block.prefix) = Network(dst, block.prefix)
    BY <1>1, <1>2, <1>3, NetworkTwice
  <2>2. Network(dst, block.prefix) = block.octets
    BY <2>1, <1>2, <1>4
  <2> QED
    BY <2>2, InTestBlock
<1>5. Network(First(cidr), p) = First(cidr)
  <2>1. cidr.octets \in Octets /\ p <= p
    BY <1>1
  <2> QED
    BY <1>1, <2>1, NetworkTwice
<1>6. Network(Last(cidr), p) = First(cidr)
  <2>1. \A i \in 1..4 : First(cidr)[i] <= Last(cidr)[i] /\ Last(cidr)[i] <= Last(cidr)[i]
    <3>1. \A i \in 1..4 : /\ Last(cidr)[i] = First(cidr)[i] + Spread(p, i) - 1
                           /\ First(cidr)[i] \in 0..255 /\ Spread(p, i) \in 1..256
      <4> SUFFICES ASSUME NEW i \in 1..4
                   PROVE  /\ Last(cidr)[i] = First(cidr)[i] + Spread(p, i) - 1
                          /\ First(cidr)[i] \in 0..255 /\ Spread(p, i) \in 1..256
        OBVIOUS
      <4>1. Last(cidr)[i] = First(cidr)[i] + Spread(p, i) - 1
        BY LastOctets DEF p
      <4>2. First(cidr)[i] \in 0..255
        BY <1>1 DEF Octets
      <4>3. Spread(p, i) \in 1..256
        BY <1>1, SpreadIsPower DEF Powers
      <4> QED
        BY <4>1, <4>2, <4>3
    <3>2. ASSUME NEW i \in 1..4
          PROVE  First(cidr)[i] <= Last(cidr)[i] /\ Last(cidr)[i] <= Last(cidr)[i]
      <4> DEFINE f == First(cidr)[i]
                 l == Last(cidr)[i]
                 s == Spread(p, i)
      <4>1. l = f + s - 1 /\ f \in 0..255 /\ s \in 1..256
        BY <3>1
      <4> HIDE DEF f, l, s
      <4>2. f <= l /\ l <= l
        BY <4>1
      <4> QED
        BY <4>2 DEF f, l
    <3> QED
      BY <3>2
  <2> QED
    BY <1>1, <2>1, InBlock DEF p
<1>7. Reserved(cidr)
  <2>1. AtMost(First(block), First(cidr)) /\ AtMost(Last(cidr), Last(block))
    BY <1>1, <1>4, <1>5, <1>6
  <2> QED
    BY <2>1 DEF Reserved
<1>8. ASSUME NEW dst \in Octets, Network(dst, p) = First(cidr)
      PROVE  Reserved([octets |-> dst, prefix |-> 32])
  <2> DEFINE single == [octets |-> dst, prefix |-> 32]
  <2>1. First(single) = dst
    BY SingleAddress DEF First
  <2>2. Last(single) = dst
    <3>1. \A i \in 1..4 : dst[i] \in 0..255 /\ Spread(32, i) = 1
      BY SpreadOfNone DEF Octets
    <3>2. Last(single) = [i \in 1..4 |-> dst[i] + Spread(32, i) - 1]
      BY <2>1 DEF Last
    <3>3. \A i \in 1..4 : dst[i] + Spread(32, i) - 1 = dst[i]
      BY <3>1
    <3>4. Last(single) = [i \in 1..4 |-> dst[i]]
      BY <3>2, <3>3
    <3> QED
      BY <3>4 DEF Octets
  <2>3. AtMost(First(block), dst) /\ AtMost(dst, Last(block))
    BY <1>4, <1>8
  <2> HIDE DEF single
  <2>4. Reserved(single)
    BY <2>1, <2>2, <2>3 DEF Reserved
  <2> QED
    BY <2>4 DEF single
<1> QED
  BY <1>7, <1>8 DEF p

-----------------------------------------------------------------------------
(* Numbers *)

\* A set of numbers has a least one.
LEMMA LeastOf ==
    ASSUME NEW T, T \subseteq Nat, T # {}
    PROVE  \E x \in T : \A y \in T : x <= y
<1> DEFINE R == {ss \in Nat \X Nat : ss[1] < ss[2]}
<1>1. IsWellFoundedOn(R, Nat)
  BY NatLessThanWellFounded DEF OpToRel
<1>2. \A x, y \in Nat : <<y, x>> \notin R => x <= y
  OBVIOUS
<1> HIDE DEF R
<1>3. \E x \in T : \A y \in T : <<y, x>> \notin R
  BY <1>1, WFMin
<1> QED
  BY <1>2, <1>3

\* Induction up to a bound, of the numbers that are in a set.
LEMMA InductionUpTo ==
    ASSUME NEW n \in Nat, NEW T, 0 \in T, \A k \in Nat : k < n /\ k \in T => k + 1 \in T
    PROVE  0..n \subseteq T
<1> SUFFICES ASSUME (0..n) \ T # {} PROVE FALSE
  OBVIOUS
<1>1. PICK x \in (0..n) \ T : \A y \in (0..n) \ T : x <= y
  <2>1. (0..n) \ T \subseteq Nat
    OBVIOUS
  <2> QED
    BY <2>1, LeastOf
<1>2. x # 0 /\ x - 1 \in 0..n /\ x - 1 < n /\ x = (x - 1) + 1 /\ x - 1 < x
  BY <1>1
<1>3. x - 1 \in T
  BY <1>1, <1>2
<1> QED
  BY <1>1, <1>2, <1>3

-----------------------------------------------------------------------------
(* Paths: what a checked path means to the kernel *)

\* An option that is given holds a value.
LEMMA GivenValue ==
    ASSUME NEW S, NEW option \in Optional(S), Given(option)
    PROVE  option[1] \in S /\ DOMAIN option = {1} /\ Len(option) = 1
<1>1. option \in Seq(S) /\ Len(option) <= 1 /\ option # <<>>
  BY DEF Optional, Given
<1>2. Len(option) \in Nat \ {0} /\ DOMAIN option = 1..Len(option)
  BY <1>1, EmptySeq
<1>3. Len(option) = 1
  BY <1>1, <1>2
<1>4. 1 \in 1..Len(option) /\ 1..1 = {1}
  BY <1>3
<1>5. option[1] \in S
  BY <1>1, <1>4, ElementOfSeq
<1> QED
  BY <1>2, <1>3, <1>4, <1>5

\* A path extends each of its beginnings.
LEMMA BeginsGrows ==
    ASSUME NEW S, NEW w \in Seq(S), NEW v \in Seq(S), NEW name \in S, Begins(w, v)
    PROVE  Begins(Append(w, name), v)
<1> DEFINE a == Append(w, name)
<1>1. a \in Seq(S) /\ Len(a) = Len(w) + 1 /\ \A i \in 1..Len(w) : a[i] = w[i]
  <2>1. a \in Seq(S)
    OBVIOUS
  <2>2. Len(a) = Len(w) + 1
    OBVIOUS
  <2>3. \A i \in 1..Len(w) : a[i] = w[i]
    OBVIOUS
  <2> QED
    BY <2>1, <2>2, <2>3
<1>5. Len(v) <= Len(w) /\ Len(w) \in Nat /\ Len(v) \in Nat
  BY DEF Begins
<1>2. SubSeq(w, 1, Len(v)) = v
  BY DEF Begins
<1> HIDE DEF a
<1>3. SubSeq(a, 1, Len(v)) = SubSeq(w, 1, Len(v))
  BY <1>1, <1>5
<1>4. Len(v) <= Len(a)
  BY <1>1, <1>5
<1>6. Begins(a, v)
  BY <1>2, <1>3, <1>4 DEF Begins
<1> QED
  BY <1>6 DEF a

\* The beginning of a path by its names.
LEMMA BeginsByNames ==
    ASSUME NEW S, NEW w \in Seq(S), NEW v \in Seq(S)
    PROVE  Begins(w, v) <=> Len(v) <= Len(w) /\ \A i \in 1..Len(v) : w[i] = v[i]
<1>1. ASSUME Begins(w, v) PROVE \A i \in 1..Len(v) : w[i] = v[i]
  BY <1>1 DEF Begins
<1>2. ASSUME Len(v) <= Len(w), \A i \in 1..Len(v) : w[i] = v[i]
      PROVE  SubSeq(w, 1, Len(v)) = v
  BY <1>2
<1> QED
  BY <1>1, <1>2 DEF Begins

\* trim_end_matches takes off a part at the end.
LEMMA TrimmedIsBeginning ==
    ASSUME NEW S, NEW path \in Seq(S)
    PROVE  \E n \in 0..Len(path) : Trimmed(path) = SubSeq(path, 1, n)
<1> DEFINE length == Len(path)
           blank(k) == \A i \in (k + 1)..Len(path) : path[i] = ""
           U == {k \in 0..Len(path) : blank(k)}
           Q(k) == (k = 0 \/ path[k] # "") /\ blank(k)
<1>1. length \in Nat
  OBVIOUS
<1>2. length \in U /\ U \subseteq Nat
  <2>1. blank(length)
    <3>1. \A k \in Nat : (k + 1)..k = {}
      OBVIOUS
    <3> QED
      BY <1>1, <3>1
  <2> HIDE DEF blank
  <2>2. U \subseteq 0..length
    BY Zenon
  <2>3. length \in 0..length /\ 0..length \subseteq Nat
    BY <1>1
  <2> QED
    BY <2>1, <2>2, <2>3
<1>3. PICK x \in U : \A y \in U : x <= y
  <2> HIDE DEF U
  <2> QED
    BY <1>2, LeastOf
<1>4. x \in 0..length /\ blank(x)
  BY <1>3, Zenon
<1>8. x \in 0..length
  BY <1>4
<1>5. Q(x)
  <2>1. ASSUME x # 0, path[x] = "" PROVE FALSE
    <3>1. blank(x - 1)
      <4>1. \A i \in ((x - 1) + 1)..length : i = x \/ i \in (x + 1)..length
        <5> HIDE DEF length, blank
        <5> QED
          BY <1>1, <1>4
      <4> QED
        BY <2>1, <1>4, <4>1
    <3> HIDE DEF length, blank
    <3>4. x # 0
      BY <2>1
    <3>2. x - 1 \in 0..length /\ ~(x <= x - 1)
      BY <3>4, <1>1, <1>8
    <3>3. x - 1 \in U
      BY <3>1, <3>2 DEF length
    <3> QED
      BY <3>2, <3>3, <1>3
  <2> QED
    BY <2>1, <1>4
<1> DEFINE c == CHOOSE k \in 0..Len(path) : Q(k)
<1>6. c \in 0..Len(path)
  <2>1. \E k \in 0..Len(path) : Q(k)
    BY <1>4, <1>5
  <2> HIDE DEF Q
  <2> QED
    BY <2>1
<1>7. Trimmed(path) = SubSeq(path, 1, c)
  BY DEF Trimmed
<1> QED
  BY <1>6, <1>7

\* path_in_scope leaves nothing but paths below a root that never go up.
LEMMA InScopeBegins ==
    ASSUME NEW path \in Paths, PathInScope(path)
    PROVE  /\ \A i \in 1..Len(path) : path[i] # ".."
           /\ \E root \in CanaryRoots : Begins(path, root)
<1>1. path \in Seq(STRING) /\ DOMAIN path = 1..Len(path) /\ Len(path) \in Nat
  BY DEF Paths
<1>2. PICK root \in CanaryRoots :
         Trimmed(path) = root \/ (Begins(path, root) /\ Len(path) > Len(root))
  BY DEF PathInScope
<1>3. CASE Trimmed(path) = root
  <2>1. PICK n \in 0..Len(path) : Trimmed(path) = SubSeq(path, 1, n)
    BY <1>1, TrimmedIsBeginning
  <2>2. Len(SubSeq(path, 1, n)) = n
    BY <2>1, <1>1
  <2>3. Begins(path, root)
    BY <1>1, <1>3, <2>1, <2>2 DEF Begins
  <2> QED
    BY <1>1, <2>3 DEF PathInScope
<1>4. CASE Begins(path, root)
  BY <1>1, <1>4 DEF PathInScope
<1> QED
  BY <1>2, <1>3, <1>4

\* The names on the way along a path.  A word is what stands between two "/",
\* those of the canary roots among them.
Word == STRING \cup {"", "tmp", "var", "asmodeus-canary"}
Walked(w, name) == IF name \in {"", "."} THEN w ELSE Append(w, name)

\* f[k] has the names of the first k words.
IsWalk(f, path, n) ==
    /\ f \in [0..n -> Seq(Word)] /\ f[0] = <<>>
    /\ \A k \in 1..n : f[k] = Walked(f[k - 1], path[k])

\* The recursive functions of Names and of Resolved.
NamesWalk(path) ==
    CHOOSE names : names = [n \in 0..Len(path) |->
        IF n = 0 THEN <<>>
        ELSE IF path[n] \in {"", "."} THEN names[n - 1] ELSE Append(names[n - 1], path[n])]
ResolvedWalk(path) ==
    CHOOSE walk : walk = [n \in 0..Len(path) |->
        IF n = 0 THEN <<>>
        ELSE CASE path[n] \in {"", "."} -> walk[n - 1]
               [] path[n] = ".."        -> SubSeq(walk[n - 1], 1, Len(walk[n - 1]) - 1)
               [] OTHER                 -> Append(walk[n - 1], path[n])]

\* The empty sequence of names.
LEMMA NoWords == <<>> \in Seq(Word)
OBVIOUS

\* A step keeps names in the list or adds one.
LEMMA WalkedIsPath ==
    ASSUME NEW w \in Seq(Word), NEW name \in Word
    PROVE  Walked(w, name) \in Seq(Word)
<1>1. Append(w, name) \in Seq(Word)
  OBVIOUS
<1> QED
  BY <1>1 DEF Walked

\* There is a walk,
LEMMA WalkExists ==
    ASSUME NEW path \in Seq(Word)
    PROVE  \E f : IsWalk(f, path, Len(path))
<1> DEFINE n == Len(path)
           T == {m \in Nat : \E f : IsWalk(f, path, m)}
<1>1. 0 \in T
  <2> DEFINE f == [k \in 0..0 |-> <<>>]
  <2>1. IsWalk(f, path, 0)
    BY NoWords DEF IsWalk
  <2> HIDE DEF f
  <2> QED
    BY <2>1
<1>2. ASSUME NEW m \in Nat, m < n, m \in T PROVE m + 1 \in T
  <2>1. PICK f : IsWalk(f, path, m)
    BY <1>2
  <2> DEFINE last == Walked(f[m], path[m + 1])
             h == [k \in 0..(m + 1) |-> IF k = m + 1 THEN last ELSE f[k]]
  <2>2. last \in Seq(Word)
    <3>1. f[m] \in Seq(Word)
      BY <2>1, <1>2 DEF IsWalk
    <3>2. path[m + 1] \in Word
      <4>1. m + 1 \in 1..Len(path)
        BY <1>2
      <4> QED
        BY <4>1, ElementOfSeq
    <3> QED
      BY <3>1, <3>2, WalkedIsPath
  <2>3. \A k \in 0..(m + 1) : k = m + 1 \/ k \in 0..m
    OBVIOUS
  <2> HIDE DEF last
  <2>4. h \in [0..(m + 1) -> Seq(Word)]
    BY <2>1, <2>2, <2>3 DEF IsWalk
  <2>5. \A k \in 0..m : h[k] = f[k] /\ k \in 0..(m + 1)
    OBVIOUS
  <2>6. h[m + 1] = last
    OBVIOUS
  <2> HIDE DEF h
  <2>7. ASSUME NEW k \in 1..(m + 1) PROVE h[k] = Walked(h[k - 1], path[k])
    <3>1. CASE k = m + 1
      <4>1. k - 1 = m /\ m \in 0..m
        BY <3>1
      <4>2. h[k] = last /\ h[k - 1] = f[m]
        BY <3>1, <4>1, <2>5, <2>6
      <4> QED
        BY <3>1, <4>2 DEF last
    <3>2. CASE k # m + 1
      <4>1. k \in 1..m /\ k \in 0..m /\ k - 1 \in 0..m
        BY <3>2
      <4>2. f[k] = Walked(f[k - 1], path[k])
        BY <4>1, <2>1 DEF IsWalk
      <4> QED
        BY <4>1, <4>2, <2>5
    <3> QED
      BY <3>1, <3>2
  <2>8. h[0] = <<>>
    BY <2>1, <2>5 DEF IsWalk
  <2>9. IsWalk(h, path, m + 1)
    BY <2>4, <2>7, <2>8 DEF IsWalk
  <2> QED
    BY <2>9
<1>3. n \in Nat
  OBVIOUS
<1> HIDE DEF T
<1>4. n \in T
  <2> HIDE DEF n
  <2>1. 0..n \subseteq T
    BY <1>1, <1>2, <1>3, InductionUpTo
  <2> QED
    BY <1>3, <2>1
<1> QED
  BY <1>4 DEF T

\* and whatever solves its equation is one.
LEMMA EquationIsWalk ==
    ASSUME NEW path \in Seq(Word), NEW f,
           f = [n \in 0..Len(path) |-> IF n = 0 THEN <<>> ELSE Walked(f[n - 1], path[n])]
    PROVE  IsWalk(f, path, Len(path))
<1> DEFINE n == Len(path)
<1>1. n \in Nat /\ \A k \in 1..n : path[k] \in Word
  BY ElementOfSeq
<1>2. f[0] = <<>> /\ \A k \in 1..n : f[k] = Walked(f[k - 1], path[k])
  <2>1. 0 \in 0..n /\ \A k \in 1..n : k \in 0..n /\ k # 0
    BY <1>1
  <2>2. \A k \in 0..n : f[k] = IF k = 0 THEN <<>> ELSE Walked(f[k - 1], path[k])
    OBVIOUS
  <2> QED
    BY <2>1, <2>2
<1>3. DOMAIN f = 0..n /\ f = [k \in 0..n |-> f[k]]
  OBVIOUS
<1> HIDE DEF n
<1>4. \A k \in 0..n : f[k] \in Seq(Word)
  <2> DEFINE V == {k \in Nat : f[k] \in Seq(Word)}
  <2>1. 0 \in V
    BY <1>2, NoWords
  <2>2. ASSUME NEW k \in Nat, k < n, k \in V PROVE k + 1 \in V
    <3>1. k + 1 \in 1..n /\ (k + 1) - 1 = k
      BY <1>1, <2>2
    <3>2. f[k + 1] = Walked(f[k], path[k + 1]) /\ path[k + 1] \in Word
      BY <3>1, <1>1, <1>2
    <3>3. f[k + 1] \in Seq(Word)
      BY <2>2, <3>2, WalkedIsPath
    <3> QED
      BY <2>2, <3>3
  <2> HIDE DEF V
  <2>3. 0..n \subseteq V
    BY <2>1, <2>2, <1>1, InductionUpTo
  <2> QED
    BY <2>3 DEF V
<1>5. f \in [0..n -> Seq(Word)]
  BY <1>3, <1>4
<1>6. IsWalk(f, path, n)
  BY <1>2, <1>5 DEF IsWalk
<1> QED
  BY <1>6 DEF n

\* There is but one.
LEMMA OneWalk ==
    ASSUME NEW path, NEW n \in Nat, NEW f, NEW g, IsWalk(f, path, n), IsWalk(g, path, n)
    PROVE  f = g
<1> DEFINE V == {k \in Nat : f[k] = g[k]}
<1>1. 0 \in V
  BY DEF IsWalk
<1>2. ASSUME NEW k \in Nat, k < n, k \in V PROVE k + 1 \in V
  <2>1. k + 1 \in 1..n /\ (k + 1) - 1 = k
    BY <1>2
  <2>2. f[k + 1] = Walked(f[k], path[k + 1]) /\ g[k + 1] = Walked(g[k], path[k + 1])
    BY <2>1 DEF IsWalk
  <2> QED
    BY <1>2, <2>2
<1> HIDE DEF V
<1>3. \A k \in 0..n : f[k] = g[k]
  <2>1. 0..n \subseteq V
    BY <1>1, <1>2, InductionUpTo
  <2> QED
    BY <2>1 DEF V
<1> QED
  BY <1>3 DEF IsWalk

\* Path::starts_with compares the names on the way.
LEMMA NamesAreWalked ==
    ASSUME NEW path \in Seq(Word)
    PROVE  IsWalk(NamesWalk(path), path, Len(path)) /\ Names(path) = NamesWalk(path)[Len(path)]
<1> DEFINE E(f) == f = [n \in 0..Len(path) |->
                           IF n = 0 THEN <<>>
                           ELSE IF path[n] \in {"", "."} THEN f[n - 1]
                                ELSE Append(f[n - 1], path[n])]
           r == NamesWalk(path)
<1>1. Names(path) = r[Len(path)]
  BY DEF Names, NamesWalk
<1>2. PICK f : IsWalk(f, path, Len(path))
  BY WalkExists
<1>3. E(f)
  <2>1. /\ f \in [0..Len(path) -> Seq(Word)] /\ f[0] = <<>>
        /\ \A k \in 1..Len(path) : f[k] = IF path[k] \in {"", "."} THEN f[k - 1]
                                          ELSE Append(f[k - 1], path[k])
    BY <1>2 DEF IsWalk, Walked
  <2>2. Len(path) \in Nat
    OBVIOUS
  <2>3. \A k \in 0..Len(path) : k = 0 \/ k \in 1..Len(path)
    BY <2>2
  <2> QED
    BY <2>1, <2>3
<1>4. E(r)
  <2>1. \E g : E(g)
    BY <1>3
  <2> QED
    BY <2>1 DEF NamesWalk
<1> HIDE DEF r
<1>5. r = [n \in 0..Len(path) |-> IF n = 0 THEN <<>> ELSE Walked(r[n - 1], path[n])]
  BY <1>4 DEF Walked
<1>6. IsWalk(r, path, Len(path))
  BY <1>5, EquationIsWalk
<1> QED
  BY <1>1, <1>6 DEF r

\* Where nothing goes up, the kernel ends where the names say.
LEMMA ResolvedIsNames ==
    ASSUME NEW path \in Seq(Word), \A i \in 1..Len(path) : path[i] # ".."
    PROVE  Resolved(path) = Names(path)
<1> DEFINE E(f) == f = [n \in 0..Len(path) |->
               IF n = 0 THEN <<>>
               ELSE CASE path[n] \in {"", "."} -> f[n - 1]
                      [] path[n] = ".."        -> SubSeq(f[n - 1], 1, Len(f[n - 1]) - 1)
                      [] OTHER                 -> Append(f[n - 1], path[n])]
           r == ResolvedWalk(path)
           f == NamesWalk(path)
<1>1. Resolved(path) = r[Len(path)]
  BY DEF Resolved, ResolvedWalk
<1>2. IsWalk(f, path, Len(path)) /\ Names(path) = f[Len(path)]
  BY NamesAreWalked
<1>3. Len(path) \in Nat /\ \A k \in 0..Len(path) : k = 0 \/ (k # 0 /\ k \in 1..Len(path))
  OBVIOUS
<1>4. \A w, x : \A k \in 1..Len(path) :
         (CASE path[k] \in {"", "."} -> w
            [] path[k] = ".."        -> x
            [] OTHER                 -> Append(w, path[k])) = Walked(w, path[k])
  <2> SUFFICES ASSUME NEW w, NEW x, NEW k \in 1..Len(path)
               PROVE  (CASE path[k] \in {"", "."} -> w
                         [] path[k] = ".."        -> x
                         [] OTHER                 -> Append(w, path[k])) = Walked(w, path[k])
    OBVIOUS
  <2>1. CASE path[k] \in {"", "."}
    BY <2>1 DEF Walked
  <2>2. CASE path[k] \notin {"", "."}
    BY <2>2 DEF Walked
  <2> QED
    BY <2>1, <2>2
<1> HIDE DEF f
<1>5. E(f)
  <2>1. /\ f \in [0..Len(path) -> Seq(Word)] /\ f[0] = <<>>
        /\ \A k \in 1..Len(path) : f[k] = Walked(f[k - 1], path[k])
    BY <1>2 DEF IsWalk
  <2>2. \A k \in 0..Len(path) : f[k] =
           IF k = 0 THEN <<>>
           ELSE CASE path[k] \in {"", "."} -> f[k - 1]
                  [] path[k] = ".."        -> SubSeq(f[k - 1], 1, Len(f[k - 1]) - 1)
                  [] OTHER                 -> Append(f[k - 1], path[k])
    <3> SUFFICES ASSUME NEW k \in 0..Len(path)
                 PROVE  f[k] =
           IF k = 0 THEN <<>>
           ELSE CASE path[k] \in {"", "."} -> f[k - 1]
                  [] path[k] = ".."        -> SubSeq(f[k - 1], 1, Len(f[k - 1]) - 1)
                  [] OTHER                 -> Append(f[k - 1], path[k])
      OBVIOUS
    <3>1. CASE k = 0
      BY <3>1, <2>1
    <3>2. CASE k # 0 /\ k \in 1..Len(path)
      <4>1. f[k] = Walked(f[k - 1], path[k])
        BY <3>2, <2>1
      <4> QED
        BY <3>2, <4>1, <1>4
    <3> QED
      BY <3>1, <3>2, <1>3
  <2>3. f = [k \in 0..Len(path) |-> f[k]]
    BY <2>1
  <2> QED
    BY <2>2, <2>3
<1>6. E(r)
  <2>1. \E g : E(g)
    BY <1>5
  <2> QED
    BY <2>1 DEF ResolvedWalk
<1> HIDE DEF r
<1>7. r = [n \in 0..Len(path) |-> IF n = 0 THEN <<>> ELSE Walked(r[n - 1], path[n])]
  <2>1. \A k \in 0..Len(path) :
           (IF k = 0 THEN <<>>
            ELSE CASE path[k] \in {"", "."} -> r[k - 1]
                   [] path[k] = ".."        -> SubSeq(r[k - 1], 1, Len(r[k - 1]) - 1)
                   [] OTHER                 -> Append(r[k - 1], path[k]))
              = IF k = 0 THEN <<>> ELSE Walked(r[k - 1], path[k])
    BY <1>3, <1>4
  <2> QED
    BY <1>6, <2>1
<1>8. IsWalk(r, path, Len(path))
  BY <1>7, EquationIsWalk
<1>9. r = f
  BY <1>2, <1>3, <1>8, OneWalk
<1> QED
  BY <1>1, <1>2, <1>9

\* A walk keeps what it has passed.
LEMMA WalkKeepsBeginning ==
    ASSUME NEW path \in Seq(Word), NEW n \in Nat, n <= Len(path), NEW f, IsWalk(f, path, n),
           NEW v \in Seq(Word), NEW start \in 0..n, Begins(f[start], v)
    PROVE  Begins(f[n], v)
<1> DEFINE V == {k \in Nat : k >= start => Begins(f[k], v)}
<1>1. 0 \in V
  BY DEF V
<1>2. ASSUME NEW k \in Nat, k < n, k \in V PROVE k + 1 \in V
  <2>1. CASE k + 1 < start \/ k + 1 = start
    BY <2>1
  <2>2. CASE k >= start
    <3>1. k + 1 \in 1..n /\ (k + 1) - 1 = k /\ k \in 0..n /\ k + 1 \in 1..Len(path)
      BY <1>2
    <3>2. f[k + 1] = Walked(f[k], path[k + 1]) /\ f[k] \in Seq(Word)
      BY <3>1 DEF IsWalk
    <3>3. path[k + 1] \in Word
      BY <3>1, ElementOfSeq
    <3>4. Begins(f[k], v)
      BY <1>2, <2>2
    <3>5. Begins(Append(f[k], path[k + 1]), v)
      BY <3>2, <3>3, <3>4, BeginsGrows
    <3>6. Begins(f[k + 1], v)
      BY <3>2, <3>4, <3>5 DEF Walked
    <3> QED
      BY <3>6
  <2> QED
    BY <2>1, <2>2
<1> HIDE DEF V
<1>3. 0..n \subseteq V
  BY <1>1, <1>2, InductionUpTo
<1>4. n \in 0..n /\ n >= start
  OBVIOUS
<1> QED
  BY <1>3, <1>4 DEF V

Root == <<"", "tmp", "asmodeus-canary">>
VarRoot == <<"", "var", "tmp", "asmodeus-canary">>

\* A list with one more at its end.
LEMMA AppendIs ==
    ASSUME NEW S, NEW s \in Seq(S), NEW e \in S, NEW t \in Seq(S),
           Len(t) = Len(s) + 1, \A i \in 1..Len(s) : t[i] = s[i], t[Len(s) + 1] = e
    PROVE  Append(s, e) = t
<1> DEFINE u == Append(s, e)
<1>1. u \in Seq(S)
  BY AppendProperties
<1>2. Len(u) = Len(s) + 1
  BY AppendProperties
<1>3. \A i \in 1..Len(s) : u[i] = s[i]
  BY AppendProperties
<1>4. u[Len(s) + 1] = e
  BY AppendProperties
<1> HIDE DEF u
<1>5. \A i \in 1..(Len(s) + 1) : i \in 1..Len(s) \/ i = Len(s) + 1
  OBVIOUS
<1>6. \A i \in 1..Len(u) : u[i] = t[i]
  BY <1>2, <1>3, <1>4, <1>5
<1>7. u = t
  BY <1>1, <1>2, <1>6, SeqEqual
<1> QED
  BY <1>7 DEF u

\* One word after another.
LEMMA OneWord ==
    ASSUME NEW S, NEW a \in S
    PROVE  Append(<<>>, a) = <<a>> /\ <<a>> \in Seq(S)
<1>1. <<>> \in Seq(S) /\ <<a>> \in Seq(S) /\ Len(<<a>>) = 1 /\ <<a>>[1] = a /\ Len(<<>>) = 0
  OBVIOUS
<1>2. \A i \in 1..0 : FALSE
  OBVIOUS
<1> QED
  BY <1>1, <1>2, AppendIs

\* Two of them,
LEMMA TwoWords ==
    ASSUME NEW S, NEW a \in S, NEW b \in S
    PROVE  Append(<<a>>, b) = <<a, b>> /\ <<a, b>> \in Seq(S)
<1> DEFINE s == <<a>>
           t == <<a, b>>
<1>1. s \in Seq(S) /\ Len(s) = 1 /\ s[1] = a
  OBVIOUS
<1>2. t \in Seq(S) /\ Len(t) = 2 /\ t[1] = a /\ t[2] = b
  OBVIOUS
<1> HIDE DEF s, t
<1>3. \A i \in 1..1 : i = 1
  OBVIOUS
<1>4. Append(s, b) = t
  <2>1. Len(t) = Len(s) + 1 /\ t[Len(s) + 1] = b
    BY <1>1, <1>2
  <2>2. \A i \in 1..Len(s) : t[i] = s[i]
    BY <1>1, <1>2, <1>3
  <2> QED
    BY <1>1, <1>2, <2>1, <2>2, AppendIs
<1> QED
  BY <1>2, <1>4 DEF s, t

\* three,
LEMMA ThreeWords ==
    ASSUME NEW S, NEW a \in S, NEW b \in S, NEW c \in S
    PROVE  Append(<<a, b>>, c) = <<a, b, c>> /\ <<a, b, c>> \in Seq(S)
<1> DEFINE s == <<a, b>>
           t == <<a, b, c>>
<1>1. s \in Seq(S) /\ Len(s) = 2 /\ s[1] = a /\ s[2] = b
  OBVIOUS
<1>2. t \in Seq(S) /\ Len(t) = 3 /\ t[1] = a /\ t[2] = b /\ t[3] = c
  OBVIOUS
<1> HIDE DEF s, t
<1>3. \A i \in 1..2 : i = 1 \/ i = 2
  OBVIOUS
<1>4. Append(s, c) = t
  <2>1. Len(t) = Len(s) + 1 /\ t[Len(s) + 1] = c
    BY <1>1, <1>2
  <2>2. \A i \in 1..Len(s) : t[i] = s[i]
    BY <1>1, <1>2, <1>3
  <2> QED
    BY <1>1, <1>2, <2>1, <2>2, AppendIs
<1> QED
  BY <1>2, <1>4 DEF s, t

\* and four.
LEMMA FourWords ==
    ASSUME NEW S, NEW a \in S, NEW b \in S, NEW c \in S, NEW d \in S
    PROVE  <<a, b, c, d>> \in Seq(S) /\ Len(<<a, b, c, d>>) = 4
OBVIOUS

\* The words of the roots.
LEMMA RootsAreWords ==
    /\ "" \in Word /\ "tmp" \in Word /\ "var" \in Word /\ "asmodeus-canary" \in Word
    /\ Root \in Seq(Word) /\ VarRoot \in Seq(Word)
<1>1. "" \in Word /\ "tmp" \in Word /\ "var" \in Word /\ "asmodeus-canary" \in Word
  BY DEF Word
<1>2. Root \in Seq(Word)
  BY <1>1, ThreeWords DEF Root
<1>3. VarRoot \in Seq(Word)
  BY <1>1, FourWords DEF VarRoot
<1> QED
  BY <1>1, <1>2, <1>3

\* How many they are,
LEMMA RootLengths == Len(Root) = 3 /\ Len(VarRoot) = 4
<1>1. \A a, b, c, d : Len(<<a, b, c>>) = 3 /\ Len(<<a, b, c, d>>) = 4
  OBVIOUS
<1> QED
  BY <1>1 DEF Root, VarRoot

\* and which.
LEMMA RootSpelled ==
    /\ Root[1] = "" /\ Root[2] = "tmp" /\ Root[3] = "asmodeus-canary"
    /\ VarRoot[1] = "" /\ VarRoot[2] = "var" /\ VarRoot[3] = "tmp"
    /\ VarRoot[4] = "asmodeus-canary"
BY DEF Root, VarRoot

\* A path that begins with a root keeps the root's names.
LEMMA RootIsKept ==
    ASSUME NEW path \in Seq(Word), NEW root \in CanaryRoots, Begins(path, root)
    PROVE  path[1] = "" /\ Begins(Names(path), Tail(root))
<1> DEFINE f == NamesWalk(path)
           n == Len(path)
<1>1. IsWalk(f, path, n) /\ Names(path) = f[n] /\ n \in Nat
  BY NamesAreWalked
<1> HIDE DEF f
<1>3. f[0] = <<>> /\ \A k \in 1..n : f[k] = Walked(f[k - 1], path[k])
  BY <1>1 DEF IsWalk
<1>4. \A k \in 1..n : path[k] = "" => f[k] = f[k - 1]
  BY <1>3 DEF Walked
<1>5. \A k \in 1..n : path[k] \notin {"", "."} => f[k] = Append(f[k - 1], path[k])
  BY <1>3 DEF Walked
<1>6. ASSUME NEW v \in Seq(Word), Tail(root) = v, NEW k \in 0..n, f[k] = v
      PROVE  Begins(Names(path), Tail(root))
  <2>1. Begins(v, v)
    BY BeginsByNames
  <2>2. n <= Len(path)
    BY <1>1
  <2>3. Begins(f[k], v)
    BY <2>1, <1>6
  <2> HIDE DEF n
  <2>4. Begins(f[n], v)
    BY <1>1, <2>2, <2>3, WalkKeepsBeginning
  <2> QED
    BY <1>1, <1>6, <2>4
<1>7. CASE root = Root
  <2>1. n >= 3 /\ \A i \in 1..3 : path[i] = Root[i]
    <3>1. Len(Root) <= Len(path) /\ \A i \in 1..Len(Root) : path[i] = Root[i]
      BY <1>7, RootsAreWords, BeginsByNames
    <3> QED
      BY <3>1, RootLengths
  <2> HIDE DEF n
  <2>2. 1 \in 1..n /\ 2 \in 1..n /\ 3 \in 1..n /\ 3 \in 0..n
    BY <1>1, <2>1
  <2>3. f[1] = f[0] /\ f[2] = Append(f[1], "tmp") /\ f[3] = Append(f[2], "asmodeus-canary")
        /\ path[1] = ""
    <3>1. 1 \in 1..3 /\ 2 \in 1..3 /\ 3 \in 1..3 /\ 1 - 1 = 0 /\ 2 - 1 = 1 /\ 3 - 1 = 2
      OBVIOUS
    <3>2. path[1] = Root[1] /\ path[2] = Root[2] /\ path[3] = Root[3]
      BY <2>1, <3>1
    <3>3. path[1] = "" /\ path[2] = "tmp" /\ path[3] = "asmodeus-canary"
      BY <3>2, RootSpelled, Zenon
    <3>4. f[1] = f[0]
      BY <1>4, <2>2, <3>1, <3>3
    <3>5. f[2] = Append(f[1], "tmp")
      BY <1>5, <2>2, <3>1, <3>3
    <3>6. f[3] = Append(f[2], "asmodeus-canary")
      BY <1>5, <2>2, <3>1, <3>3
    <3> QED
      BY <3>3, <3>4, <3>5, <3>6
  <2>4. f[1] = <<>>
    BY <1>3, <2>3
  <2>5. f[2] = <<"tmp">>
    BY <2>3, <2>4, RootsAreWords, OneWord
  <2> DEFINE v == <<"tmp", "asmodeus-canary">>
  <2>6. f[3] = v /\ v \in Seq(Word)
    BY <2>3, <2>5, RootsAreWords, TwoWords
  <2>7. Tail(Root) = v
    BY DEF Root
  <2> HIDE DEF v
  <2>8. Begins(Names(path), Tail(root))
    BY <1>6, <1>7, <2>2, <2>6, <2>7
  <2> QED
    BY <2>3, <2>8
<1>8. CASE root = VarRoot
  <2>1. n >= 4 /\ \A i \in 1..4 : path[i] = VarRoot[i]
    <3>1. Len(VarRoot) <= Len(path) /\ \A i \in 1..Len(VarRoot) : path[i] = VarRoot[i]
      BY <1>8, RootsAreWords, BeginsByNames
    <3> QED
      BY <3>1, RootLengths
  <2> HIDE DEF n
  <2>2. 1 \in 1..n /\ 2 \in 1..n /\ 3 \in 1..n /\ 4 \in 1..n /\ 4 \in 0..n
    BY <1>1, <2>1
  <2>3. /\ f[1] = f[0] /\ f[2] = Append(f[1], "var") /\ f[3] = Append(f[2], "tmp")
        /\ f[4] = Append(f[3], "asmodeus-canary") /\ path[1] = ""
    <3>1. /\ 1 \in 1..4 /\ 2 \in 1..4 /\ 3 \in 1..4 /\ 4 \in 1..4
          /\ 1 - 1 = 0 /\ 2 - 1 = 1 /\ 3 - 1 = 2 /\ 4 - 1 = 3
      OBVIOUS
    <3>2. /\ path[1] = VarRoot[1] /\ path[2] = VarRoot[2] /\ path[3] = VarRoot[3]
          /\ path[4] = VarRoot[4]
      BY <2>1, <3>1
    <3>3. /\ path[1] = "" /\ path[2] = "var" /\ path[3] = "tmp"
          /\ path[4] = "asmodeus-canary"
      BY <3>2, RootSpelled, Zenon
    <3>4. f[1] = f[0]
      BY <1>4, <2>2, <3>1, <3>3
    <3>5. f[2] = Append(f[1], "var")
      BY <1>5, <2>2, <3>1, <3>3
    <3>6. f[3] = Append(f[2], "tmp")
      BY <1>5, <2>2, <3>1, <3>3
    <3>7. f[4] = Append(f[3], "asmodeus-canary")
      BY <1>5, <2>2, <3>1, <3>3
    <3> QED
      BY <3>3, <3>4, <3>5, <3>6, <3>7
  <2>4. f[1] = <<>>
    BY <1>3, <2>3
  <2>5. f[2] = <<"var">>
    BY <2>3, <2>4, RootsAreWords, OneWord
  <2>6. f[3] = <<"var", "tmp">>
    BY <2>3, <2>5, RootsAreWords, TwoWords
  <2> DEFINE v == <<"var", "tmp", "asmodeus-canary">>
  <2>7. f[4] = v /\ v \in Seq(Word)
    BY <2>3, <2>6, RootsAreWords, ThreeWords
  <2>8. Tail(VarRoot) = v
    BY DEF VarRoot
  <2> HIDE DEF v
  <2>9. Begins(Names(path), Tail(root))
    BY <1>6, <1>8, <2>2, <2>7, <2>8
  <2> QED
    BY <2>3, <2>9
<1>9. root = Root \/ root = VarRoot
  BY DEF CanaryRoots, Root, VarRoot
<1> QED
  BY <1>7, <1>8, <1>9

\* Below a root, and never up.
Below(path) ==
    /\ path \in Seq(Word)
    /\ \A i \in 1..Len(path) : path[i] # ".."
    /\ \E root \in CanaryRoots : Begins(path, root)

\* The kernel ends inside that root, where the names say.
LEMMA BelowIsConfined ==
    ASSUME NEW path, Below(path)
    PROVE  Confined(path) /\ Resolved(path) = Names(path)
<1>1. path \in Seq(Word)
  BY DEF Below
<1>2. PICK root \in CanaryRoots : Begins(path, root)
  BY DEF Below
<1>3. path[1] = "" /\ Begins(Names(path), Tail(root))
  BY <1>1, <1>2, RootIsKept
<1>4. Resolved(path) = Names(path)
  BY <1>1, ResolvedIsNames DEF Below
<1> QED
  BY <1>3, <1>4 DEF Confined

\* What path_in_scope lets through is below a root,
LEMMA InScopeIsBelow ==
    ASSUME NEW path \in Paths, PathInScope(path)
    PROVE  Below(path)
<1>1. path \in Seq(Word)
  <2>1. path \in Seq(STRING) /\ STRING \subseteq Word
    BY DEF Paths, Word
  <2> QED
    BY <2>1, SeqMonotonic
<1> QED
  BY <1>1, InScopeBegins DEF Below

\* and so is the directory of a manifest that names none.
LEMMA DefaultIsBelow == Below(Root)
<1>1. \A i \in 1..Len(Root) : Root[i] # ".."
  <2>1. \A i \in 1..3 : i = 1 \/ i = 2 \/ i = 3
    OBVIOUS
  <2>2. Root[1] # ".." /\ Root[2] # ".." /\ Root[3] # ".."
    BY RootSpelled, Zenon
  <2>3. Len(Root) = 3
    BY RootLengths
  <2> QED
    BY <2>1, <2>2, <2>3
<1>2. Begins(Root, Root)
  <2>1. Root \in Seq(Word)
    BY RootsAreWords
  <2> QED
    BY <2>1, BeginsByNames
<1>3. Root \in CanaryRoots
  BY DEF Root, CanaryRoots
<1> QED
  BY RootsAreWords, <1>1, <1>2, <1>3 DEF Below

-----------------------------------------------------------------------------
(* Manifests: what is admitted *)

\* What the parser leaves in the fields.
LEMMA FieldTypes ==
    ASSUME NEW m, IsManifest(m)
    PROVE  /\ m.duration \in Nat /\ m.cpu \in Nat
           /\ m.canary \in Optional(Paths) /\ m.target \in Optional(Paths)
           /\ m.cidr \in Optional(Targets)
           /\ \A name \in DOMAIN m.params : m.params[name] \in Int
           /\ m.technique \in Optional(STRING) /\ m.fidelity \in Optional(STRING)
           /\ m.refs \in Optional(References)
<1>1. \A field \in Fields : Parsed(field, m[field])
  BY DEF IsManifest
<1>2. m.duration \in Nat /\ m.cpu \in Nat
  BY <1>1 DEF Fields, Parsed
<1>3. m.canary \in Optional(Paths) /\ m.target \in Optional(Paths)
  BY <1>1 DEF Fields, Parsed
<1>4. m.cidr \in Optional(Targets)
  BY <1>1 DEF Fields, Parsed
<1>5. \A name \in DOMAIN m.params : m.params[name] \in Int
  BY <1>1 DEF Fields, Parsed
<1>6. m.technique \in Optional(STRING) /\ m.fidelity \in Optional(STRING)
  BY <1>1 DEF Fields, Parsed
<1>7. m.refs \in Optional(References)
  BY <1>1 DEF Fields, Parsed
<1> QED
  BY <1>2, <1>3, <1>4, <1>5, <1>6, <1>7

\* What is admitted compiles.
LEMMA ValidCompiles ==
    ASSUME NEW m, Valid(m)
    PROVE  Compiles(m)
BY DEF Valid

\* Its limits, as from_manifest checks them.
LEMMA CompiledLimits ==
    ASSUME NEW m, Compiles(m)
    PROVE  /\ m.duration > 0 /\ m.cpu > 0
           /\ Given(m.canary) => Begins(Names(TargetDir(m)), Names(m.canary[1]))
           /\ \A name \in DOMAIN m.params : m.params[name] \in Bounds(m.action)[name]
           /\ Number(m, "file_count") * Number(m, "chunk_size_kb") <= 20 * 1024
           /\ Number(m, "duration_ms") <= 1000 * m.duration
BY ZenonT(40) DEF Compiles

\* The directories of an admitted manifest.
LEMMA DirectoriesAreBelow ==
    ASSUME NEW m, IsManifest(m), Valid(m)
    PROVE  /\ Below(TargetDir(m))
           /\ Given(m.canary) => Below(m.canary[1])
<1>1. m.canary \in Optional(Paths) /\ m.target \in Optional(Paths)
  BY FieldTypes
<1>2. ASSUME Given(m.canary) PROVE Below(m.canary[1])
  <2>1. m.canary[1] \in Paths
    BY <1>1, <1>2, GivenValue
  <2>2. PathInScope(m.canary[1])
    BY <1>2 DEF Valid
  <2> QED
    BY <2>1, <2>2, InScopeIsBelow
<1>3. ASSUME Given(m.target) PROVE Below(m.target[1])
  <2>1. m.target[1] \in Paths
    BY <1>1, <1>3, GivenValue
  <2>2. PathInScope(m.target[1])
    BY <1>3 DEF Valid
  <2> QED
    BY <2>1, <2>2, InScopeIsBelow
<1>4. Below(<<"", "tmp", "asmodeus-canary">>)
  BY DefaultIsBelow DEF Root
<1>5. Below(TargetDir(m))
  BY <1>2, <1>3, <1>4 DEF TargetDir, Or
<1> QED
  BY <1>2, <1>5

\* Where the plan writes.
LEMMA PlanIsConfined ==
    ASSUME NEW m, IsManifest(m), Valid(m)
    PROVE  /\ Confined(TargetDir(m))
           /\ Given(m.canary) => Begins(Resolved(TargetDir(m)), Resolved(m.canary[1]))
<1>1. Below(TargetDir(m))
  BY DirectoriesAreBelow
<1>2. Confined(TargetDir(m)) /\ Resolved(TargetDir(m)) = Names(TargetDir(m))
  BY <1>1, BelowIsConfined
<1>3. ASSUME Given(m.canary)
      PROVE  Begins(Resolved(TargetDir(m)), Resolved(m.canary[1]))
  <2>1. Below(m.canary[1])
    BY <1>3, DirectoriesAreBelow
  <2>2. Resolved(m.canary[1]) = Names(m.canary[1])
    BY <2>1, BelowIsConfined
  <2>3. Begins(Names(TargetDir(m)), Names(m.canary[1]))
    BY <1>3, ValidCompiles, CompiledLimits
  <2> QED
    BY <1>2, <2>2, <2>3
<1> QED
  BY <1>2, <1>3

\* The plan of a manifest that names no network reaches the host itself.
LEMMA LoopbackInScope ==
    /\ Loopback.octets \in Octets /\ Loopback.prefix \in Nat
    /\ NetTargetInScope(Loopback)
<1> DEFINE home == <<127, 0, 0, 1>>
<1>1. Loopback.octets = home /\ Loopback.prefix = 32
  BY DEF Loopback
<1>2. home \in Octets
  BY DEF Octets
<1>3. Network(home, 32) = home
  BY <1>2, SingleAddress
<1>4. Spread(8, 1) = 1
  <2>1. (IF 8 * 1 - 8 < 0 THEN 0 ELSE IF 8 * 1 - 8 > 8 THEN 8 ELSE 8 * 1 - 8) = 0
    OBVIOUS
  <2> QED
    BY <2>1, PowersOfTwo DEF Spread
<1>5. Spread(8, 2) = 256 /\ Spread(8, 3) = 256 /\ Spread(8, 4) = 256
  <2>1. /\ (IF 8 * 2 - 8 < 0 THEN 0 ELSE IF 8 * 2 - 8 > 8 THEN 8 ELSE 8 * 2 - 8) = 8
        /\ (IF 8 * 3 - 8 < 0 THEN 0 ELSE IF 8 * 3 - 8 > 8 THEN 8 ELSE 8 * 3 - 8) = 8
        /\ (IF 8 * 4 - 8 < 0 THEN 0 ELSE IF 8 * 4 - 8 > 8 THEN 8 ELSE 8 * 4 - 8) = 8
    OBVIOUS
  <2> QED
    BY <2>1, PowersOfTwo DEF Spread
<1>6. Network(home, 8) = <<127, 0, 0, 0>>
  <2>1. Network(home, 8) \in Octets
    BY <1>2, NetworkIsAddress
  <2>2. /\ Network(home, 8)[1] = 127 - (127 % 1)
        /\ Network(home, 8)[2] = 0 - (0 % 256)
        /\ Network(home, 8)[3] = 0 - (0 % 256)
        /\ Network(home, 8)[4] = 1 - (1 % 256)
    BY <1>4, <1>5 DEF Network
  <2>3. 127 - (127 % 1) = 127 /\ 0 - (0 % 256) = 0 /\ 1 - (1 % 256) = 0
    OBVIOUS
  <2>4. <<127, 0, 0, 0>> \in Octets
    BY DEF Octets
  <2>5. \A i \in 1..4 : i = 1 \/ i = 2 \/ i = 3 \/ i = 4
    OBVIOUS
  <2>6. \A i \in 1..4 : Network(home, 8)[i] = <<127, 0, 0, 0>>[i]
    BY <2>2, <2>3, <2>5
  <2> QED
    BY <2>1, <2>4, <2>6 DEF Octets
<1> DEFINE block == [octets |-> <<127, 0, 0, 0>>, prefix |-> 8]
<1>7. block \in NetTestBlocks
  BY DEF NetTestBlocks
<1>8. block.prefix = 8 /\ block.octets = <<127, 0, 0, 0>> /\ 32 <= 32 /\ 32 >= 8
  OBVIOUS
<1> HIDE DEF home, block
<1>9. NetTargetInScope(Loopback)
  BY <1>1, <1>3, <1>6, <1>7, <1>8 DEF NetTargetInScope
<1> QED
  BY <1>1, <1>2, <1>9

\* What the plan reaches.
LEMMA PlanIsReserved ==
    ASSUME NEW m, IsManifest(m), Valid(m)
    PROVE  Reserved(Or(m.cidr, Loopback))
<1>1. CASE Given(m.cidr)
  <2>1. m.cidr[1] \in Targets
    BY <1>1, FieldTypes, GivenValue
  <2>2. m.cidr[1].octets \in Octets /\ m.cidr[1].prefix \in Nat
    BY <2>1 DEF Targets, Octets
  <2>3. NetTargetInScope(m.cidr[1])
    BY <1>1 DEF Valid
  <2>4. Reserved(m.cidr[1])
    BY <2>2, <2>3, TargetsAreReserved
  <2> QED
    BY <1>1, <2>4 DEF Or
<1>2. CASE ~Given(m.cidr)
  <2>1. Reserved(Loopback)
    BY LoopbackInScope, TargetsAreReserved
  <2> QED
    BY <1>2, <2>1 DEF Or
<1> QED
  BY <1>1, <1>2

\* The numbers of an admitted manifest are within the bounds of its action, or
\* the defaults.
LEMMA NumbersAreBounded ==
    ASSUME NEW m, IsManifest(m), Valid(m)
    PROVE  /\ Number(m, "file_count") \in 1..200
           /\ m.action = "c2_beacon" => Number(m, "file_count") \in 1..100
           /\ Number(m, "chunk_size_kb") \in 1..256
           /\ Number(m, "latency_ms") \in 0..5000
           /\ Number(m, "jitter_ms") \in 0..1000
           /\ Number(m, "loss_percent") \in 0..50
<1>1. \A name \in DOMAIN m.params : m.params[name] \in Bounds(m.action)[name]
  BY ValidCompiles, CompiledLimits
<1>2. ASSUME NEW name, NEW S, NEW d, Bounds(m.action)[name] = S, Default[name] = d, d \in S
      PROVE  Number(m, name) \in S
  BY <1>1, <1>2 DEF Number
<1>3. Number(m, "file_count") \in 1..(IF m.action = "c2_beacon" THEN 100 ELSE 200)
  <2>1. Bounds(m.action)["file_count"] = 1..(IF m.action = "c2_beacon" THEN 100 ELSE 200)
    BY DEF Bounds
  <2>2. Default["file_count"] = 20
    BY DEF Default
  <2>3. 20 \in 1..(IF m.action = "c2_beacon" THEN 100 ELSE 200)
    OBVIOUS
  <2> QED
    BY <1>2, <2>1, <2>2, <2>3
<1>4. Number(m, "chunk_size_kb") \in 1..256
  <2>1. Bounds(m.action)["chunk_size_kb"] = 1..256
    BY DEF Bounds
  <2>2. Default["chunk_size_kb"] = 64
    BY DEF Default
  <2>3. 64 \in 1..256
    OBVIOUS
  <2> QED
    BY <1>2, <2>1, <2>2, <2>3
<1>5. Number(m, "latency_ms") \in 0..5000
  <2>1. Bounds(m.action)["latency_ms"] = 0..5000
    BY DEF Bounds
  <2>2. Default["latency_ms"] = 100
    BY DEF Default
  <2>3. 100 \in 0..5000
    OBVIOUS
  <2> QED
    BY <1>2, <2>1, <2>2, <2>3
<1>6. Number(m, "jitter_ms") \in 0..1000
  <2>1. Bounds(m.action)["jitter_ms"] = 0..1000
    BY DEF Bounds
  <2>2. Default["jitter_ms"] = 0
    BY DEF Default
  <2>3. 0 \in 0..1000
    OBVIOUS
  <2> QED
    BY <1>2, <2>1, <2>2, <2>3
<1>7. Number(m, "loss_percent") \in 0..50
  <2>1. Bounds(m.action)["loss_percent"] = 0..50
    BY DEF Bounds
  <2>2. Default["loss_percent"] = 0
    BY DEF Default
  <2>3. 0 \in 0..50
    OBVIOUS
  <2> QED
    BY <1>2, <2>1, <2>2, <2>3
<1> QED
  BY <1>3, <1>4, <1>5, <1>6, <1>7

\* What the plan takes from them.
LEMMA PlanNumbers ==
    ASSUME NEW m, NEW name \in {"file_count", "chunk_size_kb", "duration_ms", "latency_ms",
                                "jitter_ms", "loss_percent"}
    PROVE  Plan(m).numbers[name] = Number(m, name)
<1>1. name \in DOMAIN Default
  BY DEF Default
<1>2. Plan(m).numbers = [x \in DOMAIN Default |-> Number(m, x)]
  BY DEF Plan
<1> QED
  BY <1>1, <1>2

\* An admitted manifest is confined, to its directories, networks and limits.
LEMMA ValidIsConfined ==
    ASSUME IsManifest(manifest)
    PROVE  AdmittedIsConfined
<1> DEFINE m == manifest
           plan == Plan(m)
           n == plan.numbers
<1> SUFFICES ASSUME Valid(m) PROVE IsConfined(m, plan)
  BY DEF AdmittedIsConfined
<1>1. /\ plan.dir = TargetDir(m) /\ plan.cidr = Or(m.cidr, Loopback)
      /\ plan.seconds = m.duration /\ plan.cpu = m.cpu /\ plan.action = m.action
  BY DEF Plan
<1>2. /\ n.file_count = Number(m, "file_count") /\ n.chunk_size_kb = Number(m, "chunk_size_kb")
      /\ n.duration_ms = Number(m, "duration_ms") /\ n.latency_ms = Number(m, "latency_ms")
      /\ n.jitter_ms = Number(m, "jitter_ms") /\ n.loss_percent = Number(m, "loss_percent")
  BY PlanNumbers
<1> HIDE DEF plan, n
<1>3. Confined(plan.dir) /\ Reserved(plan.cidr)
      /\ (Given(m.canary) => Begins(Resolved(plan.dir), Resolved(m.canary[1])))
  BY <1>1, PlanIsConfined, PlanIsReserved
<1>4. plan.seconds \in 1..300 /\ plan.cpu \in 1..85
  <2>1. m.duration \in Nat /\ m.cpu \in Nat
    BY FieldTypes
  <2>2. m.duration <= 300 /\ m.cpu <= 85 /\ m.duration > 0 /\ m.cpu > 0
    BY ValidCompiles, CompiledLimits DEF Valid
  <2>3. m.duration \in 1..300 /\ m.cpu \in 1..85
    BY <2>1, <2>2
  <2> QED
    BY <1>1, <2>3
<1>5. n.duration_ms <= 1000 * plan.seconds
  <2>1. Number(m, "duration_ms") <= 1000 * m.duration
    BY ValidCompiles, CompiledLimits
  <2> QED
    BY <1>1, <1>2, <2>1
<1>6. n.file_count * n.chunk_size_kb * 1024 <= 20 * 1024 * 1024
  <2> DEFINE a == Number(m, "file_count")
             b == Number(m, "chunk_size_kb")
  <2>1. a \in 1..200 /\ b \in 1..256
    BY NumbersAreBounded
  <2>2. a * b <= 20 * 1024
    BY ValidCompiles, CompiledLimits
  <2>3. n.file_count = a /\ n.chunk_size_kb = b
    BY <1>2
  <2> HIDE DEF a, b
  <2>4. a * b \in Int
    BY <2>1
  <2> DEFINE c == a * b
  <2>5. c \in Int /\ c <= 20 * 1024
    BY <2>2, <2>4
  <2> HIDE DEF c
  <2>6. c * 1024 <= 20 * 1024 * 1024
    BY <2>5
  <2> QED
    BY <2>3, <2>6 DEF c
<1>7. plan.action = "c2_beacon" => n.file_count \in 1..100
  <2>1. m.action = "c2_beacon" => Number(m, "file_count") \in 1..100
    BY NumbersAreBounded
  <2> QED
    BY <1>1, <1>2, <2>1
<1>8. n.chunk_size_kb \in 1..1024
  <2>1. Number(m, "chunk_size_kb") \in 1..256 /\ 1..256 \subseteq 1..1024
    BY NumbersAreBounded
  <2> QED
    BY <1>2, <2>1
<1>9. n.latency_ms <= 5000 /\ n.jitter_ms <= 1000 /\ n.loss_percent <= 50
  <2> DEFINE a == Number(m, "latency_ms")
             b == Number(m, "jitter_ms")
             c == Number(m, "loss_percent")
  <2>1. a \in 0..5000 /\ b \in 0..1000 /\ c \in 0..50
    <3>1. Number(m, "latency_ms") \in 0..5000
      BY NumbersAreBounded
    <3>2. Number(m, "jitter_ms") \in 0..1000
      BY NumbersAreBounded
    <3>3. Number(m, "loss_percent") \in 0..50
      BY NumbersAreBounded
    <3> QED
      BY <3>1, <3>2, <3>3
  <2>2. n.latency_ms = a /\ n.jitter_ms = b /\ n.loss_percent = c
    BY <1>2
  <2> HIDE DEF a, b, c
  <2>3. a <= 5000 /\ b <= 1000 /\ c <= 50
    BY <2>1
  <2> QED
    BY <2>2, <2>3
<1> QED
  <2>1. WithinLimits(plan, n)
    BY <1>4, <1>5, <1>6, <1>7, <1>8, <1>9 DEF WithinLimits
  <2> QED
    BY <1>3, <2>1 DEF IsConfined, n

\* Trust in a fidelity, and the weaker of two.
LEMMA TrustOrder ==
    ASSUME NEW a \in Fidelities, NEW b \in Fidelities
    PROVE  /\ Trust[a] \in 0..2
           /\ Weaker(a, b) \in Fidelities
           /\ Trust[Weaker(a, b)] <= Trust[a] /\ Trust[Weaker(a, b)] <= Trust[b]
           /\ a = "unspecified" => Weaker(a, b) = "unspecified"
           /\ Weaker(a, b) = "behavioral" => a = "behavioral" /\ b = "behavioral"
<1>1. /\ Trust["unspecified"] = 0 /\ Trust["marker_only"] = 1 /\ Trust["behavioral"] = 2
  BY DEF Trust
<1>2. a = "unspecified" \/ a = "marker_only" \/ a = "behavioral"
  BY DEF Fidelities
<1>3. b = "unspecified" \/ b = "marker_only" \/ b = "behavioral"
  BY DEF Fidelities
<1>4. Trust[a] \in 0..2 /\ Trust[b] \in 0..2
  BY <1>1, <1>2, <1>3
<1>5. Weaker(a, b) = IF Trust[a] <= Trust[b] THEN a ELSE b
  BY DEF Weaker
<1>6. Weaker(a, b) \in Fidelities
  BY <1>5
<1>7. Trust[Weaker(a, b)] <= Trust[a] /\ Trust[Weaker(a, b)] <= Trust[b]
  BY <1>4, <1>5
<1>8. ASSUME a = "unspecified" PROVE Weaker(a, b) = "unspecified"
  <2>1. Trust[a] <= Trust[b]
    BY <1>1, <1>3, <1>8
  <2> QED
    BY <1>5, <1>8, <2>1
<1>9. ASSUME Weaker(a, b) = "behavioral" PROVE a = "behavioral" /\ b = "behavioral"
  <2>1. Trust[a] >= 2 /\ Trust[b] >= 2
    BY <1>1, <1>4, <1>7, <1>9
  <2> QED
    BY <1>1, <1>2, <1>3, <2>1
<1> QED
  BY <1>4, <1>6, <1>7, <1>8, <1>9

\* The fidelity of a manifest is what it declares or less, and what its executor
\* does or less.
LEMMA FidelityIsEarned ==
    ASSUME NEW m, IsManifest(m), Valid(m)
    PROVE  /\ EffectiveFidelity(m) \in Fidelities
           /\ EffectiveFidelity(m) # "unspecified" =>
                 /\ m.api = "v1alpha2"
                 /\ Trust[EffectiveFidelity(m)] <= Trust[m.fidelity[1]]
           /\ EffectiveFidelity(m) = "behavioral" =>
                 m.action \in {"synthetic_canary_encrypt", "latency_spike"}
<1> DEFINE declared == IF Given(m.fidelity) /\ m.fidelity[1] \in Fidelities
                       THEN m.fidelity[1] ELSE "unspecified"
           done == Implemented(m.action)
<1>1. "unspecified" \in Fidelities /\ "marker_only" \in Fidelities /\ "behavioral" \in Fidelities
  BY DEF Fidelities
<1>2. declared \in Fidelities
  BY <1>1
<1>3. done \in Fidelities
  BY <1>1 DEF Implemented
<1>4. done = "behavioral" => m.action \in {"synthetic_canary_encrypt", "latency_spike"}
  BY DEF Implemented
<1>5. EffectiveFidelity(m) = IF m.api = "v1alpha1" THEN "unspecified" ELSE Weaker(declared, done)
  BY DEF EffectiveFidelity
<1>6. declared # "unspecified" => declared = m.fidelity[1]
  OBVIOUS
<1>7. m.api \in {"v1alpha1", "v1alpha2"}
  BY DEF Valid
<1> HIDE DEF declared, done
<1>8. /\ Weaker(declared, done) \in Fidelities
      /\ Trust[Weaker(declared, done)] <= Trust[declared]
      /\ declared = "unspecified" => Weaker(declared, done) = "unspecified"
      /\ Weaker(declared, done) = "behavioral" => done = "behavioral"
  BY <1>2, <1>3, TrustOrder
<1>9. EffectiveFidelity(m) \in Fidelities
  BY <1>1, <1>5, <1>8
<1>10. ASSUME EffectiveFidelity(m) # "unspecified"
       PROVE  m.api = "v1alpha2" /\ Trust[EffectiveFidelity(m)] <= Trust[m.fidelity[1]]
  <2>1. m.api # "v1alpha1" /\ EffectiveFidelity(m) = Weaker(declared, done)
    BY <1>5, <1>10
  <2>2. declared = m.fidelity[1]
    BY <1>6, <1>8, <1>10, <2>1
  <2> QED
    BY <1>7, <1>8, <2>1, <2>2
<1>11. ASSUME EffectiveFidelity(m) = "behavioral"
       PROVE  m.action \in {"synthetic_canary_encrypt", "latency_spike"}
  BY <1>4, <1>5, <1>8, <1>11
<1> QED
  BY <1>9, <1>10, <1>11

\* A technique is trusted no more than its scenario is, and behaves only where
\* canaries are encrypted.
LEMMA TechniqueIsEarned ==
    ASSUME NEW m, IsManifest(m), Valid(m), NEW id
    PROVE  /\ TechniqueFidelity(m, id) \in Fidelities
           /\ Trust[TechniqueFidelity(m, id)] <= Trust[EffectiveFidelity(m)]
           /\ TechniqueFidelity(m, id) = "behavioral" =>
                 m.action = "synthetic_canary_encrypt" /\ Canonical(id) = "T1486"
<1> DEFINE earned == EffectiveFidelity(m)
<1>1. earned \in Fidelities
  BY FidelityIsEarned
<1>2. "marker_only" \in Fidelities /\ "marker_only" # "behavioral"
  BY DEF Fidelities
<1>3. TechniqueFidelity(m, id) =
         IF m.action = "synthetic_canary_encrypt" /\ Canonical(id) = "T1486"
         THEN earned ELSE Weaker(earned, "marker_only")
  BY DEF TechniqueFidelity
<1> HIDE DEF earned
<1>4. /\ Weaker(earned, "marker_only") \in Fidelities
      /\ Trust[Weaker(earned, "marker_only")] <= Trust[earned]
      /\ Weaker(earned, "marker_only") # "behavioral"
  BY <1>1, <1>2, TrustOrder
<1>5. Trust[earned] <= Trust[earned]
  <2>1. Trust[earned] \in 0..2
    BY <1>1, TrustOrder
  <2> QED
    BY <2>1
<1>6. /\ TechniqueFidelity(m, id) \in Fidelities
      /\ Trust[TechniqueFidelity(m, id)] <= Trust[earned]
      /\ TechniqueFidelity(m, id) = "behavioral" =>
            m.action = "synthetic_canary_encrypt" /\ Canonical(id) = "T1486"
  BY <1>1, <1>3, <1>4, <1>5
<1> QED
  BY <1>6 DEF earned

\* A list of nothing is the empty list.
LEMMA NoEntries ==
    ASSUME NEW r, r = [i \in DOMAIN r |-> r[i]], DOMAIN r = {}
    PROVE  r = <<>>
<1>1. <<>> = [i \in {} |-> r[i]]
  OBVIOUS
<1> QED
  BY <1>1

\* No reference is worth more than its technique, nor its technique than the scenario.
LEMMA RefsAreEarned ==
    ASSUME NEW m, IsManifest(m), Valid(m), NEW i \in DOMAIN ResolvedRefs(m)
    PROVE  /\ ResolvedRefs(m)[i].fidelity \in Fidelities
           /\ Trust[ResolvedRefs(m)[i].fidelity] <= Trust[EffectiveFidelity(m)]
           /\ ResolvedRefs(m)[i].fidelity = "behavioral" =>
                 /\ m.action = "synthetic_canary_encrypt"
                 /\ Canonical(ResolvedRefs(m)[i].technique) = "T1486"
<1> DEFINE earned(id) == TechniqueFidelity(m, id)
           effective == EffectiveFidelity(m)
<1>1. effective \in Fidelities
  BY FidelityIsEarned
<1>2. \A id : /\ earned(id) \in Fidelities /\ Trust[earned(id)] <= Trust[effective]
              /\ earned(id) = "behavioral" =>
                    m.action = "synthetic_canary_encrypt" /\ Canonical(id) = "T1486"
  BY TechniqueIsEarned
<1>3. CASE Given(m.refs)
  <2> DEFINE refs == m.refs[1]
             list == [k \in DOMAIN refs |->
                         [technique |-> refs[k].technique,
                          fidelity |-> Weaker(refs[k].fidelity, earned(refs[k].technique))]]
  <2>1. ResolvedRefs(m) = list
    BY <1>3 DEF ResolvedRefs
  <2>2. refs \in References
    BY <1>3, FieldTypes, GivenValue
  <2>3. i \in DOMAIN refs
    BY <2>1
  <2>4. refs[i].fidelity \in Fidelities
    <3>1. refs \in Seq([technique : STRING, fidelity : Fidelities]) /\ i \in 1..Len(refs)
      BY <2>2, <2>3 DEF References
    <3>2. refs[i] \in [technique : STRING, fidelity : Fidelities]
      BY <3>1, ElementOfSeq
    <3> QED
      BY <3>2
  <2> DEFINE claimed == refs[i].fidelity
             id == refs[i].technique
  <2>5. list[i].technique = id /\ list[i].fidelity = Weaker(claimed, earned(id))
    BY <2>3
  <2>6. claimed \in Fidelities
    BY <2>4
  <2> HIDE DEF claimed, id, list, effective, earned
  <2>7. earned(id) \in Fidelities /\ Trust[earned(id)] <= Trust[effective]
        /\ (earned(id) = "behavioral" =>
              m.action = "synthetic_canary_encrypt" /\ Canonical(id) = "T1486")
    BY <1>2
  <2>8. /\ Weaker(claimed, earned(id)) \in Fidelities
        /\ Trust[Weaker(claimed, earned(id))] <= Trust[earned(id)]
        /\ Weaker(claimed, earned(id)) = "behavioral" => earned(id) = "behavioral"
    BY <2>6, <2>7, TrustOrder
  <2>9. Trust[Weaker(claimed, earned(id))] <= Trust[effective]
    <3>1. /\ Trust[Weaker(claimed, earned(id))] \in 0..2 /\ Trust[earned(id)] \in 0..2
          /\ Trust[effective] \in 0..2
      BY <1>1, <2>7, <2>8, TrustOrder
    <3> QED
      BY <3>1, <2>7, <2>8
  <2>10. /\ list[i].fidelity \in Fidelities
         /\ Trust[list[i].fidelity] <= Trust[effective]
         /\ list[i].fidelity = "behavioral" =>
               /\ m.action = "synthetic_canary_encrypt"
               /\ Canonical(list[i].technique) = "T1486"
    BY <2>5, <2>7, <2>8, <2>9
  <2> QED
    BY <2>1, <2>10 DEF effective
<1>4. CASE ~Given(m.refs)
  <2> DEFINE list == [k \in DOMAIN m.technique |->
                         [technique |-> m.technique[k], fidelity |-> earned(m.technique[k])]]
             id == m.technique[i]
  <2>1. ResolvedRefs(m) = list
    BY <1>4 DEF ResolvedRefs
  <2>2. i \in DOMAIN m.technique
    BY <2>1
  <2>3. list[i].technique = id /\ list[i].fidelity = earned(id)
    BY <2>2
  <2> HIDE DEF id, list, effective, earned
  <2>4. /\ list[i].fidelity \in Fidelities
        /\ Trust[list[i].fidelity] <= Trust[effective]
        /\ list[i].fidelity = "behavioral" =>
              /\ m.action = "synthetic_canary_encrypt"
              /\ Canonical(list[i].technique) = "T1486"
    BY <1>2, <2>3
  <2> QED
    BY <2>1, <2>4 DEF effective
<1> QED
  BY <1>3, <1>4

\* The primary technique is the first of the references.
LEMMA PrimaryIsFirst ==
    ASSUME NEW m, IsManifest(m), Valid(m), ResolvedRefs(m) # <<>>
    PROVE  Canonical(ResolvedRefs(m)[1].technique) = PrimaryTechnique(m)
<1> DEFINE named == IF Given(m.refs) /\ m.refs[1] # <<>> THEN <<m.refs[1][1].technique>>
                                                         ELSE m.technique
<1>1. PrimaryTechnique(m) = IF Given(named) /\ Known(named[1]) THEN Canonical(named[1]) ELSE ""
  BY DEF PrimaryTechnique
<1>2. CASE Given(m.refs)
  <2> DEFINE refs == m.refs[1]
             entry(k) == [technique |-> refs[k].technique,
                          fidelity |-> Weaker(refs[k].fidelity,
                                              TechniqueFidelity(m, refs[k].technique))]
             list == [k \in DOMAIN refs |-> entry(k)]
  <2>1. ResolvedRefs(m) = list
    BY <1>2 DEF ResolvedRefs
  <2>2. refs \in Seq([technique : STRING, fidelity : Fidelities])
    BY <1>2, FieldTypes, GivenValue DEF References
  <2>3. refs # <<>>
    <3>1. SUFFICES ASSUME refs = <<>> PROVE FALSE
      OBVIOUS
    <3>2. DOMAIN list = DOMAIN refs /\ list = [k \in DOMAIN list |-> list[k]]
      OBVIOUS
    <3>3. DOMAIN refs = {}
      BY <3>1
    <3> HIDE DEF list, refs
    <3>4. list = <<>>
      BY <3>2, <3>3, NoEntries
    <3> QED
      BY <2>1, <3>4
  <2>4. 1 \in DOMAIN refs
    <3> HIDE DEF refs
    <3> QED
      BY <2>2, <2>3, EmptySeq, LenProperties
  <2>5. list[1].technique = refs[1].technique
    BY <2>4
  <2>6. named = <<refs[1].technique>>
    BY <1>2, <2>3
  <2>7. Known(refs[1].technique)
    BY <1>2, <2>4 DEF Valid
  <2>8. Given(named) /\ named[1] = refs[1].technique
    BY <2>6 DEF Given
  <2> HIDE DEF named, list, refs
  <2> QED
    BY <1>1, <2>1, <2>5, <2>7, <2>8
<1>3. CASE ~Given(m.refs)
  <2> DEFINE entry(k) == [technique |-> m.technique[k],
                          fidelity |-> TechniqueFidelity(m, m.technique[k])]
             list == [k \in DOMAIN m.technique |-> entry(k)]
  <2>1. ResolvedRefs(m) = list
    BY <1>3 DEF ResolvedRefs
  <2>2. named = m.technique
    BY <1>3
  <2>3. m.technique # <<>>
    <3>1. SUFFICES ASSUME m.technique = <<>> PROVE FALSE
      OBVIOUS
    <3>2. DOMAIN list = DOMAIN m.technique /\ list = [k \in DOMAIN list |-> list[k]]
      OBVIOUS
    <3>3. DOMAIN m.technique = {}
      BY <3>1
    <3> HIDE DEF list
    <3>4. list = <<>>
      BY <3>2, <3>3, NoEntries
    <3> QED
      BY <2>1, <3>4
  <2>4. Given(m.technique)
    BY <2>3 DEF Given
  <2>5. 1 \in DOMAIN m.technique
    BY <2>4, FieldTypes, GivenValue
  <2>6. list[1].technique = m.technique[1]
    BY <2>5
  <2>7. Known(m.technique[1])
    BY <2>4 DEF Valid
  <2> HIDE DEF named, list
  <2> QED
    BY <1>1, <2>1, <2>2, <2>4, <2>6, <2>7
<1> QED
  BY <1>2, <1>3

\* Nothing that is admitted is promoted.
LEMMA ValidIsNotPromoted ==
    ASSUME IsManifest(manifest)
    PROVE  NeverPromoted
<1> DEFINE m == manifest
           answer == Validation(m)
<1>1. CASE ~Valid(m)
  <2>1. answer = [valid |-> "no"]
    BY <1>1 DEF Validation
  <2>2. answer.valid # "yes"
    BY <2>1
  <2> QED
    BY <2>2 DEF NeverPromoted
<1>2. CASE Valid(m)
  <2>1. /\ answer.technique = PrimaryTechnique(m)
        /\ answer.fidelity = EffectiveFidelity(m) /\ answer.refs = ResolvedRefs(m)
    BY <1>2 DEF Validation
  <2> HIDE DEF answer
  <2>2. ASSUME answer.fidelity # "unspecified"
        PROVE  m.api = "v1alpha2" /\ Trust[answer.fidelity] <= Trust[m.fidelity[1]]
    BY <1>2, <2>1, <2>2, FidelityIsEarned
  <2>3. ASSUME ClaimsBehavioral(answer.fidelity)
        PROVE  m.action \in {"synthetic_canary_encrypt", "latency_spike"}
    BY <1>2, <2>1, <2>3, FidelityIsEarned DEF ClaimsBehavioral
  <2>4. ASSUME NEW i \in DOMAIN answer.refs
        PROVE  /\ Trust[answer.refs[i].fidelity] <= Trust[answer.fidelity]
               /\ ClaimsBehavioral(answer.refs[i].fidelity) =>
                     /\ m.action = "synthetic_canary_encrypt"
                     /\ Canonical(answer.refs[i].technique) = "T1486"
    BY <1>2, <2>1, <2>4, RefsAreEarned DEF ClaimsBehavioral
  <2>5. ASSUME answer.refs # <<>>
        PROVE  Canonical(answer.refs[1].technique) = answer.technique
    BY <1>2, <2>1, <2>5, PrimaryIsFirst
  <2> QED
    BY <2>2, <2>3, <2>4, <2>5 DEF NeverPromoted, answer
<1> QED
  BY <1>1, <1>2

\* The type invariant of the manifest.
ManifestTypeOK == IsManifest(manifest)

\* Editing a field leaves what the parser may leave there (serde's types).
THEOREM ManifestTyped == ManifestSpec => []ManifestTypeOK
<1>1. ManifestInit => ManifestTypeOK
  BY BasesAssumption DEF ManifestInit, ManifestTypeOK
<1>2. ManifestTypeOK /\ [ManifestNext]_manifestVars => ManifestTypeOK'
  <2> SUFFICES ASSUME IsManifest(manifest), [ManifestNext]_manifestVars
               PROVE  IsManifest(manifest')
    BY DEF ManifestTypeOK
  <2>1. CASE ManifestNext
    <3>1. PICK field \in DOMAIN Values : Edit(field)
      BY <2>1 DEF ManifestNext
    <3>2. PICK value \in Values[field] :
             manifest' = [manifest EXCEPT ![field] = value]
      BY <3>1 DEF Edit
    <3>3. Parsed(field, value)
      BY ValuesAssumption
    <3>4. DOMAIN manifest' = DOMAIN manifest
      BY <3>2
    <3>5. \A x \in Fields : manifest'[x] = IF x = field THEN value ELSE manifest[x]
      BY <3>2 DEF IsManifest
    <3> QED
      BY <3>3, <3>4, <3>5 DEF IsManifest
  <2>2. CASE UNCHANGED manifestVars
    BY <2>2 DEF manifestVars
  <2> QED
    BY <2>1, <2>2
<1> QED
  BY <1>1, <1>2, PTL DEF ManifestSpec

\* Whatever an author writes, what validate_manifest admits compiles to a plan that
\* stays in the canary roots, the reserved networks and the limits, and claims no
\* more than its executor does.
THEOREM ManifestsCorrect == ManifestSpec => []ManifestsAreConfined
<1>1. ManifestTypeOK => ManifestsAreConfined
  BY ValidIsConfined, ValidIsNotPromoted DEF ManifestsAreConfined, ManifestTypeOK
<1> QED
  BY <1>1, ManifestTyped, PTL

-----------------------------------------------------------------------------
(* The catalog: the inductive invariant *)

\* The valid files that have been read.
Taken == {f \in ManifestFiles \ unread : Loads(disk[f])}

\* What the author put there, as the parser leaves it.
DiskInv ==
    /\ DOMAIN disk = ManifestFiles
    /\ \A f \in ManifestFiles : Given(disk[f]) => IsManifest(disk[f][1])
    /\ unread \subseteq ManifestFiles
    /\ phase \in {"down", "loading", "serving", "refused"}
    /\ phase = "serving" => unread = {}

\* Every entry is a built-in one that no file replaces, or that of a file read.
ListedInv ==
    phase \in {"loading", "serving"} =>
        /\ DOMAIN entries = BuiltIn \cup {disk[f][1].id : f \in Taken}
        /\ \A id \in DOMAIN entries :
              \/ /\ id \in BuiltIn /\ \A f \in Taken : disk[f][1].id # id
                 /\ entries[id] = SeededEntry(id, catalogKey)
              \/ \E f \in Taken : /\ disk[f][1].id = id
                                  /\ entries[id] = LoadedEntry(disk[f][1], catalogKey)

CatalogInv == DiskInv /\ ListedInv

-----------------------------------------------------------------------------
(* The built-in scenarios *)

Home == <<"", "tmp", "asmodeus-canary", "">>

\* The built-in ids are those that have an action, which is one the executor knows.
LEMMA BuiltInActions ==
    /\ \A id \in BuiltIn : id \in DOMAIN ActionFor /\ ActionFor[id] \in Actions
BY DEF BuiltIn, Profile, ActionFor, Actions

\* The fields of a built-in manifest.
LEMMA SeededFields ==
    ASSUME NEW id \in BuiltIn
    PROVE  LET m == SeededManifest(id)
           IN  /\ m.id = id /\ m.api = "v1alpha1" /\ m.nature = "synthetic"
               /\ m.action = ActionFor[id]
               /\ m.duration = 60 /\ m.cpu = 25 /\ m.canary = <<>> /\ m.breaker = "on"
               /\ m.selector = {} /\ m.target = <<Home>> /\ m.cidr = <<>> /\ m.iface = <<>>
               /\ m.technique = Primary(id) /\ m.refs = <<>> /\ m.fidelity = <<>>
               /\ DOMAIN m.params \subseteq {"file_count", "chunk_size_kb"}
               /\ "file_count" \in DOMAIN m.params =>
                     ActionFor[id] \in {"synthetic_canary_encrypt", "c2_beacon"}
               /\ "chunk_size_kb" \in DOMAIN m.params =>
                     ActionFor[id] \in {"synthetic_canary_encrypt", "exfiltration_canary"}
               /\ \A name \in DOMAIN m.params :
                     m.params[name] = IF name = "file_count" THEN 20 ELSE 64
<1> DEFINE action == ActionFor[id]
           files == IF action \in {"synthetic_canary_encrypt", "c2_beacon"}
                    THEN {"file_count"} ELSE {}
           chunks == IF action \in {"synthetic_canary_encrypt", "exfiltration_canary"}
                     THEN {"chunk_size_kb"} ELSE {}
           params == [name \in files \cup chunks |-> IF name = "file_count" THEN 20 ELSE 64]
           m == SeededManifest(id)
<1>1. m = [[id |-> id, api |-> "v1alpha1", nature |-> "synthetic", action |-> action,
            duration |-> 60, cpu |-> 25, canary |-> <<>>, breaker |-> "on", selector |-> {},
            target |-> <<Home>>, cidr |-> <<>>, iface |-> <<>>, params |-> params,
            technique |-> <<>>, refs |-> <<>>, fidelity |-> <<>>]
              EXCEPT !.technique = Primary(id)]
  BY DEF SeededManifest, SyntheticManifest, Home
<1>2. DOMAIN params = files \cup chunks
  OBVIOUS
<1>3. \A name \in DOMAIN params : params[name] = IF name = "file_count" THEN 20 ELSE 64
  OBVIOUS
<1>4. /\ DOMAIN params \subseteq {"file_count", "chunk_size_kb"}
      /\ "file_count" \in DOMAIN params =>
            action \in {"synthetic_canary_encrypt", "c2_beacon"}
      /\ "chunk_size_kb" \in DOMAIN params =>
            action \in {"synthetic_canary_encrypt", "exfiltration_canary"}
  BY <1>2
<1> HIDE DEF m, params, action
<1>5. /\ m.id = id /\ m.api = "v1alpha1" /\ m.nature = "synthetic" /\ m.action = action
      /\ m.duration = 60 /\ m.cpu = 25 /\ m.canary = <<>> /\ m.breaker = "on"
      /\ m.selector = {} /\ m.target = <<Home>> /\ m.cidr = <<>> /\ m.iface = <<>>
      /\ m.technique = Primary(id) /\ m.refs = <<>> /\ m.fidelity = <<>>
      /\ m.params = params
  BY <1>1
<1>6. DOMAIN m.params = DOMAIN params /\ \A name : m.params[name] = params[name]
  BY <1>5
<1> QED
  BY <1>3, <1>4, <1>5, <1>6 DEF m, action

\* A profile names techniques of the taxonomy.
LEMMA ProfilesAreKnown ==
    \A id \in BuiltIn :
        /\ Profile[id].fidelity \in Fidelities
        /\ Profile[id].techniques = <<>> \/
              /\ Known(Profile[id].techniques[1])
              /\ Len(Profile[id].techniques) \in Nat \ {0}
<1> SUFFICES ASSUME NEW id \in BuiltIn
             PROVE  /\ Profile[id].fidelity \in Fidelities
                    /\ Profile[id].techniques = <<>> \/
                          /\ Known(Profile[id].techniques[1])
                          /\ Len(Profile[id].techniques) \in Nat \ {0}
  OBVIOUS
<1>1. {"T1486", "T1611", "T1071", "T1003", "T1070", "T1053", "T1041", "T1562"}
         \subseteq KnownTechniques
  BY DEF KnownTechniques
<1>2. \A t \in {"T1486", "T1611", "T1071", "T1003", "T1070", "T1053", "T1041", "T1562"} :
         Known(t)
  BY <1>1 DEF Known, Canonical
<1>3. Profile[id].fidelity \in Fidelities
  BY DEF BuiltIn, Profile, Fidelities
<1>4. \/ Profile[id].techniques = <<>>
      \/ \E t \in {"T1486", "T1611", "T1003", "T1070", "T1053", "T1041", "T1562"} :
            Profile[id].techniques = <<t>>
      \/ Profile[id].techniques = <<"T1071", "T1071.001", "T1071.004", "T1568">>
      \/ Profile[id].techniques = <<"T1562", "T1562.001">>
  BY DEF BuiltIn, Profile
<1> QED
  BY <1>2, <1>3, <1>4

\* The directory that built-in manifests name is below the first root.
LEMMA HomeInScope == PathInScope(Home)
<1>1. Home \in Seq(Word) /\ Len(Home) = 4
  BY RootsAreWords, FourWords DEF Home
<1>2. Home[1] = "" /\ Home[2] = "tmp" /\ Home[3] = "asmodeus-canary" /\ Home[4] = ""
  BY DEF Home
<1>3. \A i \in DOMAIN Home : Home[i] # ".."
  <2>1. DOMAIN Home = 1..4
    BY <1>1, LenProperties
  <2>2. \A i \in 1..4 : i = 1 \/ i = 2 \/ i = 3 \/ i = 4
    OBVIOUS
  <2>3. Home[1] # ".." /\ Home[2] # ".." /\ Home[3] # ".." /\ Home[4] # ".."
    BY <1>2, Zenon
  <2> QED
    BY <2>1, <2>2, <2>3
<1>4. Begins(Home, Root)
  <2>1. \A i \in 1..3 : i = 1 \/ i = 2 \/ i = 3
    OBVIOUS
  <2>2. Home[1] = Root[1] /\ Home[2] = Root[2] /\ Home[3] = Root[3]
    BY <1>2, RootSpelled, Zenon
  <2>3. \A i \in 1..3 : Home[i] = Root[i]
    BY <2>1, <2>2
  <2>4. Len(Root) = 3 /\ Root \in Seq(Word)
    BY RootLengths, RootsAreWords
  <2>5. \A i \in 1..Len(Root) : Home[i] = Root[i]
    BY <2>3, <2>4
  <2>6. Len(Root) <= Len(Home)
    BY <1>1, <2>4
  <2> QED
    BY <1>1, <2>4, <2>5, <2>6, BeginsByNames
<1>5. Len(Home) > Len(Root) /\ Root \in CanaryRoots
  BY <1>1, RootLengths DEF CanaryRoots, Root
<1> QED
  BY <1>3, <1>4, <1>5 DEF PathInScope

\* A built-in manifest is one that validate_manifest admits.
LEMMA SeededIsValid ==
    ASSUME NEW id \in BuiltIn
    PROVE  Valid(SeededManifest(id))
<1> DEFINE m == SeededManifest(id)
<1>1. /\ m.api = "v1alpha1" /\ m.nature = "synthetic" /\ m.action = ActionFor[id]
      /\ m.canary = <<>> /\ m.breaker = "on" /\ m.selector = {} /\ m.target = <<Home>>
      /\ m.cidr = <<>> /\ m.iface = <<>> /\ m.technique = Primary(id)
      /\ m.refs = <<>> /\ m.fidelity = <<>>
  BY SeededFields
<1>2. m.duration = 60 /\ m.cpu = 25
  BY SeededFields
<1>3. /\ DOMAIN m.params \subseteq {"file_count", "chunk_size_kb"}
      /\ "file_count" \in DOMAIN m.params =>
            m.action \in {"synthetic_canary_encrypt", "c2_beacon"}
      /\ "chunk_size_kb" \in DOMAIN m.params =>
            m.action \in {"synthetic_canary_encrypt", "exfiltration_canary"}
  BY SeededFields
<1>4. \A name \in DOMAIN m.params : m.params[name] = IF name = "file_count" THEN 20 ELSE 64
  BY SeededFields
<1> HIDE DEF m
<1>5. m.action \in Actions
  BY <1>1, BuiltInActions
<1>6. ~Given(m.canary) /\ ~Given(m.cidr) /\ ~Given(m.iface) /\ ~Given(m.refs)
      /\ ~Given(m.fidelity)
  BY <1>1 DEF Given
<1>7. m.target[1] = Home
  BY <1>1
<1>8. ASSUME Given(m.technique) PROVE Known(m.technique[1])
  <2> DEFINE s == Profile[id].techniques
             k == Min2(1, Len(s))
  <2>1. m.technique = SubSeq(s, 1, k)
    BY <1>1 DEF Primary
  <2>2. s # <<>>
    <3>1. SUFFICES ASSUME s = <<>> PROVE FALSE
      OBVIOUS
    <3>2. SubSeq(<<>>, 1, 0) = <<>> /\ Len(<<>>) = 0 /\ Min2(1, 0) = 0
      BY DEF Min2
    <3>3. m.technique = <<>>
      BY <2>1, <3>1, <3>2
    <3> QED
      BY <1>8, <3>3 DEF Given
  <2>3. Known(s[1]) /\ Len(s) \in Nat \ {0}
    BY <2>2, ProfilesAreKnown
  <2>4. k = 1
    <3>1. \A n \in Nat \ {0} : Min2(1, n) = 1
      BY DEF Min2
    <3>2. Len(s) \in Nat \ {0}
      BY <2>3
    <3> QED
      BY <3>1, <3>2, Zenon
  <2> HIDE DEF s, k
  <2>5. SubSeq(s, 1, 1)[1] = s[1]
    OBVIOUS
  <2> QED
    BY <2>1, <2>3, <2>4, <2>5
<1>9. DOMAIN m.params \subseteq Allowed(m.action)
  <2>1. ASSUME NEW name \in DOMAIN m.params PROVE name \in Allowed(m.action)
    <3>1. CASE m.action = "synthetic_canary_encrypt"
      <4>1. Allowed(m.action) = {"duration_ms", "file_count", "chunk_size_kb",
                                 "io_rate_per_sec"}
        BY <3>1 DEF Allowed
      <4> QED
        BY <1>3, <4>1
    <3>2. CASE m.action = "c2_beacon"
      <4>1. Allowed(m.action) = {"duration_ms", "file_count"}
        BY <3>2 DEF Allowed
      <4> QED
        BY <1>3, <3>2, <4>1
    <3>3. CASE m.action = "exfiltration_canary"
      <4>1. Allowed(m.action) = {"duration_ms", "chunk_size_kb"}
        BY <3>3 DEF Allowed
      <4> QED
        BY <1>3, <3>3, <4>1
    <3> QED
      BY <1>3, <2>1, <3>1, <3>2, <3>3
  <2> QED
    BY <2>1
<1>10. \A name \in DOMAIN m.params : m.params[name] \in Bounds(m.action)[name]
  <2>1. Bounds(m.action)["file_count"] = 1..(IF m.action = "c2_beacon" THEN 100 ELSE 200)
    BY DEF Bounds
  <2>2. Bounds(m.action)["chunk_size_kb"] = 1..256
    BY DEF Bounds
  <2>3. 20 \in 1..(IF m.action = "c2_beacon" THEN 100 ELSE 200) /\ 64 \in 1..256
    OBVIOUS
  <2>4. 20 \in Bounds(m.action)["file_count"] /\ 64 \in Bounds(m.action)["chunk_size_kb"]
    BY <2>1, <2>2, <2>3
  <2>5. ASSUME NEW name \in DOMAIN m.params PROVE m.params[name] \in Bounds(m.action)[name]
    <3>1. name = "file_count" \/ name = "chunk_size_kb"
      BY <1>3
    <3>2. m.params[name] = IF name = "file_count" THEN 20 ELSE 64
      BY <1>4
    <3> QED
      BY <2>4, <3>1, <3>2
  <2> QED
    BY <2>5
<1>11. /\ Number(m, "file_count") = 20 /\ Number(m, "chunk_size_kb") = 64
       /\ Number(m, "duration_ms") = 0
  <2>1. Default["file_count"] = 20 /\ Default["chunk_size_kb"] = 64
        /\ Default["duration_ms"] = 0
    BY DEF Default
  <2>2. "duration_ms" \notin DOMAIN m.params
    BY <1>3
  <2> QED
    BY <1>4, <2>1, <2>2 DEF Number
<1>12. Number(m, "file_count") * Number(m, "chunk_size_kb") <= 20 * 1024
       /\ Number(m, "duration_ms") <= 1000 * m.duration
  <2>1. 20 * 64 <= 20 * 1024 /\ 0 <= 1000 * 60
    OBVIOUS
  <2> QED
    BY <1>2, <1>11, <2>1
<1>13. m.duration > 0 /\ m.cpu > 0 /\ m.duration <= 300 /\ m.cpu <= 85
  BY <1>2
<1>14. Compiles(m)
  BY <1>1, <1>5, <1>6, <1>9, <1>10, <1>12, <1>13, ZenonT(40) DEF Compiles
<1>15. m.api \in {"v1alpha1", "v1alpha2"}
  BY <1>1
<1>16. Valid(m)
  BY <1>1, <1>6, <1>7, <1>8, <1>13, <1>14, <1>15, HomeInScope DEF Valid
<1> QED
  BY <1>16 DEF m

-----------------------------------------------------------------------------
(* Entries *)

\* What is right about an entry that is listed under an id and signed with k.
IsEntry(entry, id, k) ==
    /\ entry.manifest.id = id /\ Valid(entry.manifest)
    /\ entry.manifest.duration \in Nat
    /\ entry.signature = [of |-> entry.manifest, by |-> k]
    /\ ClaimsBehavioral(entry.fidelity) =>
          entry.manifest.action \in {"synthetic_canary_encrypt", "latency_spike"}
    /\ \A i \in DOMAIN entry.refs :
          /\ entry.refs[i].fidelity \in Fidelities
          /\ entry.refs[i].fidelity = "behavioral" =>
                /\ entry.manifest.action = "synthetic_canary_encrypt"
                /\ Canonical(entry.refs[i].technique) = "T1486"
    /\ entry.refs # <<>> => Canonical(entry.refs[1].technique) = entry.technique

\* That of a valid file is,
LEMMA LoadedIsEntry ==
    ASSUME NEW m, IsManifest(m), Valid(m), NEW k
    PROVE  IsEntry(LoadedEntry(m, k), m.id, k)
<1> DEFINE e == LoadedEntry(m, k)
<1>1. /\ e.manifest = m /\ e.signature = [of |-> m, by |-> k]
      /\ e.technique = PrimaryTechnique(m) /\ e.fidelity = EffectiveFidelity(m)
      /\ e.refs = ResolvedRefs(m)
  BY DEF LoadedEntry
<1> HIDE DEF e
<1>2. m.duration \in Nat
  BY FieldTypes
<1>3. ASSUME ClaimsBehavioral(e.fidelity)
      PROVE  m.action \in {"synthetic_canary_encrypt", "latency_spike"}
  BY <1>1, <1>3, FidelityIsEarned DEF ClaimsBehavioral
<1>4. ASSUME NEW i \in DOMAIN e.refs
      PROVE  /\ e.refs[i].fidelity \in Fidelities
             /\ e.refs[i].fidelity = "behavioral" =>
                   /\ m.action = "synthetic_canary_encrypt"
                   /\ Canonical(e.refs[i].technique) = "T1486"
  BY <1>1, <1>4, RefsAreEarned
<1>5. ASSUME e.refs # <<>> PROVE Canonical(e.refs[1].technique) = e.technique
  BY <1>1, <1>5, PrimaryIsFirst
<1> QED
  BY <1>1, <1>2, <1>3, <1>4, <1>5 DEF IsEntry, e

\* and so is a built-in one.
LEMMA SeededIsEntry ==
    ASSUME NEW id \in BuiltIn, NEW k
    PROVE  IsEntry(SeededEntry(id, k), id, k)
<1> DEFINE m == SeededManifest(id)
           e == SeededEntry(id, k)
           s == Profile[id].techniques
           refs == [i \in DOMAIN s |->
                       [technique |-> s[i], fidelity |-> Profile[id].fidelity]]
<1>1. /\ e.manifest = m /\ e.signature = [of |-> m, by |-> k]
      /\ e.technique = PrimaryTechnique(m) /\ e.fidelity = Profile[id].fidelity
      /\ e.refs = refs
  BY DEF SeededEntry
<1>2. m.id = id /\ m.action = ActionFor[id] /\ m.technique = Primary(id) /\ m.refs = <<>>
  BY SeededFields
<1>3. m.duration \in Nat
  <2>1. m.duration = 60
    BY SeededFields
  <2> QED
    BY <2>1
<1>4. Valid(m)
  BY SeededIsValid
<1>5. Profile[id].fidelity = "behavioral" =>
         /\ ActionFor[id] \in {"synthetic_canary_encrypt", "latency_spike"}
         /\ s = <<>> \/ (ActionFor[id] = "synthetic_canary_encrypt" /\ s = <<"T1486">>)
  BY DEF BuiltIn, Profile, ActionFor
<1>6. Canonical("T1486") = "T1486"
  BY DEF Canonical
<1>7. DOMAIN refs = DOMAIN s /\ refs = [i \in DOMAIN refs |-> refs[i]]
  OBVIOUS
<1>8. \A i \in DOMAIN s : refs[i].technique = s[i] /\ refs[i].fidelity = Profile[id].fidelity
  OBVIOUS
<1>9. Profile[id].fidelity \in Fidelities
  BY ProfilesAreKnown
<1> HIDE DEF e, m, refs
<1>10. ASSUME NEW i \in DOMAIN refs
       PROVE  /\ refs[i].fidelity \in Fidelities
              /\ refs[i].fidelity = "behavioral" =>
                    /\ ActionFor[id] = "synthetic_canary_encrypt"
                    /\ Canonical(refs[i].technique) = "T1486"
  <2>1. i \in DOMAIN s /\ refs[i].technique = s[i] /\ refs[i].fidelity = Profile[id].fidelity
    BY <1>7, <1>8
  <2>2. ASSUME refs[i].fidelity = "behavioral"
        PROVE  ActionFor[id] = "synthetic_canary_encrypt" /\ s[i] = "T1486"
    <3>1. s # <<>>
      BY <2>1
    <3>2. s = <<"T1486">> /\ ActionFor[id] = "synthetic_canary_encrypt"
      BY <1>5, <2>1, <2>2, <3>1
    <3> QED
      BY <2>1, <3>2
  <2> QED
    BY <1>6, <1>9, <2>1, <2>2
<1>11. ASSUME refs # <<>> PROVE Canonical(refs[1].technique) = PrimaryTechnique(m)
  <2>1. s # <<>>
    <3>1. SUFFICES ASSUME s = <<>> PROVE FALSE
      OBVIOUS
    <3>2. DOMAIN refs = {}
      BY <1>7, <3>1
    <3> QED
      BY <1>7, <1>11, <3>2, NoEntries
  <2>2. Known(s[1]) /\ Len(s) \in Nat \ {0}
    BY <2>1, ProfilesAreKnown
  <2>3. 1 \in DOMAIN s
    BY <2>1 DEF BuiltIn, Profile
  <2>4. m.technique = SubSeq(s, 1, 1)
    <3>2. \A n \in Nat \ {0} : Min2(1, n) = 1
      BY DEF Min2
    <3>3. Len(s) \in Nat \ {0}
      BY <2>2
    <3>1. Min2(1, Len(s)) = 1
      BY <3>2, <3>3, Zenon
    <3> QED
      BY <1>2, <3>1 DEF Primary
  <2> HIDE DEF s
  <2>5. m.technique # <<>> /\ m.technique[1] = s[1]
    <3>1. SubSeq(s, 1, 1)[1] = s[1] /\ Len(SubSeq(s, 1, 1)) = 1
      OBVIOUS
    <3> DEFINE u == SubSeq(s, 1, 1)
    <3>2. u[1] = s[1] /\ Len(u) = 1 /\ m.technique = u
      BY <2>4, <3>1
    <3> HIDE DEF u
    <3>3. u # <<>>
      BY <3>2
    <3> QED
      BY <3>2, <3>3
  <2> DEFINE named == IF Given(m.refs) /\ m.refs[1] # <<>> THEN <<m.refs[1][1].technique>>
                                                           ELSE m.technique
  <2>6. named = m.technique
    BY <1>2 DEF Given
  <2>7. PrimaryTechnique(m) = IF Given(named) /\ Known(named[1]) THEN Canonical(named[1])
                                                                 ELSE ""
    BY DEF PrimaryTechnique
  <2>8. Given(m.technique)
    BY <2>5 DEF Given
  <2> HIDE DEF named
  <2>9. PrimaryTechnique(m) = Canonical(s[1])
    BY <2>2, <2>5, <2>6, <2>7, <2>8
  <2>10. refs[1].technique = s[1]
    BY <1>8, <2>3
  <2> QED
    BY <2>9, <2>10
<1>12. ASSUME ClaimsBehavioral(e.fidelity)
       PROVE  m.action \in {"synthetic_canary_encrypt", "latency_spike"}
  BY <1>1, <1>2, <1>5, <1>12 DEF ClaimsBehavioral
<1>13. IsEntry(e, id, k)
  BY <1>1, <1>2, <1>3, <1>4, <1>10, <1>11, <1>12 DEF IsEntry
<1> QED
  BY <1>13 DEF e

-----------------------------------------------------------------------------
(* The catalog: its steps *)

\* Nothing is read before the startup.
LEMMA CatalogStarts == CatalogInit => CatalogInv
<1> SUFFICES ASSUME CatalogInit PROVE CatalogInv
  OBVIOUS
<1>1. DOMAIN disk = ManifestFiles /\ \A f \in ManifestFiles : ~Given(disk[f])
  BY DEF CatalogInit, Given
<1>2. phase = "down" /\ unread = {}
  BY DEF CatalogInit
<1> QED
  BY <1>1, <1>2 DEF CatalogInv, DiskInv, ListedInv

\* The author changes a file while nothing runs.
LEMMA WriteKeeps ==
    ASSUME CatalogInv, NEW f \in ManifestFiles, WriteManifest(f)
    PROVE  CatalogInv'
<1>1. PICK draft \in Drafts[f] : disk' = [disk EXCEPT ![f] = draft]
  BY DEF WriteManifest
<1>2. phase = "down" /\ UNCHANGED <<phase, unread>>
  BY DEF WriteManifest
<1>3. DOMAIN disk = ManifestFiles /\ unread \subseteq ManifestFiles
      /\ \A g \in ManifestFiles : Given(disk[g]) => IsManifest(disk[g][1])
  BY DEF CatalogInv, DiskInv
<1>4. Given(draft) => IsManifest(draft[1])
  BY DraftsAssumption
<1>5. \A g \in ManifestFiles : disk'[g] = IF g = f THEN draft ELSE disk[g]
  BY <1>1, <1>3
<1>6. DOMAIN disk' = ManifestFiles
  BY <1>1, <1>3
<1>7. \A g \in ManifestFiles : Given(disk'[g]) => IsManifest(disk'[g][1])
  BY <1>3, <1>4, <1>5
<1> QED
  BY <1>2, <1>3, <1>6, <1>7 DEF CatalogInv, DiskInv, ListedInv

\* A startup lists the built-in scenarios first, with the key that it was given.
LEMMA StartKeeps ==
    ASSUME CatalogInv, NEW configured, NEW endpoint, StartCatalog(configured, endpoint)
    PROVE  CatalogInv'
<1>1. CASE phase' = "refused"
  <2>1. disk' = disk /\ unread' = {}
    BY <1>1 DEF StartCatalog
  <2> QED
    BY <1>1, <2>1 DEF CatalogInv, DiskInv, ListedInv
<1>2. CASE phase' # "refused"
  <2>1. /\ phase' = "loading" /\ unread' = ManifestFiles /\ disk' = disk
        /\ catalogKey' = configured
        /\ entries' = [id \in BuiltIn |-> SeededEntry(id, configured)]
    BY <1>2 DEF StartCatalog, Signer
  <2>2. Taken' = {}
    BY <2>1 DEF Taken
  <2>3. DOMAIN entries' = BuiltIn
    BY <2>1
  <2>4. \A id \in BuiltIn : entries'[id] = SeededEntry(id, catalogKey')
    BY <2>1
  <2>5. DiskInv'
    BY <2>1 DEF CatalogInv, DiskInv
  <2>6. ListedInv'
    BY <2>2, <2>3, <2>4 DEF ListedInv
  <2> QED
    BY <2>5, <2>6 DEF CatalogInv
<1> QED
  BY <1>1, <1>2

\* A file that is valid puts its entry in place of one with its id, a built-in one
\* or that of a file before it; one that is not changes nothing.
LEMMA LoadKeeps ==
    ASSUME CatalogInv, NEW f \in ManifestFiles, LoadFile(f)
    PROVE  CatalogInv'
<1>1. /\ phase = "loading" /\ f \in unread /\ unread' = unread \ {f}
      /\ UNCHANGED <<disk, phase, catalogKey>>
  BY DEF LoadFile
<1>2. DiskInv'
  BY <1>1 DEF CatalogInv, DiskInv
<1>3. Taken' = IF Loads(disk[f]) THEN Taken \cup {f} ELSE Taken
  <2>1. ManifestFiles \ unread' = (ManifestFiles \ unread) \cup {f}
    BY <1>1
  <2> QED
    BY <1>1, <2>1 DEF Taken
<1>4. /\ DOMAIN entries = BuiltIn \cup {disk[g][1].id : g \in Taken}
      /\ \A id \in DOMAIN entries :
            \/ /\ id \in BuiltIn /\ \A g \in Taken : disk[g][1].id # id
               /\ entries[id] = SeededEntry(id, catalogKey)
            \/ \E g \in Taken : /\ disk[g][1].id = id
                                /\ entries[id] = LoadedEntry(disk[g][1], catalogKey)
  BY <1>1 DEF CatalogInv, ListedInv
<1>5. CASE ~Loads(disk[f])
  <2>1. entries' = entries /\ Taken' = Taken
    BY <1>3, <1>5 DEF LoadFile
  <2>2. ListedInv'
    BY <1>1, <1>4, <2>1 DEF ListedInv
  <2> QED
    BY <1>2, <2>2 DEF CatalogInv
<1>6. CASE Loads(disk[f])
  <2> DEFINE new == disk[f][1].id
             entry == LoadedEntry(disk[f][1], catalogKey)
  <2>1. entries' = [i \in DOMAIN entries \cup {new} |-> IF i = new THEN entry ELSE entries[i]]
    BY <1>6 DEF LoadFile, Put
  <2>2. Taken' = Taken \cup {f}
    BY <1>3, <1>6
  <2> HIDE DEF entry
  <2>3. DOMAIN entries' = BuiltIn \cup {disk'[g][1].id : g \in Taken'}
    BY <1>1, <1>4, <2>1, <2>2
  <2>4. ASSUME NEW id \in DOMAIN entries'
        PROVE  \/ /\ id \in BuiltIn /\ \A g \in Taken' : disk'[g][1].id # id
                  /\ entries'[id] = SeededEntry(id, catalogKey')
               \/ \E g \in Taken' : /\ disk'[g][1].id = id
                                    /\ entries'[id] = LoadedEntry(disk'[g][1], catalogKey')
    <3>1. CASE id = new
      <4>1. entries'[id] = entry
        BY <2>1, <3>1
      <4>2. f \in Taken' /\ disk'[f][1].id = id
            /\ entries'[id] = LoadedEntry(disk'[f][1], catalogKey')
        BY <1>1, <2>2, <3>1, <4>1 DEF entry
      <4> QED
        BY <4>2
    <3>2. CASE id # new
      <4>1. id \in DOMAIN entries /\ entries'[id] = entries[id]
        BY <2>1, <2>4, <3>2
      <4>2. CASE /\ id \in BuiltIn /\ \A g \in Taken : disk[g][1].id # id
                 /\ entries[id] = SeededEntry(id, catalogKey)
        BY <1>1, <2>2, <3>2, <4>1, <4>2
      <4>3. CASE \E g \in Taken : /\ disk[g][1].id = id
                                  /\ entries[id] = LoadedEntry(disk[g][1], catalogKey)
        BY <1>1, <2>2, <4>1, <4>3
      <4> QED
        BY <1>4, <4>1, <4>2, <4>3
    <3> QED
      BY <3>1, <3>2
  <2>5. ListedInv'
    BY <2>3, <2>4 DEF ListedInv
  <2> QED
    BY <1>2, <2>5 DEF CatalogInv
<1> QED
  BY <1>5, <1>6

\* What is known of the catalog at any time.
THEOREM CatalogInvariant == CatalogSpec => []CatalogInv
<1>1. CatalogInit => CatalogInv
  BY CatalogStarts
<1>2. CatalogInv /\ [CatalogNext]_catalogVars => CatalogInv'
  <2> SUFFICES ASSUME CatalogInv, [CatalogNext]_catalogVars PROVE CatalogInv'
    OBVIOUS
  <2>1. ASSUME NEW f \in ManifestFiles, WriteManifest(f) PROVE CatalogInv'
    BY <2>1, WriteKeeps
  <2>2. ASSUME NEW f \in ManifestFiles, LoadFile(f) PROVE CatalogInv'
    BY <2>2, LoadKeeps
  <2>3. ASSUME NEW configured \in {RunnerKey, Generated}, NEW endpoint \in {"set", "unset"},
               StartCatalog(configured, endpoint)
        PROVE  CatalogInv'
    BY <2>3, StartKeeps
  <2>4. CASE ListingFails
    <3>1. phase' = "refused" /\ unread' = {} /\ disk' = disk
      BY <2>4 DEF ListingFails
    <3> QED
      BY <3>1 DEF CatalogInv, DiskInv, ListedInv
  <2>5. CASE Serve
    <3>1. /\ phase = "loading" /\ unread = {} /\ phase' = "serving"
          /\ UNCHANGED <<disk, catalogKey, entries, unread>>
      BY <2>5 DEF Serve
    <3>2. DiskInv'
      BY <3>1 DEF CatalogInv, DiskInv
    <3>3. Taken' = Taken
      BY <3>1 DEF Taken
    <3>4. ListedInv'
      BY <3>1, <3>3 DEF CatalogInv, ListedInv
    <3> QED
      BY <3>2, <3>4 DEF CatalogInv
  <2>6. CASE StopCatalog
    <3>1. phase' = "down" /\ unread' = {} /\ disk' = disk
      BY <2>6 DEF StopCatalog
    <3> QED
      BY <3>1 DEF CatalogInv, DiskInv, ListedInv
  <2>7. CASE UNCHANGED catalogVars
    <3>1. UNCHANGED <<disk, phase, catalogKey, entries, unread>>
      BY <2>7 DEF catalogVars
    <3>2. Taken' = Taken
      BY <3>1 DEF Taken
    <3> QED
      BY <3>1, <3>2 DEF CatalogInv, DiskInv, ListedInv
  <2> QED
    BY <2>1, <2>2, <2>3, <2>4, <2>5, <2>6, <2>7 DEF CatalogNext
<1> QED
  BY <1>1, <1>2, PTL DEF CatalogSpec

-----------------------------------------------------------------------------
(* The catalog: what it promises *)

\* All that is listed is an entry.
LEMMA ListedAreEntries ==
    ASSUME CatalogInv, phase = "serving", NEW id \in DOMAIN entries
    PROVE  IsEntry(entries[id], id, catalogKey)
<1>1. CASE id \in BuiltIn /\ entries[id] = SeededEntry(id, catalogKey)
  BY <1>1, SeededIsEntry
<1>2. CASE \E f \in Taken : /\ disk[f][1].id = id
                            /\ entries[id] = LoadedEntry(disk[f][1], catalogKey)
  <2>1. PICK f \in Taken : /\ disk[f][1].id = id
                           /\ entries[id] = LoadedEntry(disk[f][1], catalogKey)
    BY <1>2
  <2>2. f \in ManifestFiles /\ Given(disk[f]) /\ Valid(disk[f][1])
    BY <2>1 DEF Taken, Loads
  <2>3. IsManifest(disk[f][1])
    BY <2>2 DEF CatalogInv, DiskInv
  <2> QED
    BY <2>1, <2>2, <2>3, LoadedIsEntry
<1> QED
  BY <1>1, <1>2 DEF CatalogInv, ListedInv

\* CatalogIsDirectory: all files have been read by then.
LEMMA ServesDirectory ==
    ASSUME CatalogInv
    PROVE  CatalogIsDirectory
<1> SUFFICES ASSUME phase = "serving" PROVE CatalogIsDirectory
  BY DEF CatalogIsDirectory
<1> DEFINE valid == {f \in ManifestFiles : Given(disk[f]) /\ Valid(disk[f][1])}
           texts(id) == {disk[f][1] : f \in {g \in valid : disk[g][1].id = id}}
<1>1. valid = Taken
  <2>1. unread = {}
    BY DEF CatalogInv, DiskInv
  <2> QED
    BY <2>1 DEF Taken, Loads
<1> HIDE DEF valid
<1>2. DOMAIN entries = BuiltIn \cup {disk[f][1].id : f \in valid}
  BY <1>1 DEF CatalogInv, ListedInv
<1>3. ASSUME NEW id \in DOMAIN entries
      PROVE  /\ entries[id].manifest.id = id
             /\ IF texts(id) = {} THEN entries[id].manifest = SeededManifest(id)
                                  ELSE entries[id].manifest \in texts(id)
  <2>1. entries[id].manifest.id = id
    BY <1>3, ListedAreEntries DEF IsEntry
  <2>2. CASE /\ \A f \in Taken : disk[f][1].id # id
             /\ entries[id] = SeededEntry(id, catalogKey)
    <3>1. texts(id) = {}
      BY <1>1, <2>2
    <3>2. entries[id].manifest = SeededManifest(id)
      BY <2>2 DEF SeededEntry
    <3> QED
      BY <2>1, <3>1, <3>2
  <2>3. CASE \E f \in Taken : /\ disk[f][1].id = id
                              /\ entries[id] = LoadedEntry(disk[f][1], catalogKey)
    <3>1. PICK f \in Taken : /\ disk[f][1].id = id
                             /\ entries[id] = LoadedEntry(disk[f][1], catalogKey)
      BY <2>3
    <3>2. entries[id].manifest = disk[f][1]
      BY <3>1 DEF LoadedEntry
    <3>3. disk[f][1] \in texts(id)
      BY <1>1, <3>1
    <3> QED
      BY <2>1, <3>2, <3>3
  <2> QED
    BY <2>2, <2>3 DEF CatalogInv, ListedInv
<1> QED
  BY <1>2, <1>3 DEF CatalogIsDirectory, valid

\* ListedIsAccepted: control plane and runner check the same manifest.
LEMMA ServesAccepted ==
    ASSUME CatalogInv
    PROVE  ListedIsAccepted
<1> SUFFICES ASSUME phase = "serving", NEW id \in DOMAIN entries,
                    NEW timeout \in Timeouts(entries[id])
             PROVE  LET seconds == Or(timeout, entries[id].manifest.duration)
                    IN  /\ Launches(entries[id], timeout) <=>
                              seconds \in 1..entries[id].manifest.duration
                        /\ Launches(entries[id], timeout) =>
                              (Accepts(Request(id, timeout)) <=> catalogKey = RunnerKey)
  BY DEF ListedIsAccepted
<1> DEFINE e == entries[id]
           m == e.manifest
           seconds == Or(timeout, m.duration)
           request == Request(id, timeout)
           plan == Plan(m)
<1>1. m.id = id /\ Valid(m) /\ m.duration \in Nat
      /\ e.signature = [of |-> m, by |-> catalogKey]
  BY ListedAreEntries DEF IsEntry
<1>2. Launches(e, timeout) <=> seconds \in 1..m.duration
  BY <1>1 DEF Launches
<1>3. /\ request.id = id /\ request.manifest = m /\ request.signature = e.signature
      /\ request.key = catalogKey /\ request.dir = plan.dir
      /\ request.files = plan.numbers.file_count
      /\ request.chunk = plan.numbers.chunk_size_kb
      /\ request.timeout = Or(timeout, plan.seconds)
  BY DEF Request
<1>4. plan.seconds = m.duration
  BY DEF Plan
<1> HIDE DEF request, plan
<1>5. ASSUME Launches(e, timeout), catalogKey = RunnerKey
      PROVE  Accepts(request)
  <2>1. request.timeout \in 1..m.duration
    BY <1>2, <1>3, <1>4, <1>5
  <2>2. request.timeout <= plan.seconds
    BY <1>1, <1>4, <2>1
  <2>3. plan = Plan(request.manifest)
    BY <1>3 DEF plan
  <2> QED
    BY <1>1, <1>3, <1>5, <2>2, <2>3 DEF Accepts
<1>6. ASSUME Accepts(request) PROVE catalogKey = RunnerKey
  BY <1>3, <1>6 DEF Accepts
<1> QED
  BY <1>2, <1>5, <1>6 DEF request

\* The best fidelity of a technique is that of some reference to it.
LEMMA BestIsReferenced ==
    ASSUME CatalogInv, phase = "serving", NEW t \in Referenced
    PROVE  \E ref \in Rows : ref.technique = t /\ ref.fidelity = Best(t)
<1> DEFINE S == {ref.fidelity : ref \in {row \in Rows : row.technique = t}}
           Q(b) == \A ref \in Rows : ref.technique = t => Trust[ref.fidelity] <= Trust[b]
<1>1. \A ref \in Rows : ref.fidelity \in Fidelities
  <2> SUFFICES ASSUME NEW ref \in Rows PROVE ref.fidelity \in Fidelities
    OBVIOUS
  <2>1. PICK id \in DOMAIN entries : ref \in RefsOf(id)
    BY DEF Rows
  <2>2. PICK i \in DOMAIN entries[id].refs : ref = entries[id].refs[i]
    BY <2>1 DEF RefsOf
  <2> QED
    BY <2>2, ListedAreEntries DEF IsEntry
<1>2. S # {} /\ S \subseteq Fidelities
  BY <1>1 DEF Referenced
<1>3. Trust["unspecified"] = 0 /\ Trust["marker_only"] = 1 /\ Trust["behavioral"] = 2
  BY DEF Trust
<1>4. \A ref \in Rows : ref.technique = t => ref.fidelity \in S
  OBVIOUS
<1>5. Best(t) = CHOOSE b \in S : Q(b)
  BY DEF Best
<1> HIDE DEF S
<1>6. \E b \in S : Q(b)
  <2>1. \A x \in S : x = "unspecified" \/ x = "marker_only" \/ x = "behavioral"
    BY <1>2 DEF Fidelities
  <2>2. CASE "behavioral" \in S
    <3>1. \A x \in S : Trust[x] <= 2
      BY <1>3, <2>1
    <3>2. Q("behavioral")
      BY <1>3, <1>4, <3>1
    <3> QED
      BY <2>2, <3>2
  <2>3. CASE "behavioral" \notin S /\ "marker_only" \in S
    <3>1. \A x \in S : Trust[x] <= 1
      BY <1>3, <2>1, <2>3
    <3>2. Q("marker_only")
      BY <1>3, <1>4, <3>1
    <3> QED
      BY <2>3, <3>2
  <2>4. CASE "behavioral" \notin S /\ "marker_only" \notin S
    <3>1. "unspecified" \in S
      BY <1>2, <2>1, <2>4
    <3>2. \A x \in S : Trust[x] <= 0
      BY <1>3, <2>1, <2>4
    <3>3. Q("unspecified")
      BY <1>3, <1>4, <3>2
    <3> QED
      BY <3>1, <3>3
  <2> QED
    BY <2>2, <2>3, <2>4
<1>7. Best(t) \in S
  <2> HIDE DEF Q
  <2> QED
    BY <1>5, <1>6
<1> QED
  BY <1>7 DEF S

\* ClaimsAreExecuted: entry by entry, and a matrix of their references.
LEMMA ServesClaims ==
    ASSUME CatalogInv
    PROVE  ClaimsAreExecuted
<1> SUFFICES ASSUME phase = "serving" PROVE ClaimsAreExecuted
  BY DEF ClaimsAreExecuted
<1>1. ASSUME NEW id \in DOMAIN entries, NEW ref \in RefsOf(id), ClaimsBehavioral(ref.fidelity)
      PROVE  /\ entries[id].manifest.action = "synthetic_canary_encrypt"
             /\ Canonical(ref.technique) = "T1486"
  <2>1. PICK i \in DOMAIN entries[id].refs : ref = entries[id].refs[i]
    BY DEF RefsOf
  <2>2. ref.fidelity = "behavioral"
    BY <1>1 DEF ClaimsBehavioral
  <2> QED
    BY <2>1, <2>2, ListedAreEntries DEF IsEntry
<1>2. ASSUME NEW id \in DOMAIN entries, ClaimsCoverage(entries[id])
      PROVE  entries[id].manifest.action \in {"synthetic_canary_encrypt", "latency_spike"}
  <2>1. CASE entries[id].refs = <<>>
    <3>1. ClaimsBehavioral(entries[id].fidelity)
      BY <1>2, <2>1 DEF ClaimsCoverage
    <3> QED
      BY <3>1, ListedAreEntries DEF IsEntry
  <2>2. CASE entries[id].refs # <<>>
    <3>1. PICK i \in DOMAIN entries[id].refs : ClaimsBehavioral(entries[id].refs[i].fidelity)
      BY <1>2, <2>2 DEF ClaimsCoverage
    <3>2. entries[id].refs[i] \in RefsOf(id)
      BY DEF RefsOf
    <3> QED
      BY <1>1, <3>1, <3>2
  <2> QED
    BY <2>1, <2>2
<1>3. ASSUME NEW id \in DOMAIN entries, entries[id].refs # <<>>
      PROVE  Canonical(entries[id].refs[1].technique) = entries[id].technique
  BY <1>3, ListedAreEntries DEF IsEntry
<1>4. {Canonical(t) : t \in Behavioral} \subseteq {"T1486"}
  <2> SUFFICES ASSUME NEW t \in Behavioral PROVE Canonical(t) = "T1486"
    OBVIOUS
  <2>1. t \in Referenced /\ ClaimsBehavioral(Best(t))
    BY DEF Behavioral
  <2>2. PICK ref \in Rows : ref.technique = t /\ ref.fidelity = Best(t)
    BY <2>1, BestIsReferenced
  <2>3. PICK id \in DOMAIN entries : ref \in RefsOf(id)
    BY <2>2 DEF Rows
  <2> QED
    BY <1>1, <2>1, <2>2, <2>3
<1>5. ASSUME NEW meta \in ScenarioMetas, NEW ref \in meta.refs, ClaimsBehavioral(ref.fidelity)
      PROVE  Canonical(ref.technique) = "T1486"
  <2>1. PICK id \in DOMAIN entries :
           meta = [technique |-> entries[id].technique, fidelity |-> entries[id].fidelity,
                   refs |-> RefsOf(id)]
    BY DEF ScenarioMetas
  <2>2. ref \in RefsOf(id)
    BY <2>1
  <2> QED
    BY <1>1, <1>5, <2>2
<1> QED
  BY <1>1, <1>2, <1>3, <1>4, <1>5 DEF ClaimsAreExecuted

\* In whatever order the directory lists its files: the catalog is the built-in
\* scenarios and the valid files, a runner with the key accepts all of it, and it
\* claims what is executed and no more (load_from_dir, validate, mitre_matrix).
THEOREM CatalogCorrect == CatalogSpec => []CatalogIsExecutable
<1>1. CatalogInv => CatalogIsExecutable
  BY ServesDirectory, ServesAccepted, ServesClaims DEF CatalogIsExecutable
<1> QED
  BY <1>1, CatalogInvariant, PTL
=============================================================================
