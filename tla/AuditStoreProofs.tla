--------------------------- MODULE AuditStoreProofs ---------------------------
(***************************************************************************)
(* Theorems about AuditStore, for every set of runs, operators, keys and   *)
(* settings of what fails.                                                 *)
(*                                                                         *)
(* Replay and FromRecords are functions of whole sequences.  What they are *)
(* after one line more is proved first, by induction over the lines in the *)
(* form of a set of numbers; the steps then only use those lemmas.         *)
(***************************************************************************)
EXTENDS AuditStore, FiniteSetTheorems, SequenceTheorems, WellFoundedInduction, TLAPS

-----------------------------------------------------------------------------
(* Numbers and finite sets *)

\* A set of numbers has a least one, which is what induction needs.
LEMMA LeastNumber ==
    ASSUME NEW T, T \subseteq Nat, T # {}
    PROVE  \E x \in T : \A y \in T : x <= y
<1> DEFINE R == {ss \in Nat \X Nat : ss[1] < ss[2]}
<1>1. IsWellFoundedOn(R, Nat)
  BY NatLessThanWellFounded DEF OpToRel
<1>2. \A x, y \in Nat : <<y, x>> \notin R => x <= y
  OBVIOUS
<1> HIDE DEF R
<1>3. \E x \in T : \A y \in T : <<y, x>> \notin R
  BY <1>1, WFMin
<1> QED
  BY <1>2, <1>3

\* Induction, of the numbers that are in a set.
LEMMA NumbersByInduction ==
    ASSUME NEW T, 0 \in T, \A n \in Nat : n \in T => n + 1 \in T
    PROVE  Nat \subseteq T
<1> SUFFICES ASSUME Nat \ T # {} PROVE FALSE
  OBVIOUS
<1>1. PICK x \in Nat \ T : \A y \in Nat \ T : x <= y
  <2>1. Nat \ T \subseteq Nat
    OBVIOUS
  <2> QED
    BY <2>1, LeastNumber
<1>2. x # 0 /\ x - 1 \in Nat /\ x = (x - 1) + 1
  BY <1>1
<1>3. x - 1 \in T
  BY <1>1, <1>2
<1> QED
  BY <1>1, <1>2, <1>3

\* Some lines have a last one.
LEMMA LastLine ==
    ASSUME NEW n \in Nat, NEW T, T \subseteq 1..n, T # {}
    PROVE  \E x \in T : \A y \in T : y <= x
<1> DEFINE U == {n - y : y \in T}
<1>1. U \subseteq Nat /\ U # {}
  <2>1. \A y \in T : n - y \in Nat
    OBVIOUS
  <2>2. PICK y \in T : TRUE
    OBVIOUS
  <2>3. n - y \in U
    OBVIOUS
  <2> QED
    BY <2>1, <2>3
<1>2. PICK u \in U : \A v \in U : u <= v
  BY <1>1, LeastNumber
<1>3. PICK x \in T : u = n - x
  BY <1>2
<1>4. \A y \in T : n - x <= n - y
  BY <1>2, <1>3
<1> QED
  BY <1>3, <1>4

\* And a first one.
LEMMA FirstLine ==
    ASSUME NEW n \in Nat, NEW T, T \subseteq 1..n, T # {}
    PROVE  \E x \in T : \A y \in T : x <= y
<1>1. T \subseteq Nat
  OBVIOUS
<1> QED
  BY <1>1, LeastNumber

\* Line numbers up to a bound are finitely many.
LEMMA LinesAreFinite ==
    ASSUME NEW n \in Nat, NEW T, T \subseteq 1..n
    PROVE  IsFiniteSet(T) /\ Cardinality(T) \in Nat
<1>1. IsFiniteSet(1..n)
  BY FS_Interval
<1>2. IsFiniteSet(T)
  BY <1>1, FS_Subset
<1> QED
  BY <1>2, FS_CardinalityType

-----------------------------------------------------------------------------
(* The n-th of some lines *)

\* How many of the lines are not after line i.
Place(lines, i) == Cardinality({j \in lines : j <= i})

\* Each line has a place of its own among the lines.
LEMMA PlaceIsOwn ==
    ASSUME NEW n \in Nat, NEW L, L \subseteq 1..n, NEW i \in L, NEW k \in L
    PROVE  /\ Place(L, i) \in 1..Cardinality(L)
           /\ Place(L, i) = Place(L, k) => i = k
<1> DEFINE Upto(m) == {j \in L : j <= m}
<1>1. ASSUME NEW m \in L
      PROVE  /\ Upto(m) \subseteq L /\ m \in Upto(m) /\ IsFiniteSet(Upto(m))
             /\ Cardinality(Upto(m)) \in 1..Cardinality(L)
  <2>1. Upto(m) \subseteq L /\ m \in Upto(m)
    OBVIOUS
  <2> HIDE DEF Upto
  <2>2. IsFiniteSet(L) /\ IsFiniteSet(Upto(m))
    BY <2>1, LinesAreFinite
  <2>3. Cardinality(L) \in Nat /\ Cardinality(Upto(m)) \in Nat
    BY <2>2, FS_CardinalityType
  <2>4. Cardinality(Upto(m)) <= Cardinality(L)
    BY <2>1, <2>2, FS_Subset
  <2>5. Cardinality(Upto(m)) # 0
    BY <2>1, <2>2, FS_EmptySet
  <2> QED
    BY <2>1, <2>2, <2>3, <2>4, <2>5
<1>2. ASSUME NEW a \in L, NEW b \in L, a < b
      PROVE  Cardinality(Upto(a)) # Cardinality(Upto(b))
  <2>0. a \in Int /\ b \in Int /\ L \subseteq Int
    OBVIOUS
  <2>a. \A j \in L : j <= a => j <= b
    BY <2>0, <1>2
  <2>b. ~(b <= a)
    BY <2>0, <1>2
  <2>1. Upto(a) \subseteq Upto(b) /\ b \notin Upto(a)
    BY <2>a, <2>b
  <2>2. b \in Upto(b) /\ IsFiniteSet(Upto(b))
    BY <1>1
  <2> HIDE DEF Upto
  <2> QED
    BY <2>1, <2>2, FS_Subset
<1>3. i = k \/ i < k \/ k < i
  OBVIOUS
<1>4. Place(L, i) = Cardinality(Upto(i)) /\ Place(L, k) = Cardinality(Upto(k))
  BY DEF Place
<1> HIDE DEF Upto
<1> QED
  BY <1>1, <1>2, <1>3, <1>4

\* The n-th line is there, and only it has n lines up to it.
LEMMA NthIsThere ==
    ASSUME NEW n \in Nat, NEW L, L \subseteq 1..n, NEW p \in 1..Cardinality(L)
    PROVE  Nth(L, p) \in L /\ Place(L, Nth(L, p)) = p
<1> DEFINE f == [i \in L |-> Place(L, i)]
           P == 1..Cardinality(L)
<1>1. IsFiniteSet(L) /\ Cardinality(L) \in Nat
  BY LinesAreFinite
<1>2. f \in [L -> P] /\ \A a, b \in L : f[a] = f[b] => a = b
  BY PlaceIsOwn
<1>3. IsFiniteSet(P) /\ Cardinality(P) = Cardinality(L)
  <2>1. IsFiniteSet(1..Cardinality(L))
        /\ Cardinality(1..Cardinality(L)) =
              IF 1 > Cardinality(L) THEN 0 ELSE Cardinality(L) - 1 + 1
    BY <1>1, FS_Interval
  <2> QED
    BY <2>1, <1>1
<1>4. f \in Surjection(L, P)
  <2> HIDE DEF f, P
  <2>1. f \in Injection(L, P)
    BY <1>2 DEF Injection, IsInjective
  <2> QED
    BY <2>1, <1>1, <1>3, FS_Injection
<1>5. \E i \in L : Place(L, i) = p
  BY <1>4 DEF Surjection
<1> QED
  BY <1>5 DEF Nth, Place

\* Nth finds a line by its place.
LEMMA NthIsPlace ==
    ASSUME NEW n \in Nat, NEW L, L \subseteq 1..n, NEW i \in L
    PROVE  Place(L, i) \in 1..Cardinality(L) /\ Nth(L, Place(L, i)) = i
<1>1. Place(L, i) \in 1..Cardinality(L)
  BY PlaceIsOwn
<1>2. Nth(L, Place(L, i)) \in L /\ Place(L, Nth(L, Place(L, i))) = Place(L, i)
  BY <1>1, NthIsThere
<1> QED
  BY <1>1, <1>2, PlaceIsOwn

\* One line more, after the others, comes last and moves none.
LEMMA NthWithLast ==
    ASSUME NEW n \in Nat, NEW L, L \subseteq 1..n
    PROVE  /\ Cardinality(L \cup {n + 1}) = Cardinality(L) + 1
           /\ \A p \in 1..Cardinality(L) : Nth(L \cup {n + 1}, p) = Nth(L, p)
           /\ Nth(L \cup {n + 1}, Cardinality(L) + 1) = n + 1
<1> DEFINE M == L \cup {n + 1}
<1>0. n + 1 \in Nat /\ L \subseteq Int
  OBVIOUS
<1>1. IsFiniteSet(L) /\ Cardinality(L) \in Nat /\ n + 1 \notin L /\ M \subseteq 1..(n + 1)
  <2>1. n + 1 \notin L /\ M \subseteq 1..(n + 1)
    OBVIOUS
  <2> QED
    BY <2>1, LinesAreFinite
<1>2. Cardinality(M) = Cardinality(L) + 1
  BY <1>1, FS_AddElement
<1>3. \A i \in L : Place(M, i) = Place(L, i)
  <2> SUFFICES ASSUME NEW i \in L PROVE {j \in M : j <= i} = {j \in L : j <= i}
    BY DEF Place
  <2>1. i \in Int /\ ~(n + 1 <= i)
    OBVIOUS
  <2> QED
    BY <2>1
<1>4. Place(M, n + 1) = Cardinality(M)
  <2>0. \A j \in M : j <= n + 1
    OBVIOUS
  <2>1. {j \in M : j <= n + 1} = M
    BY <2>0
  <2> QED
    BY <2>1 DEF Place
<1>5. ASSUME NEW p \in 1..Cardinality(L) PROVE Nth(M, p) = Nth(L, p)
  <2>1. Nth(L, p) \in L /\ Place(L, Nth(L, p)) = p
    BY NthIsThere
  <2>2. Place(M, Nth(L, p)) = p /\ Nth(L, p) \in M
    BY <2>1, <1>3
  <2> HIDE DEF M
  <2>3. Nth(M, Place(M, Nth(L, p))) = Nth(L, p)
    BY <2>2, <1>0, <1>1, NthIsPlace
  <2> QED
    BY <2>2, <2>3
<1>6. Nth(M, Cardinality(M)) = n + 1
  <2>1. n + 1 \in M
    OBVIOUS
  <2> HIDE DEF M
  <2>2. Nth(M, Place(M, n + 1)) = n + 1
    BY <2>1, <1>0, <1>1, NthIsPlace
  <2> QED
    BY <2>2, <1>4
<1> QED
  BY <1>2, <1>5, <1>6


-----------------------------------------------------------------------------
(* The last revision of a run *)

\* Some of the lines L is of run r.
Has(s, L, r) == \E i \in L : s[i].run = r

\* Line i is the last of run r.
IsLast(s, L, r, i) == i \in L /\ s[i].run = r /\ \A j \in L : s[j].run = r => j <= i

\* Lines of a sequence that has an end.
Lines(L) == \E n \in Nat : L \subseteq 1..n

\* A run that has a line has a last one.
LEMMA LastIsThere ==
    ASSUME NEW s, NEW L, Lines(L), NEW r, Has(s, L, r)
    PROVE  \E i : IsLast(s, L, r, i)
<1> DEFINE mine == {i \in L : s[i].run = r}
<1>1. PICK n \in Nat : mine \subseteq 1..n
  BY DEF Lines
<1>2. mine # {}
  BY DEF Has
<1>3. PICK i \in mine : \A j \in mine : j <= i
  <2> HIDE DEF mine
  <2> QED
    BY <1>1, <1>2, LastLine
<1> QED
  BY <1>3 DEF IsLast

\* Latest is what that line says,
LEMMA LatestIsLast ==
    ASSUME NEW s, NEW L, Lines(L), NEW r, NEW i, IsLast(s, L, r, i)
    PROVE  Latest(s, L, r) = s[i]
<1> DEFINE mine == {j \in L : s[j].run = r}
           k == CHOOSE k \in mine : \A j \in mine : j <= k
<1>1. i \in mine /\ \A j \in mine : j <= i
  BY DEF IsLast
<1>2. \A j \in mine : j \in Int
  BY DEF Lines
<1>3. Latest(s, L, r) = s[k]
  BY DEF Latest
<1> HIDE DEF mine
<1>4. k \in mine /\ \A j \in mine : j <= k
  BY <1>1
<1> HIDE DEF k
<1>5. k <= i /\ i <= k /\ k \in Int /\ i \in Int
  BY <1>1, <1>2, <1>4
<1>6. k = i
  BY <1>5
<1> QED
  BY <1>3, <1>6

\* and it is a revision of the run it was asked for.
LEMMA LatestOfRun ==
    ASSUME NEW s, NEW L, Lines(L), NEW r, Has(s, L, r)
    PROVE  Latest(s, L, r).run = r /\ Latest(s, L, r) \in {s[i] : i \in L}
<1>1. PICK i : IsLast(s, L, r, i)
  BY LastIsThere
<1>2. Latest(s, L, r) = s[i]
  BY <1>1, LatestIsLast
<1> QED
  BY <1>1, <1>2 DEF IsLast

\* Lines that are the same have the same latest.
LEMMA LatestOfSame ==
    ASSUME NEW s, NEW t, NEW L, Lines(L), \A i \in L : t[i] = s[i], NEW r, Has(s, L, r)
    PROVE  Latest(t, L, r) = Latest(s, L, r)
<1>1. PICK i : IsLast(s, L, r, i)
  BY LastIsThere
<1>2. IsLast(t, L, r, i) /\ t[i] = s[i]
  BY <1>1 DEF IsLast
<1>3. Latest(s, L, r) = s[i] /\ Latest(t, L, r) = t[i]
  BY <1>1, <1>2, LatestIsLast
<1> QED
  BY <1>2, <1>3

\* Line m is after those of L.
IsNext(L, m) == m \in Nat /\ L \subseteq 1..(m - 1)

\* What follows from being the next line.
LEMMA NextLine ==
    ASSUME NEW L, NEW m, IsNext(L, m), m # 0
    PROVE  Lines(L) /\ Lines(L \cup {m}) /\ m \notin L /\ \A j \in L : j <= m
<1>1. m - 1 \in Nat /\ m \in Nat /\ L \subseteq 1..(m - 1)
  BY DEF IsNext
<1>2. \A j \in L : j \in 1..m /\ j < m
  BY <1>1
<1>3. m \in 1..m
  BY <1>1
<1>4. L \cup {m} \subseteq 1..m
  BY <1>2, <1>3
<1>5. m \notin L /\ \A j \in L : j <= m
  BY <1>1, <1>2
<1> QED
  BY <1>1, <1>4, <1>5 DEF Lines

\* The lines L are the same in t as in s.
Same(s, t, L) == \A i \in L : t[i] = s[i]

\* One line more is the latest of its run, and no other run's.
LEMMA LatestWithNext ==
    ASSUME NEW s, NEW t, NEW L, NEW m, IsNext(L, m), m # 0, Same(s, t, L), NEW r
    PROVE  /\ Has(t, L \cup {m}, r) <=> Has(s, L, r) \/ t[m].run = r
           /\ t[m].run = r => Latest(t, L \cup {m}, r) = t[m]
           /\ t[m].run # r /\ Has(s, L, r) => Latest(t, L \cup {m}, r) = Latest(s, L, r)
<1> DEFINE M == L \cup {m}
<1>0. Lines(L) /\ Lines(M) /\ (\A j \in L : j <= m) /\ m \in Nat
  BY NextLine DEF IsNext
<1>1. /\ Lines(L) /\ Lines(M) /\ m \in M /\ m <= m
      /\ \A j \in L : j \in M /\ j <= m /\ t[j] = s[j]
      /\ \A j \in M : j \in L \/ j = m
  BY <1>0 DEF Same
<1> HIDE DEF M
<1>2. Has(t, M, r) <=> Has(s, L, r) \/ t[m].run = r
  BY <1>1 DEF Has
<1>3. ASSUME t[m].run = r PROVE Latest(t, M, r) = t[m]
  <2>1. IsLast(t, M, r, m)
    BY <1>1, <1>3 DEF IsLast
  <2> QED
    BY <1>1, <2>1, LatestIsLast
<1>4. ASSUME t[m].run # r, Has(s, L, r) PROVE Latest(t, M, r) = Latest(s, L, r)
  <2>1. PICK i : IsLast(s, L, r, i)
    BY <1>1, <1>4, LastIsThere
  <2>2. IsLast(t, M, r, i) /\ t[i] = s[i]
    BY <1>1, <1>4, <2>1 DEF IsLast
  <2>3. Latest(s, L, r) = s[i] /\ Latest(t, M, r) = t[i]
    BY <1>1, <2>1, <2>2, LatestIsLast
  <2> QED
    BY <2>2, <2>3
<1> QED
  BY <1>2, <1>3, <1>4 DEF M

-----------------------------------------------------------------------------
(* What a replay has *)

Distinct(s) == \A i, j \in DOMAIN s : s[i].run = s[j].run => i = j

\* Firsts has one line of every run.
LEMMA FirstsAreLines ==
    ASSUME NEW s, NEW L, Lines(L)
    PROVE  /\ Firsts(s, L) \subseteq L /\ Lines(Firsts(s, L))
           /\ Cardinality(Firsts(s, L)) \in Nat
           /\ \A i, j \in Firsts(s, L) : s[i].run = s[j].run => i = j
           /\ \A i \in L : \E j \in Firsts(s, L) : s[j].run = s[i].run
<1>0. PICK n \in Nat : L \subseteq 1..n
  BY DEF Lines
<1>1. Firsts(s, L) \subseteq L /\ Firsts(s, L) \subseteq 1..n
  BY <1>0 DEF Firsts
<1>2. ASSUME NEW i \in Firsts(s, L), NEW j \in Firsts(s, L), s[i].run = s[j].run
      PROVE  i = j
  <2>1. ~(i < j) /\ ~(j < i)
    BY <1>2 DEF Firsts
  <2> QED
    BY <1>1, <2>1
<1>3. ASSUME NEW i \in L PROVE \E j \in Firsts(s, L) : s[j].run = s[i].run
  <2> DEFINE mine == {j \in L : s[j].run = s[i].run}
  <2>1. mine # {} /\ mine \subseteq 1..n
    BY <1>0
  <2>2. PICK j \in mine : \A k \in mine : j <= k
    <3> HIDE DEF mine
    <3> QED
      BY <2>1, FirstLine
  <2>3. j \in L /\ s[j].run = s[i].run /\ L \subseteq Int
    BY <2>2, <1>0
  <2>4. \A k \in L : s[k].run = s[j].run => ~(k < j)
    BY <2>2, <2>3
  <2> QED
    BY <2>3, <2>4 DEF Firsts
<1> QED
  BY <1>1, <1>2, <1>3, LinesAreFinite DEF Lines

\* The p-th record of R is the latest of the run whose first line is the p-th of F.
Gives(s, L, F, R, p) ==
    /\ Nth(F, p) \in F /\ R[p].run = s[Nth(F, p)].run
    /\ Has(s, L, R[p].run) /\ R[p] = Latest(s, L, R[p].run)

\* One record per run that has a line, and that is its latest.
LEMMA ReplayHas ==
    ASSUME NEW s, NEW L, Lines(L)
    PROVE  /\ Replay(s, L) \in Seq({s[i] : i \in L})
           /\ Len(Replay(s, L)) = Cardinality(Firsts(s, L))
           /\ DOMAIN Replay(s, L) = 1..Cardinality(Firsts(s, L))
           /\ \A p \in DOMAIN Replay(s, L) : Gives(s, L, Firsts(s, L), Replay(s, L), p)
           /\ Distinct(Replay(s, L))
           /\ \A r : Has(s, L, r) => Has(Replay(s, L), DOMAIN Replay(s, L), r)
<1> DEFINE F == Firsts(s, L)
           R == Replay(s, L)
           N == Cardinality(F)
<1>1. /\ F \subseteq L /\ Lines(F) /\ N \in Nat
      /\ \A i, j \in F : s[i].run = s[j].run => i = j
      /\ \A i \in L : \E j \in F : s[j].run = s[i].run
  BY FirstsAreLines
<1>2. R = [p \in 1..N |-> Latest(s, L, s[Nth(F, p)].run)]
  BY DEF Replay
<1> HIDE DEF F, R, N
<1>0. PICK n \in Nat : F \subseteq 1..n
  BY <1>1 DEF Lines
<1>3. \A p \in 1..N : Nth(F, p) \in F /\ Place(F, Nth(F, p)) = p
  BY <1>0, NthIsThere DEF N
<1>4. ASSUME NEW p \in 1..N
      PROVE  /\ R[p].run = s[Nth(F, p)].run /\ Has(s, L, R[p].run)
             /\ R[p] = Latest(s, L, R[p].run) /\ R[p] \in {s[i] : i \in L}
  <2> DEFINE r == s[Nth(F, p)].run
  <2>1. Has(s, L, r)
    BY <1>1, <1>3 DEF Has
  <2>2. R[p] = Latest(s, L, r)
    BY <1>2
  <2> HIDE DEF r
  <2>3. Latest(s, L, r).run = r /\ Latest(s, L, r) \in {s[i] : i \in L}
    BY <2>1, LatestOfRun
  <2> QED
    BY <2>1, <2>2, <2>3 DEF r
<1>5. DOMAIN R = 1..N
  BY <1>2
<1>6. R \in Seq({s[i] : i \in L}) /\ Len(R) = N
  <2>1. R \in [1..N -> {s[i] : i \in L}]
    BY <1>2, <1>4
  <2>2. R \in Seq({s[i] : i \in L})
    BY <2>1, <1>1, SeqDef
  <2> QED
    BY <2>2, <1>1, <1>5, LenProperties
<1>7. Distinct(R)
  <2> SUFFICES ASSUME NEW p \in 1..N, NEW q \in 1..N, R[p].run = R[q].run PROVE p = q
    BY <1>5 DEF Distinct
  <2>1. s[Nth(F, p)].run = s[Nth(F, q)].run
    BY <1>4
  <2>2. Nth(F, p) = Nth(F, q)
    BY <2>1, <1>1, <1>3
  <2> QED
    BY <2>2, <1>3
<1>8. ASSUME NEW r, Has(s, L, r) PROVE Has(R, DOMAIN R, r)
  <2>1. PICK j \in F : s[j].run = r
    BY <1>8, <1>1 DEF Has
  <2>2. Place(F, j) \in 1..N /\ Nth(F, Place(F, j)) = j
    BY <1>0, NthIsPlace DEF N
  <2> QED
    BY <2>1, <2>2, <1>4, <1>5 DEF Has
<1>9. \A p \in DOMAIN R : Gives(s, L, F, R, p)
  BY <1>3, <1>4, <1>5 DEF Gives
<1> QED
  BY <1>5, <1>6, <1>7, <1>8, <1>9 DEF F, R, N

\* Of sequences with one record per run, the latest of a run is its record.
LEMMA LatestOfDistinct ==
    ASSUME NEW S, NEW s \in Seq(S), Distinct(s), NEW i \in DOMAIN s
    PROVE  Latest(s, DOMAIN s, s[i].run) = s[i]
<1>1. DOMAIN s = 1..Len(s) /\ Len(s) \in Nat /\ i \in Int
  OBVIOUS
<1>2. IsLast(s, DOMAIN s, s[i].run, i)
  BY <1>1 DEF Distinct, IsLast
<1>3. Lines(DOMAIN s)
  BY <1>1 DEF Lines
<1> QED
  BY <1>2, <1>3, LatestIsLast

\* A replay gives for every run what the lines give.
LEMMA ReplayGives ==
    ASSUME NEW s, NEW L, Lines(L), NEW r
    PROVE  /\ Has(Replay(s, L), DOMAIN Replay(s, L), r) <=> Has(s, L, r)
           /\ Has(s, L, r) =>
                 Latest(Replay(s, L), DOMAIN Replay(s, L), r) = Latest(s, L, r)
<1> DEFINE R == Replay(s, L)
<1>1. /\ R \in Seq({s[i] : i \in L}) /\ Distinct(R)
      /\ \A p \in DOMAIN R : Gives(s, L, Firsts(s, L), R, p)
      /\ \A q : Has(s, L, q) => Has(R, DOMAIN R, q)
  <2>1. R \in Seq({s[i] : i \in L}) /\ Distinct(R)
    BY ReplayHas
  <2>2. \A p \in DOMAIN R : Gives(s, L, Firsts(s, L), R, p)
    BY ReplayHas
  <2>3. \A q : Has(s, L, q) => Has(R, DOMAIN R, q)
    BY ReplayHas
  <2> HIDE DEF R
  <2> QED
    BY <2>1, <2>2, <2>3
<1> HIDE DEF R
<1>a. \A p \in DOMAIN R : Has(s, L, R[p].run) /\ R[p] = Latest(s, L, R[p].run)
  BY <1>1 DEF Gives
<1>2. Has(R, DOMAIN R, r) <=> Has(s, L, r)
  BY <1>1, <1>a DEF Has
<1>3. ASSUME Has(s, L, r) PROVE Latest(R, DOMAIN R, r) = Latest(s, L, r)
  <2>1. PICK p \in DOMAIN R : R[p].run = r
    BY <1>1, <1>3 DEF Has
  <2>2. Latest(R, DOMAIN R, R[p].run) = R[p]
    BY <1>1, LatestOfDistinct
  <2> QED
    BY <1>a, <2>1, <2>2
<1> QED
  BY <1>2, <1>3 DEF R


-----------------------------------------------------------------------------
(* A replay of one line more *)

\* Replay reads nothing but the lines it is given.
LEMMA ReplayOfSame ==
    ASSUME NEW s, NEW t, NEW L, Lines(L), Same(s, t, L)
    PROVE  Replay(t, L) = Replay(s, L)
<1> DEFINE F == Firsts(s, L)
<1>0. \A i \in L : t[i] = s[i]
  BY DEF Same
<1>1. Firsts(t, L) = F
  BY <1>0 DEF Firsts
<1>2. F \subseteq L
  BY FirstsAreLines
<1>3. PICK n \in Nat : F \subseteq 1..n
  BY FirstsAreLines DEF Lines
<1> HIDE DEF F
<1>4. ASSUME NEW p \in 1..Cardinality(F)
      PROVE  Latest(t, L, t[Nth(F, p)].run) = Latest(s, L, s[Nth(F, p)].run)
  <2>1. Nth(F, p) \in L
    BY <1>2, <1>3, NthIsThere
  <2>2. Has(s, L, s[Nth(F, p)].run) /\ t[Nth(F, p)] = s[Nth(F, p)]
    BY <2>1, <1>0 DEF Has
  <2> QED
    BY <2>2, <1>0, LatestOfSame
<1> QED
  BY <1>1, <1>4 DEF Replay, F

\* What append and update make of a trail.
Put(s, revision) ==
    IF Has(s, DOMAIN s, revision.run)
    THEN [i \in DOMAIN s |-> IF s[i].run = revision.run THEN revision ELSE s[i]]
    ELSE Append(s, revision)

\* A line more is put into what the lines before it give.
LEMMA ReplayWithNext ==
    ASSUME NEW s, NEW t, NEW L, NEW m, IsNext(L, m), m # 0, Same(s, t, L)
    PROVE  Replay(t, L \cup {m}) = Put(Replay(s, L), t[m])
<1> DEFINE M == L \cup {m}
           F == Firsts(s, L)
           R == Replay(s, L)
           N == Cardinality(F)
           e == t[m]
<1>0. Lines(L) /\ Lines(M) /\ m \notin L /\ \A j \in L : j <= m
  BY NextLine
<1>1. m \in Nat /\ m - 1 \in Nat /\ L \subseteq 1..(m - 1) /\ L \subseteq Int
  BY DEF IsNext
<1>a. \A i \in L : t[i] = s[i] /\ i # m /\ ~(m < i) /\ i < m
  BY <1>0, <1>1 DEF Same
<1>b. m \in M /\ (\A i \in L : i \in M) /\ \A i \in M : i \in L \/ i = m
  OBVIOUS
<1>2. F \subseteq L /\ N \in Nat
  BY <1>0, FirstsAreLines
<1>4. /\ R \in Seq({s[i] : i \in L}) /\ Len(R) = N /\ DOMAIN R = 1..N
      /\ \A p \in DOMAIN R :
            /\ Nth(F, p) \in F /\ R[p].run = s[Nth(F, p)].run
            /\ Has(s, L, R[p].run) /\ R[p] = Latest(s, L, R[p].run)
  <2>1. R \in Seq({s[i] : i \in L}) /\ Len(R) = N /\ DOMAIN R = 1..N
    BY <1>0, ReplayHas
  <2>2. \A p \in DOMAIN R : Gives(s, L, F, R, p)
    BY <1>0, ReplayHas
  <2> HIDE DEF R, F, N
  <2> QED
    BY <2>1, <2>2 DEF Gives
<1>5. Has(R, DOMAIN R, e.run) <=> Has(s, L, e.run)
  BY <1>0, ReplayGives
<1> HIDE DEF R, F, N
<1>3. F \subseteq 1..(m - 1)
  BY <1>1, <1>2
<1>6. \A p \in 1..N : t[Nth(F, p)].run = R[p].run
  BY <1>2, <1>4, <1>a
<1>7. ASSUME NEW p \in 1..N, R[p].run # e.run PROVE Latest(t, M, R[p].run) = R[p]
  <2> DEFINE r == R[p].run
  <2>1. Has(s, L, r) /\ R[p] = Latest(s, L, r) /\ e.run # r
    BY <1>4, <1>7
  <2> HIDE DEF r
  <2>2. Latest(t, M, r) = Latest(s, L, r)
    BY <2>1, LatestWithNext
  <2> QED
    BY <2>1, <2>2 DEF r
<1>8. Latest(t, M, e.run) = e
  <2>1. m \in M /\ \A j \in M : j <= m
    BY <1>0, <1>1
  <2>2. IsLast(t, M, e.run, m)
    BY <2>1 DEF IsLast
  <2> HIDE DEF M
  <2> QED
    BY <2>2, <1>0, LatestIsLast
<1> HIDE DEF M, e
<1>9. CASE Has(s, L, e.run)
  <2>1. Firsts(t, M) = F
    <3>1. m \notin Firsts(t, M)
      <4>1. PICK j \in L : s[j].run = e.run
        BY <1>9 DEF Has
      <4>2. j \in M /\ j < m /\ t[j].run = t[m].run
        BY <4>1, <1>a, <1>b DEF e
      <4> QED
        BY <4>2 DEF Firsts
    <3>2. ASSUME NEW i \in L PROVE i \in Firsts(t, M) <=> i \in F
      <4>1. i \in M /\ \A j \in M : j < i => j \in L
        BY <1>a, <1>b
      <4> QED
        BY <4>1, <1>a, <1>b DEF Firsts, F
    <3> QED
      BY <3>1, <3>2, <1>2, <1>b DEF Firsts
  <2>2. Replay(t, M) = [p \in 1..N |-> Latest(t, M, t[Nth(F, p)].run)]
    BY <2>1 DEF Replay, N
  <2>3. \A p \in 1..N : Latest(t, M, t[Nth(F, p)].run) = IF R[p].run = e.run THEN e ELSE R[p]
    BY <1>6, <1>7, <1>8
  <2>4. Replay(t, M) = [p \in 1..N |-> IF R[p].run = e.run THEN e ELSE R[p]]
    BY <2>2, <2>3
  <2>5. Put(R, e) = [p \in 1..N |-> IF R[p].run = e.run THEN e ELSE R[p]]
    BY <1>4, <1>5, <1>9 DEF Put
  <2> QED
    BY <2>4, <2>5 DEF R, M, e
<1>10. CASE ~Has(s, L, e.run)
  <2>1. Firsts(t, M) = F \cup {m}
    <3>1. m \in Firsts(t, M)
      <4>1. \A j \in M : j < m => j \in L
        BY <1>1, <1>b
      <4>2. \A j \in L : t[j].run # e.run
        BY <1>10, <1>a DEF Has
      <4> QED
        BY <4>1, <4>2, <1>b DEF Firsts, e
    <3>2. ASSUME NEW i \in L PROVE i \in Firsts(t, M) <=> i \in F
      <4>1. i \in M /\ \A j \in M : j < i => j \in L
        BY <1>a, <1>b
      <4> QED
        BY <4>1, <1>a, <1>b DEF Firsts, F
    <3> QED
      BY <3>1, <3>2, <1>2, <1>b DEF Firsts
  <2>2. /\ Cardinality(F \cup {m}) = N + 1
        /\ \A p \in 1..N : Nth(F \cup {m}, p) = Nth(F, p)
        /\ Nth(F \cup {m}, N + 1) = m
    <3> DEFINE k == m - 1
    <3>1. k \in Nat /\ F \subseteq 1..k /\ m = k + 1
      BY <1>1, <1>3
    <3> HIDE DEF k
    <3>2. /\ Cardinality(F \cup {k + 1}) = Cardinality(F) + 1
          /\ \A p \in 1..Cardinality(F) : Nth(F \cup {k + 1}, p) = Nth(F, p)
          /\ Nth(F \cup {k + 1}, Cardinality(F) + 1) = k + 1
      BY <3>1, NthWithLast
    <3> QED
      BY <3>1, <3>2 DEF N
  <2>3. Replay(t, M) = [p \in 1..(N + 1) |-> Latest(t, M, t[Nth(F \cup {m}, p)].run)]
    BY <2>1, <2>2 DEF Replay
  <2>4. \A p \in 1..N : Latest(t, M, t[Nth(F \cup {m}, p)].run) = R[p]
    <3>1. \A p \in 1..N : R[p].run # e.run
      BY <1>4, <1>10
    <3> QED
      BY <3>1, <2>2, <1>6, <1>7
  <2>5. Latest(t, M, t[Nth(F \cup {m}, N + 1)].run) = e
    BY <2>2, <1>8 DEF e
  <2>6. \A p \in 1..(N + 1) : p \in 1..N \/ p = N + 1
    BY <1>2
  <2>7. Replay(t, M) = [p \in 1..(N + 1) |-> IF p = N + 1 THEN e ELSE R[p]]
    <3>1. N + 1 \notin 1..N
      BY <1>2
    <3> QED
      BY <3>1, <2>3, <2>4, <2>5, <2>6
  <2>8. Append(R, e) = [p \in 1..(N + 1) |-> IF p = N + 1 THEN e ELSE R[p]]
    <3> DEFINE A == {s[i] : i \in L}
               S == A \cup {e}
    <3>0. R \in Seq(A) /\ A \subseteq S /\ e \in S
      BY <1>4
    <3> HIDE DEF A, S
    <3>1. R \in [1..N -> S]
      BY <3>0, <1>4
    <3>2. R \in Seq(S) /\ Len(R) = N
      BY <3>1, <1>2, <1>4, SeqDef
    <3> DEFINE a == Append(R, e)
    <3>3. a \in Seq(S) /\ Len(a) = N + 1 /\ (\A p \in 1..N : a[p] = R[p]) /\ a[N + 1] = e
      BY <3>0, <3>2, AppendProperties
    <3> HIDE DEF a
    <3>4. a \in [1..(N + 1) -> S]
      BY <3>3, LenProperties
    <3>5. \A p \in 1..(N + 1) : a[p] = IF p = N + 1 THEN e ELSE R[p]
      BY <3>3, <1>2
    <3> QED
      BY <3>4, <3>5 DEF a
  <2>9. Put(R, e) = Append(R, e)
    BY <1>5, <1>10 DEF Put
  <2> QED
    BY <2>7, <2>8, <2>9 DEF R, M, e
<1> QED
  BY <1>9, <1>10 DEF M, e

-----------------------------------------------------------------------------
(* The trail *)

\* p is s with e put in, and has m records.
IsPut(S, s, e, p, m) ==
    /\ p \in Seq(S) /\ Len(p) = m /\ DOMAIN p = 1..m
    /\ \A i \in 1..Len(s) : p[i] = IF s[i].run = e.run THEN e ELSE s[i]
    /\ \/ m = Len(s) /\ Has(s, DOMAIN s, e.run)
       \/ m = Len(s) + 1 /\ p[m] = e /\ ~Has(s, DOMAIN s, e.run)

\* put replaces the record of the run, or adds one.
LEMMA PutIsPut ==
    ASSUME NEW S, NEW s \in Seq(S), NEW e \in S
    PROVE  \E m : IsPut(S, s, e, Put(s, e), m)
<1> DEFINE p == Put(s, e)
           n == Len(s)
<1>1. n \in Nat /\ DOMAIN s = 1..n /\ \A i \in 1..n : s[i] \in S
  OBVIOUS
<1>2. CASE Has(s, DOMAIN s, e.run)
  <2>1. p = [i \in 1..n |-> IF s[i].run = e.run THEN e ELSE s[i]]
    BY <1>2, <1>1 DEF Put
  <2> HIDE DEF p
  <2>2. p \in [1..n -> S]
    BY <2>1, <1>1
  <2>3. p \in Seq(S)
    BY <2>2, <1>1, SeqDef
  <2>4. Len(p) = n
    BY <2>2, <2>3, <1>1, LenProperties
  <2>5. IsPut(S, s, e, p, n)
    BY <1>2, <2>1, <2>2, <2>3, <2>4, <1>1 DEF IsPut
  <2> QED
    BY <2>5 DEF p
<1>3. CASE ~Has(s, DOMAIN s, e.run)
  <2>1. p = Append(s, e)
    BY <1>3 DEF Put
  <2>2. \A i \in 1..n : s[i].run # e.run
    BY <1>3, <1>1 DEF Has
  <2> HIDE DEF p
  <2>3. /\ p \in Seq(S) /\ Len(p) = n + 1 /\ DOMAIN p = 1..(n + 1)
        /\ (\A i \in 1..n : p[i] = s[i]) /\ p[n + 1] = e
    BY <2>1, <1>1
  <2>4. IsPut(S, s, e, p, n + 1)
    BY <1>3, <2>2, <2>3 DEF IsPut
  <2> QED
    BY <2>4 DEF p
<1> QED
  BY <1>2, <1>3

\* So it keeps one record per run, and the others as they are.
LEMMA PutKeeps ==
    ASSUME NEW S, NEW s \in Seq(S), NEW e \in S, Distinct(s)
    PROVE  /\ Put(s, e) \in Seq(S) /\ Distinct(Put(s, e))
           /\ DOMAIN Put(s, e) = 1..Len(Put(s, e))
           /\ \A r : Has(Put(s, e), DOMAIN Put(s, e), r) <=> Has(s, DOMAIN s, r) \/ r = e.run
           /\ Latest(Put(s, e), DOMAIN Put(s, e), e.run) = e
           /\ \A r : r # e.run /\ Has(s, DOMAIN s, r) =>
                 Latest(Put(s, e), DOMAIN Put(s, e), r) = Latest(s, DOMAIN s, r)
<1> DEFINE p == Put(s, e)
           n == Len(s)
<1>1. n \in Nat /\ DOMAIN s = 1..n /\ \A i \in 1..n : s[i] \in S
  OBVIOUS
<1>a. PICK m : IsPut(S, s, e, p, m)
  BY PutIsPut
<1> HIDE DEF p
<1>2. /\ m \in {n, n + 1} /\ p \in Seq(S) /\ Len(p) = m /\ DOMAIN p = 1..m
      /\ \A i \in 1..n : p[i] = IF s[i].run = e.run THEN e ELSE s[i]
      /\ m = n + 1 => p[m] = e /\ ~Has(s, DOMAIN s, e.run)
      /\ m = n => Has(s, DOMAIN s, e.run)
  BY <1>a, <1>1 DEF IsPut
<1> HIDE DEF n
<1>3. \A i \in 1..m : i \in 1..n \/ (i = n + 1 /\ m = n + 1)
  BY <1>1, <1>2
<1>4. \A i \in 1..n : i \in 1..m
  BY <1>1, <1>2
<1>5. m = n + 1 => \A i \in 1..n : s[i].run # e.run
  BY <1>1, <1>2 DEF Has
<1>6. \A i \in 1..n : p[i].run = s[i].run
  BY <1>2
<1>7. Distinct(p)
  <2> SUFFICES ASSUME NEW i \in 1..m, NEW j \in 1..m, p[i].run = p[j].run PROVE i = j
    BY <1>2 DEF Distinct
  <2>1. CASE i \in 1..n /\ j \in 1..n
    BY <2>1, <1>1, <1>6 DEF Distinct
  <2>2. CASE i \in 1..n /\ j = n + 1 /\ m = n + 1
    BY <2>2, <1>2, <1>5, <1>6
  <2>3. CASE j \in 1..n /\ i = n + 1 /\ m = n + 1
    BY <2>3, <1>2, <1>5, <1>6
  <2>4. CASE i = n + 1 /\ j = n + 1
    BY <2>4
  <2> QED
    BY <2>1, <2>2, <2>3, <2>4, <1>3
<1>8. \E i \in 1..m : p[i] = e
  <2>1. CASE m = n + 1
    <3>1. n + 1 \in 1..m
      BY <2>1, <1>1
    <3> QED
      BY <2>1, <3>1, <1>2
  <2>2. CASE m = n
    <3>1. PICK i \in 1..n : s[i].run = e.run
      BY <2>2, <1>1, <1>2 DEF Has
    <3> QED
      BY <3>1, <1>2, <1>4
  <2> QED
    BY <2>1, <2>2, <1>2
<1>9. \A r : Has(p, DOMAIN p, r) <=> Has(s, DOMAIN s, r) \/ r = e.run
  BY <1>1, <1>2, <1>3, <1>4, <1>6, <1>8 DEF Has
<1>10. Latest(p, DOMAIN p, e.run) = e
  BY <1>2, <1>7, <1>8, LatestOfDistinct
<1>11. ASSUME NEW r, r # e.run, Has(s, DOMAIN s, r)
       PROVE  Latest(p, DOMAIN p, r) = Latest(s, DOMAIN s, r)
  <2>1. PICK i \in 1..n : s[i].run = r
    BY <1>1, <1>11 DEF Has
  <2>2. p[i] = s[i] /\ i \in DOMAIN p /\ i \in DOMAIN s
    BY <2>1, <1>1, <1>2, <1>4, <1>11
  <2>3. Latest(p, DOMAIN p, p[i].run) = p[i] /\ Latest(s, DOMAIN s, s[i].run) = s[i]
    BY <2>2, <1>2, <1>7, LatestOfDistinct
  <2> QED
    BY <2>1, <2>2, <2>3
<1> QED
  BY <1>2, <1>7, <1>9, <1>10, <1>11 DEF p

\* One record per run: as many runs as records.
LEMMA DistinctCounts ==
    ASSUME NEW S, NEW s \in Seq(S), Distinct(s)
    PROVE  Cardinality(RunsOf(s)) = Len(s)
<1> DEFINE n == Len(s)
           f == [i \in 1..n |-> s[i].run]
<1>1. n \in Nat /\ DOMAIN s = 1..n
  OBVIOUS
<1>2. RunsOf(s) = {s[i].run : i \in 1..n}
  BY <1>1 DEF RunsOf
<1>3. f \in [1..n -> RunsOf(s)]
  BY <1>2
<1>4. f \in Injection(1..n, RunsOf(s))
  BY <1>1, <1>3 DEF Injection, IsInjective, Distinct
<1>5. f \in Surjection(1..n, RunsOf(s))
  BY <1>2, <1>3 DEF Surjection
<1>6. IsFiniteSet(1..n) /\ Cardinality(1..n) = n
  BY <1>1, FS_Interval
<1> HIDE DEF f, n
<1>7. ExistsBijection(1..n, RunsOf(s))
  BY <1>4, <1>5 DEF ExistsBijection, Bijection
<1>8. Cardinality(RunsOf(s)) = Cardinality(1..n)
  BY <1>6, <1>7, FS_Bijection
<1> QED
  BY <1>6, <1>8 DEF n

-----------------------------------------------------------------------------
(* Sums *)

\* Induction up to a bound.
LEMMA UpToByInduction ==
    ASSUME NEW n \in Nat, NEW T, 0 \in T, \A k \in Nat : k < n /\ k \in T => k + 1 \in T
    PROVE  0..n \subseteq T
<1> DEFINE U == {k \in Nat : k <= n => k \in T}
<1>1. 0 \in U
  OBVIOUS
<1>2. ASSUME NEW k \in Nat, k \in U PROVE k + 1 \in U
  <2>1. k + 1 <= n => k < n /\ k <= n
    OBVIOUS
  <2> QED
    BY <1>2, <2>1
<1> HIDE DEF U
<1>3. Nat \subseteq U
  BY <1>1, <1>2, NumbersByInduction
<1> QED
  BY <1>3 DEF U

\* The recursive function of FromRecords, of the figures g.
SumsEquation(f, g, n) == f = [k \in 0..n |-> IF k = 0 THEN 0 ELSE f[k - 1] + g[k]]
Sums(g, n) == CHOOSE f : SumsEquation(f, g, n)

\* f[k] is the sum of the first k figures.
AreSums(f, g, n) ==
    f \in [0..n -> Nat] /\ f[0] = 0 /\ \A k \in 1..n : f[k] = f[k - 1] + g[k]

\* The partial sums that Total chooses exist.
LEMMA SumsExist ==
    ASSUME NEW n \in Nat, NEW g \in [1..n -> Nat]
    PROVE  AreSums(Sums(g, n), g, n)
<1> DEFINE T == {m \in Nat : \E f : AreSums(f, g, m)}
<1>1. 0 \in T
  <2> DEFINE f == [k \in 0..0 |-> 0]
  <2>1. AreSums(f, g, 0)
    BY DEF AreSums
  <2> HIDE DEF f
  <2> QED
    BY <2>1
<1>2. ASSUME NEW m \in Nat, m < n, m \in T PROVE m + 1 \in T
  <2>1. PICK f : AreSums(f, g, m)
    BY <1>2
  <2> DEFINE h == [k \in 0..(m + 1) |-> IF k = m + 1 THEN f[m] + g[m + 1] ELSE f[k]]
  <2>2. f[m] \in Nat /\ g[m + 1] \in Nat
    BY <2>1, <1>2 DEF AreSums
  <2>3. \A k \in 0..(m + 1) : k = m + 1 \/ k \in 0..m
    OBVIOUS
  <2>4. h \in [0..(m + 1) -> Nat]
    BY <2>1, <2>2, <2>3 DEF AreSums
  <2>5. \A k \in 0..m : h[k] = f[k] /\ k \in 0..(m + 1)
    OBVIOUS
  <2>6. h[m + 1] = f[m] + g[m + 1]
    OBVIOUS
  <2>7. ASSUME NEW k \in 1..(m + 1) PROVE h[k] = h[k - 1] + g[k]
    <3> HIDE DEF h
    <3>1. CASE k = m + 1
      <4>1. k - 1 = m /\ m \in 0..m
        BY <3>1
      <4> QED
        BY <3>1, <4>1, <2>5, <2>6
    <3>2. CASE k # m + 1
      <4>1. k \in 1..m /\ k \in 0..m /\ k - 1 \in 0..m
        BY <3>2
      <4> QED
        BY <4>1, <2>1, <2>5 DEF AreSums
    <3> QED
      BY <3>1, <3>2
  <2>8. h[0] = 0
    BY <2>1, <2>5 DEF AreSums
  <2> HIDE DEF h
  <2>9. AreSums(h, g, m + 1)
    BY <2>4, <2>7, <2>8 DEF AreSums
  <2> QED
    BY <2>9
<1> HIDE DEF T
<1>3. n \in T
  <2>1. 0..n \subseteq T
    BY <1>1, <1>2, UpToByInduction
  <2> QED
    BY <2>1
<1>4. PICK f : AreSums(f, g, n)
  BY <1>3 DEF T
<1>5. SumsEquation(f, g, n)
  BY <1>4 DEF AreSums, SumsEquation
<1> DEFINE s == Sums(g, n)
<1>6. SumsEquation(s, g, n)
  BY <1>5 DEF Sums
<1> HIDE DEF s
<1>7. s = [k \in 0..n |-> IF k = 0 THEN 0 ELSE s[k - 1] + g[k]]
  BY <1>6 DEF SumsEquation
<1>8. s[0] = 0 /\ \A k \in 1..n : s[k] = s[k - 1] + g[k]
  <2>1. 0 \in 0..n /\ \A k \in 1..n : k \in 0..n /\ k # 0
    OBVIOUS
  <2> QED
    BY <1>7, <2>1
<1>9. \A k \in 0..n : s[k] \in Nat
  <2> DEFINE V == {k \in Nat : s[k] \in Nat}
  <2>1. 0 \in V
    BY <1>8
  <2>2. ASSUME NEW k \in Nat, k < n, k \in V PROVE k + 1 \in V
    <3>1. k + 1 \in 1..n /\ (k + 1) - 1 = k /\ g[k + 1] \in Nat
      BY <2>2
    <3>2. s[k + 1] = s[k] + g[k + 1]
      BY <3>1, <1>8
    <3> QED
      BY <2>2, <3>1, <3>2
  <2> HIDE DEF V
  <2>3. 0..n \subseteq V
    BY <2>1, <2>2, UpToByInduction
  <2> QED
    BY <2>3 DEF V
<1>10. AreSums(s, g, n)
  BY <1>7, <1>8, <1>9 DEF AreSums
<1> QED
  BY <1>10 DEF s

Total(g, n) == Sums(g, n)[n]

\* A total of numbers is a number,
LEMMA TotalIsNat ==
    ASSUME NEW n \in Nat, NEW g \in [1..n -> Nat]
    PROVE  Total(g, n) \in Nat
BY SumsExist DEF AreSums, Total

\* that of none is zero,
LEMMA TotalOfNone ==
    ASSUME NEW g \in [1..0 -> Nat]
    PROVE  Total(g, 0) = 0
BY SumsExist DEF AreSums, Total

\* One figure more.
LEMMA TotalWithNext ==
    ASSUME NEW n \in Nat, NEW g \in [1..n -> Nat], NEW h \in [1..(n + 1) -> Nat],
           \A i \in 1..n : h[i] = g[i]
    PROVE  Total(h, n + 1) = Total(g, n) + h[n + 1]
<1> DEFINE f == Sums(g, n)
           e == Sums(h, n + 1)
<1>1. AreSums(f, g, n) /\ AreSums(e, h, n + 1)
  BY SumsExist
<1> HIDE DEF f, e
<1> DEFINE T == {k \in Nat : e[k] = f[k]}
<1>2. 0 \in T
  BY <1>1 DEF AreSums
<1>3. ASSUME NEW k \in Nat, k < n, k \in T PROVE k + 1 \in T
  <2>1. k + 1 \in 1..n /\ k + 1 \in 1..(n + 1) /\ (k + 1) - 1 = k
    BY <1>3
  <2>2. f[k + 1] = f[k] + g[k + 1] /\ e[k + 1] = e[k] + h[k + 1]
    BY <2>1, <1>1 DEF AreSums
  <2> QED
    BY <2>1, <2>2, <1>3
<1> HIDE DEF T
<1>4. 0..n \subseteq T
  BY <1>2, <1>3, UpToByInduction
<1>5. e[n] = f[n]
  BY <1>4 DEF T
<1>6. e[n + 1] = e[n] + h[n + 1]
  <2>1. n + 1 \in 1..(n + 1) /\ (n + 1) - 1 = n
    OBVIOUS
  <2> QED
    BY <1>1, <2>1 DEF AreSums
<1> QED
  BY <1>5, <1>6 DEF Total, f, e

\* One figure replaced: what the total loses and gains.  No figure is more
\* than the total.
LEMMA TotalReplaced ==
    ASSUME NEW n \in Nat, NEW g \in [1..n -> Nat], NEW h \in [1..n -> Nat], NEW i \in 1..n,
           \A j \in 1..n : j # i => h[j] = g[j]
    PROVE  /\ Total(h, n) + g[i] = Total(g, n) + h[i]
           /\ g[i] <= Total(g, n)
<1> DEFINE f == Sums(g, n)
           e == Sums(h, n)
<1>1. AreSums(f, g, n) /\ AreSums(e, h, n)
  BY SumsExist
<1> HIDE DEF f, e
<1> DEFINE T == {k \in Nat : /\ k < i => e[k] = f[k]
                             /\ i <= k => e[k] + g[i] = f[k] + h[i] /\ g[i] <= f[k]}
<1>0. i \in Int /\ g[i] \in Nat /\ h[i] \in Nat /\ 1 <= i
  OBVIOUS
<1>2. 0 \in T
  BY <1>0, <1>1 DEF AreSums
<1>3. ASSUME NEW k \in Nat, k < n, k \in T PROVE k + 1 \in T
  <2>1. k + 1 \in 1..n /\ (k + 1) - 1 = k /\ k \in 0..n /\ k + 1 \in 0..n
    BY <1>3
  <2>2. f[k + 1] = f[k] + g[k + 1] /\ e[k + 1] = e[k] + h[k + 1]
    BY <2>1, <1>1 DEF AreSums
  <2>3. f[k] \in Nat /\ e[k] \in Nat /\ g[k + 1] \in Nat /\ h[k + 1] \in Nat
    BY <2>1, <1>1 DEF AreSums
  <2>4. CASE k + 1 < i
    BY <2>1, <2>2, <2>3, <2>4, <1>0, <1>3
  <2>5. CASE k + 1 = i
    <3>1. e[k] = f[k]
      BY <2>5, <1>0, <1>3
    <3>2. e[k + 1] + g[i] = f[k + 1] + h[i] /\ g[i] <= f[k + 1]
      BY <3>1, <2>2, <2>3, <2>5
    <3> QED
      BY <3>2, <2>5, <1>0
  <2>6. CASE i < k + 1
    <3>1. e[k] + g[i] = f[k] + h[i] /\ g[i] <= f[k]
      BY <2>6, <1>0, <1>3
    <3>2. h[k + 1] = g[k + 1]
      BY <2>1, <2>6, <1>0
    <3>3. f[k + 1] = f[k] + g[k + 1] /\ e[k + 1] = e[k] + g[k + 1]
      BY <3>2, <2>2
    <3> DEFINE a == e[k]
               b == f[k]
               c == g[i]
               d == h[i]
               x == g[k + 1]
    <3>4. a \in Nat /\ b \in Nat /\ c \in Nat /\ d \in Nat /\ x \in Nat
          /\ a + c = b + d /\ c <= b
      BY <3>1, <2>3, <1>0
    <3>5. f[k + 1] = b + x /\ e[k + 1] = a + x
      BY <3>3
    <3> HIDE DEF a, b, c, d, x
    <3>6. (a + x) + c = (b + x) + d /\ c <= b + x
      BY <3>4
    <3>7. e[k + 1] + c = f[k + 1] + d /\ c <= f[k + 1]
      BY <3>5, <3>6
    <3> QED
      BY <3>7, <2>6, <1>0 DEF c, d
  <2> QED
    BY <2>4, <2>5, <2>6, <1>0
<1> HIDE DEF T
<1>4. 0..n \subseteq T
  BY <1>2, <1>3, UpToByInduction
<1>5. n \in T
  BY <1>4
<1> QED
  BY <1>5, <1>0 DEF T, Total, f, e

\* g is made up of three sequences of figures.
AddUp(g, a, b, c, n) ==
    /\ n \in Nat
    /\ {g, a, b, c} \subseteq [1..n -> Nat]
    /\ \A i \in 1..n : g[i] = a[i] + b[i] + c[i]

\* The sum of sums, and of figures that are below others.
LEMMA TotalOfThree ==
    ASSUME NEW n, NEW g, NEW a, NEW b, NEW c, AddUp(g, a, b, c, n)
    PROVE  Total(g, n) = Total(a, n) + Total(b, n) + Total(c, n)
<1>0. /\ n \in Nat
      /\ g \in [1..n -> Nat] /\ a \in [1..n -> Nat]
      /\ b \in [1..n -> Nat] /\ c \in [1..n -> Nat]
  BY DEF AddUp
<1> DEFINE f == Sums(g, n)
           fa == Sums(a, n)
           fb == Sums(b, n)
           fc == Sums(c, n)
<1>1. AreSums(f, g, n) /\ AreSums(fa, a, n) /\ AreSums(fb, b, n) /\ AreSums(fc, c, n)
  BY <1>0, SumsExist
<1> HIDE DEF f, fa, fb, fc
<1> DEFINE T == {k \in Nat : f[k] = fa[k] + fb[k] + fc[k]}
<1>2. 0 \in T
  BY <1>1 DEF AreSums
<1>3. ASSUME NEW k \in Nat, k < n, k \in T PROVE k + 1 \in T
  <2>1. k + 1 \in 1..n /\ (k + 1) - 1 = k /\ k \in 0..n
    BY <1>0, <1>3
  <2>2. /\ f[k + 1] = f[k] + g[k + 1] /\ fa[k + 1] = fa[k] + a[k + 1]
        /\ fb[k + 1] = fb[k] + b[k + 1] /\ fc[k + 1] = fc[k] + c[k + 1]
    BY <2>1, <1>1 DEF AreSums
  <2>3. /\ fa[k] \in Nat /\ fb[k] \in Nat /\ fc[k] \in Nat
        /\ a[k + 1] \in Nat /\ b[k + 1] \in Nat /\ c[k + 1] \in Nat
    BY <2>1, <1>0, <1>1 DEF AreSums
  <2>4. f[k] = fa[k] + fb[k] + fc[k] /\ g[k + 1] = a[k + 1] + b[k + 1] + c[k + 1]
    BY <2>1, <1>3 DEF AddUp
  <2> DEFINE u == fa[k]
             v == fb[k]
             w == fc[k]
             x == a[k + 1]
             y == b[k + 1]
             z == c[k + 1]
  <2>5. u \in Nat /\ v \in Nat /\ w \in Nat /\ x \in Nat /\ y \in Nat /\ z \in Nat
    BY <2>3
  <2>6. f[k + 1] = (u + v + w) + (x + y + z)
    BY <2>2, <2>4
  <2>7. fa[k + 1] = u + x /\ fb[k + 1] = v + y /\ fc[k + 1] = w + z
    BY <2>2
  <2> HIDE DEF u, v, w, x, y, z
  <2>8. (u + v + w) + (x + y + z) = (u + x) + (v + y) + (w + z)
    BY <2>5
  <2> QED
    BY <2>6, <2>7, <2>8
<1> HIDE DEF T
<1>4. 0..n \subseteq T
  BY <1>0, <1>2, <1>3, UpToByInduction
<1>5. n \in T
  BY <1>0, <1>4
<1> QED
  BY <1>5 DEF T, Total, f, fa, fb, fc

\* and it grows with what is added.
LEMMA TotalOfLess ==
    ASSUME NEW n \in Nat, NEW g \in [1..n -> Nat], NEW h \in [1..n -> Nat],
           \A i \in 1..n : g[i] <= h[i]
    PROVE  Total(g, n) <= Total(h, n)
<1> DEFINE f == Sums(g, n)
           e == Sums(h, n)
<1>1. AreSums(f, g, n) /\ AreSums(e, h, n)
  BY SumsExist
<1> HIDE DEF f, e
<1> DEFINE T == {k \in Nat : f[k] <= e[k]}
<1>2. 0 \in T
  BY <1>1 DEF AreSums
<1>3. ASSUME NEW k \in Nat, k < n, k \in T PROVE k + 1 \in T
  <2>1. k + 1 \in 1..n /\ (k + 1) - 1 = k /\ k \in 0..n
    BY <1>3
  <2>2. f[k + 1] = f[k] + g[k + 1] /\ e[k + 1] = e[k] + h[k + 1]
    BY <2>1, <1>1 DEF AreSums
  <2>3. f[k] \in Nat /\ e[k] \in Nat /\ g[k + 1] \in Nat /\ h[k + 1] \in Nat
    BY <2>1, <1>1 DEF AreSums
  <2>4. f[k] <= e[k] /\ g[k + 1] <= h[k + 1]
    BY <2>1, <1>3
  <2>5. f[k] + g[k + 1] <= e[k] + h[k + 1]
    BY <2>3, <2>4
  <2>6. f[k + 1] <= e[k + 1]
    BY <2>2, <2>5
  <2> QED
    BY <2>6
<1> HIDE DEF T
<1>4. 0..n \subseteq T
  BY <1>2, <1>3, UpToByInduction
<1>5. n \in T
  BY <1>4
<1> QED
  BY <1>5 DEF T, Total, f, e

\* Of ones and zeros, the number of ones.
LEMMA TotalOfOnes ==
    ASSUME NEW n \in Nat, NEW S, S \subseteq 1..n, NEW g \in [1..n -> Nat],
           \A i \in 1..n : g[i] = IF i \in S THEN 1 ELSE 0
    PROVE  Total(g, n) = Cardinality(S)
<1> DEFINE f == Sums(g, n)
           Upto(k) == {i \in S : i <= k}
<1>1. AreSums(f, g, n)
  BY SumsExist
<1> HIDE DEF f
<1> DEFINE T == {k \in Nat : f[k] = Cardinality(Upto(k))}
<1>2. 0 \in T
  <2>1. Upto(0) = {}
    <3>1. \A i \in 1..n : ~(i <= 0)
      OBVIOUS
    <3> QED
      BY <3>1
  <2> HIDE DEF Upto
  <2> QED
    BY <1>1, <2>1, FS_EmptySet DEF AreSums
<1>3. ASSUME NEW k \in Nat, k < n, k \in T PROVE k + 1 \in T
  <2>1. k + 1 \in 1..n /\ (k + 1) - 1 = k /\ k \in 0..n
    BY <1>3
  <2>2. f[k + 1] = f[k] + g[k + 1]
    BY <2>1, <1>1 DEF AreSums
  <2>3. Upto(k) \subseteq 1..n /\ k + 1 \notin Upto(k)
    <3>1. ~(k + 1 <= k)
      OBVIOUS
    <3> QED
      BY <3>1
  <2>4. IsFiniteSet(Upto(k)) /\ Cardinality(Upto(k)) \in Nat
    <3> HIDE DEF Upto
    <3> QED
      BY <2>3, LinesAreFinite
  <2>5. CASE k + 1 \in S
    <3>1. Upto(k + 1) = Upto(k) \cup {k + 1}
      <4>1. \A i \in S : i <= k + 1 <=> (i <= k \/ i = k + 1)
        <5>1. \A i \in Int : i <= k + 1 <=> (i <= k \/ i = k + 1)
          OBVIOUS
        <5> QED
          BY <5>1
      <4> QED
        BY <4>1, <2>5
    <3> HIDE DEF Upto
    <3>2. Cardinality(Upto(k + 1)) = Cardinality(Upto(k)) + 1
      BY <3>1, <2>3, <2>4, FS_AddElement
    <3>3. g[k + 1] = 1
      BY <2>1, <2>5
    <3> QED
      BY <3>2, <3>3, <2>2, <1>3
  <2>6. CASE k + 1 \notin S
    <3>1. Upto(k + 1) = Upto(k)
      <4>1. \A i \in S : i <= k + 1 <=> i <= k
        BY <2>6
      <4> QED
        BY <4>1
    <3> HIDE DEF Upto
    <3>2. g[k + 1] = 0
      BY <2>1, <2>6
    <3> QED
      BY <3>1, <3>2, <2>2, <2>4, <1>3
  <2> QED
    BY <2>5, <2>6
<1>5. Upto(n) = S
  <2>1. \A i \in S : i <= n
    OBVIOUS
  <2> QED
    BY <2>1
<1> HIDE DEF T, Upto
<1>4. 0..n \subseteq T
  BY <1>2, <1>3, UpToByInduction
<1>6. n \in T
  BY <1>4
<1> QED
  BY <1>5, <1>6 DEF T, Total, f

\* Sums of the same figures are the same.
LEMMA SumsAreOne ==
    ASSUME NEW n \in Nat, NEW g \in [1..n -> Nat], NEW f, AreSums(f, g, n)
    PROVE  f[n] = Total(g, n)
<1> DEFINE e == Sums(g, n)
<1>1. AreSums(e, g, n)
  BY SumsExist
<1> HIDE DEF e
<1> DEFINE T == {k \in Nat : f[k] = e[k]}
<1>2. 0 \in T
  BY <1>1 DEF AreSums
<1>3. ASSUME NEW k \in Nat, k < n, k \in T PROVE k + 1 \in T
  <2>1. k + 1 \in 1..n /\ (k + 1) - 1 = k
    BY <1>3
  <2>2. f[k + 1] = f[k] + g[k + 1] /\ e[k + 1] = e[k] + g[k + 1]
    BY <2>1, <1>1 DEF AreSums
  <2> QED
    BY <2>1, <2>2, <1>3
<1> HIDE DEF T
<1>4. 0..n \subseteq T
  BY <1>2, <1>3, UpToByInduction
<1>5. n \in T
  BY <1>4
<1> QED
  BY <1>5 DEF T, Total, e

-----------------------------------------------------------------------------
(* The aggregate of some records *)

\* What the records s contribute to counter c.
Figures(s, c) == [i \in 1..Len(s) |-> Contribution(s[i])[c]]

\* What one record contributes, and that it is counted once (RunAggregate).
LEMMA ContributionIsCounted ==
    ASSUME NEW v \in Revision
    PROVE  /\ Contribution(v) \in [Counters -> Nat]
           /\ Contribution(v).executed = IF IsTerminal(v) THEN 1 ELSE 0
           /\ Contribution(v).executed = Contribution(v).simulated + Contribution(v).pending
                                            + Contribution(v).feedback
           /\ Contribution(v).contained <= Contribution(v).detected
           /\ Contribution(v).detected <= Contribution(v).feedback
<1> DEFINE live == Confirmed(v)
           figures == IF live THEN Feedback[v.feedback] ELSE <<0, 0>>
           counted == IsTerminal(v)
           C == Contribution(v)
<1>1. figures[1] \in Nat /\ figures[2] \in Nat
  <2>1. CASE ~live
    BY <2>1
  <2>2. CASE live
    <3>1. v.feedback \in Feedbacks
      BY <2>2 DEF Revision, Confirmed
    <3> QED
      BY <3>1, <2>2 DEF Feedbacks, Feedback
  <2> QED
    BY <2>1, <2>2
<1>2. /\ C.executed = IF counted THEN 1 ELSE 0
      /\ C.simulated = IF counted /\ v.mode = "simulated" THEN 1 ELSE 0
      /\ C.pending = IF counted /\ ~live /\ v.mode # "simulated" THEN 1 ELSE 0
      /\ C.feedback = IF counted /\ live THEN 1 ELSE 0
  BY DEF Contribution
<1>3. /\ C.detected = IF counted /\ live /\ v.feedback # "missed" THEN 1 ELSE 0
      /\ C.contained = IF counted /\ live /\ v.feedback \in Containing THEN 1 ELSE 0
  BY DEF Contribution
<1>4. /\ C.sumMttd = IF counted /\ live THEN figures[1] ELSE 0
      /\ C.sumMttr = IF counted /\ live THEN figures[2] ELSE 0
  BY DEF Contribution
<1>5. C = [c \in Counters |-> C[c]]
  BY DEF Contribution, Counters
<1>6. live => v.mode # "simulated"
  BY DEF Confirmed
<1>7. v.feedback \in Containing => v.feedback # "missed"
  BY DEF Containing
<1> HIDE DEF live, counted, C, figures
<1>8. \A c \in Counters : C[c] \in Nat
  BY <1>1, <1>2, <1>3, <1>4 DEF Counters
<1>9. C \in [Counters -> Nat]
  BY <1>5, <1>8
<1>10. C.executed = C.simulated + C.pending + C.feedback
  BY <1>2, <1>6
<1>11. C.contained <= C.detected /\ C.detected <= C.feedback
  BY <1>2, <1>3, <1>7
<1> QED
  BY <1>2, <1>9, <1>10, <1>11 DEF C, counted

\* The figures of the records are numbers.
LEMMA FiguresAreNat ==
    ASSUME NEW s \in Seq(Revision), NEW c \in Counters
    PROVE  Figures(s, c) \in [1..Len(s) -> Nat]
<1>1. ASSUME NEW i \in 1..Len(s) PROVE Contribution(s[i])[c] \in Nat
  <2>1. s[i] \in Revision
    OBVIOUS
  <2>2. Contribution(s[i]) \in [Counters -> Nat]
    BY <2>1, ContributionIsCounted
  <2> QED
    BY <2>2
<1> QED
  BY <1>1 DEF Figures

\* A solution of the equation of FromRecords.
RecordSums(s, c) ==
    CHOOSE sum : sum = [n \in 0..Len(s) |->
        IF n = 0 THEN 0 ELSE sum[n - 1] + Contribution(s[n])[c]]

\* from_records adds the figures of all records.
LEMMA FromRecordsAdds ==
    ASSUME NEW s \in Seq(Revision), NEW c \in Counters
    PROVE  FromRecords(s)[c] = Total(Figures(s, c), Len(s))
<1> DEFINE n == Len(s)
           g == Figures(s, c)
           E(f) == f = [k \in 0..Len(s) |-> IF k = 0 THEN 0 ELSE f[k - 1] + Contribution(s[k])[c]]
           r == RecordSums(s, c)
<1>1. n \in Nat /\ g \in [1..n -> Nat]
  BY FiguresAreNat
<1>2. FromRecords(s)[c] = r[n]
  BY DEF FromRecords, RecordSums
<1>3. \A k \in 1..n : g[k] = Contribution(s[k])[c]
  BY DEF Figures
<1> DEFINE e == Sums(g, n)
<1>4. AreSums(e, g, n)
  <2> HIDE DEF g, n
  <2> QED
    BY <1>1, SumsExist
<1>5. E(e)
  <2> HIDE DEF e, g
  <2>1. e \in [0..n -> Nat] /\ e[0] = 0 /\ \A k \in 1..n : e[k] = e[k - 1] + g[k]
    BY <1>4 DEF AreSums
  <2>2. \A k \in 0..n : e[k] = IF k = 0 THEN 0 ELSE e[k - 1] + Contribution(s[k])[c]
    BY <2>1, <1>1, <1>3
  <2> QED
    BY <2>1, <2>2
<1> HIDE DEF e
<1>6. E(r)
  <2>1. \E f : E(f)
    BY <1>5
  <2> QED
    BY <2>1 DEF RecordSums
<1> HIDE DEF r, g
<1>7. r = [k \in 0..n |-> IF k = 0 THEN 0 ELSE r[k - 1] + Contribution(s[k])[c]]
  BY <1>6
<1> HIDE DEF E, n
<1>8. r[0] = 0 /\ \A k \in 1..n : r[k] = r[k - 1] + g[k]
  <2>1. 0 \in 0..n /\ \A k \in 1..n : k \in 0..n /\ k # 0
    BY <1>1
  <2> QED
    BY <1>3, <1>7, <2>1
<1>9. \A k \in 0..n : r[k] \in Nat
  <2> DEFINE V == {k \in Nat : r[k] \in Nat}
  <2>1. 0 \in V
    BY <1>8
  <2>2. ASSUME NEW k \in Nat, k < n, k \in V PROVE k + 1 \in V
    <3>1. k + 1 \in 1..n /\ (k + 1) - 1 = k
      BY <1>1, <2>2
    <3>2. r[k + 1] = r[k] + g[k + 1] /\ g[k + 1] \in Nat
      BY <3>1, <1>1, <1>8
    <3> QED
      BY <2>2, <3>2
  <2> HIDE DEF V
  <2>3. 0..n \subseteq V
    BY <2>1, <2>2, <1>1, UpToByInduction
  <2> QED
    BY <2>3 DEF V
<1>10. AreSums(r, g, n)
  BY <1>7, <1>8, <1>9 DEF AreSums
<1>11. r[n] = Total(g, n)
  BY <1>1, <1>10, SumsAreOne
<1> QED
  BY <1>2, <1>11 DEF g, n

\* So its counters are numbers.
LEMMA FromRecordsIsCounted ==
    ASSUME NEW s \in Seq(Revision)
    PROVE  FromRecords(s) \in [Counters -> Nat]
<1>1. ASSUME NEW c \in Counters PROVE FromRecords(s)[c] \in Nat
  <2>1. FromRecords(s)[c] = Total(Figures(s, c), Len(s))
    BY FromRecordsAdds
  <2>2. Figures(s, c) \in [1..Len(s) -> Nat] /\ Len(s) \in Nat
    BY FiguresAreNat
  <2> QED
    BY <2>1, <2>2, TotalIsNat
<1>2. FromRecords(s) = [c \in Counters |-> FromRecords(s)[c]]
  BY DEF FromRecords
<1> QED
  BY <1>1, <1>2

\* What record_run and update_run make of the aggregate of some records.
PutCounted(s, revision) ==
    Plus(IF Has(s, DOMAIN s, revision.run)
         THEN Minus(FromRecords(s), Contribution(Latest(s, DOMAIN s, revision.run)))
         ELSE FromRecords(s),
         Contribution(revision))

\* The record of a new run adds what it contributes.
LEMMA NewIsCounted ==
    ASSUME NEW s \in Seq(Revision), NEW e \in Revision, ~Has(s, DOMAIN s, e.run)
    PROVE  FromRecords(Put(s, e)) = PutCounted(s, e)
<1> DEFINE n == Len(s)
           t == Append(s, e)
           A == FromRecords(s)
           B == FromRecords(t)
           C == Contribution(e)
<1>1. n \in Nat /\ t \in Seq(Revision) /\ Len(t) = n + 1
      /\ (\A i \in 1..n : t[i] = s[i]) /\ t[n + 1] = e
  OBVIOUS
<1>2. Put(s, e) = t /\ PutCounted(s, e) = Plus(A, C)
  BY DEF Put, PutCounted
<1>3. A \in [Counters -> Nat] /\ C \in [Counters -> Nat] /\ B \in [Counters -> Nat]
  <2>1. t \in Seq(Revision)
    BY <1>1
  <2> HIDE DEF t
  <2> QED
    BY <2>1, FromRecordsIsCounted, ContributionIsCounted
<1> HIDE DEF t, n
<1>4. ASSUME NEW c \in Counters PROVE B[c] = A[c] + C[c]
  <2> DEFINE g == Figures(s, c)
             h == Figures(t, c)
  <2>1. A[c] = Total(g, n) /\ B[c] = Total(h, n + 1)
    BY <1>1, FromRecordsAdds DEF n
  <2>2. g \in [1..n -> Nat] /\ h \in [1..(n + 1) -> Nat]
    BY <1>1, FiguresAreNat DEF n
  <2>3. (\A i \in 1..n : h[i] = g[i]) /\ h[n + 1] = C[c]
    <3>1. \A i \in 1..n : i \in 1..(n + 1)
      BY <1>1
    <3>2. n + 1 \in 1..(n + 1)
      BY <1>1
    <3> QED
      BY <3>1, <3>2, <1>1 DEF Figures, n
  <2> HIDE DEF g, h, A, B, C
  <2>4. Total(h, n + 1) = Total(g, n) + h[n + 1]
    BY <1>1, <2>2, <2>3, TotalWithNext
  <2> QED
    BY <2>1, <2>3, <2>4
<1> HIDE DEF A, B, C
<1>5. B = Plus(A, C)
  BY <1>3, <1>4 DEF Plus
<1> QED
  BY <1>2, <1>5 DEF B

\* A new revision of a run replaces what the old one contributed: the
\* subtraction never saturates.
LEMMA UpdateIsCounted ==
    ASSUME NEW s \in Seq(Revision), NEW e \in Revision, Distinct(s), Has(s, DOMAIN s, e.run)
    PROVE  FromRecords(Put(s, e)) = PutCounted(s, e)
<1> DEFINE n == Len(s)
           t == Put(s, e)
           A == FromRecords(s)
           B == FromRecords(t)
           C == Contribution(e)
           old == Latest(s, DOMAIN s, e.run)
           D == Contribution(old)
<1>1. n \in Nat /\ DOMAIN s = 1..n
  OBVIOUS
<1>2. PutCounted(s, e) = Plus(Minus(A, D), C)
  BY DEF PutCounted
<1>3. PICK i \in 1..n : s[i].run = e.run
  BY <1>1 DEF Has
<1>4. \A j \in 1..n : j # i => s[j].run # e.run
  BY <1>1, <1>3 DEF Distinct
<1>5. old = s[i]
  <2>1. Latest(s, DOMAIN s, s[i].run) = s[i]
    BY <1>1, <1>3, LatestOfDistinct
  <2> QED
    BY <2>1, <1>3
<1>6. t = [j \in 1..n |-> IF s[j].run = e.run THEN e ELSE s[j]]
  BY <1>1 DEF Put
<1>7. t \in Seq(Revision)
  BY PutKeeps
<1> HIDE DEF t, old
<1>8. Len(t) = n
  BY <1>1, <1>6, <1>7, LenProperties
<1>9. t[i] = e /\ \A j \in 1..n : j # i => t[j] = s[j]
  BY <1>3, <1>4, <1>6
<1>10. A \in [Counters -> Nat] /\ B \in [Counters -> Nat] /\ C \in [Counters -> Nat]
       /\ D \in [Counters -> Nat]
  <2>1. old \in Revision
    BY <1>1, <1>5
  <2> QED
    BY <1>7, <2>1, FromRecordsIsCounted, ContributionIsCounted
<1>11. ASSUME NEW c \in Counters PROVE B[c] + D[c] = A[c] + C[c] /\ D[c] <= A[c]
  <2> DEFINE g == Figures(s, c)
             h == Figures(t, c)
  <2>1. A[c] = Total(g, n) /\ B[c] = Total(h, n)
    BY <1>7, <1>8, FromRecordsAdds
  <2>2. g \in [1..n -> Nat] /\ h \in [1..n -> Nat]
    BY <1>7, <1>8, FiguresAreNat
  <2>3. h[i] = C[c] /\ g[i] = D[c] /\ \A j \in 1..n : j # i => h[j] = g[j]
    BY <1>3, <1>5, <1>8, <1>9 DEF Figures
  <2> HIDE DEF g, h, A, B, C, D, n
  <2>4. Total(h, n) + g[i] = Total(g, n) + h[i] /\ g[i] <= Total(g, n)
    BY <1>1, <1>3, <2>2, <2>3, TotalReplaced
  <2> QED
    BY <2>1, <2>3, <2>4
<1> HIDE DEF A, B, C, D
<1>12. ASSUME NEW c \in Counters
       PROVE  B[c] = (IF D[c] > A[c] THEN 0 ELSE A[c] - D[c]) + C[c]
  <2> DEFINE b == B[c]
             a == A[c]
             x == C[c]
             y == D[c]
  <2>1. a \in Nat /\ b \in Nat /\ x \in Nat /\ y \in Nat
    BY <1>10
  <2>2. b + y = a + x /\ y <= a
    BY <1>11
  <2> HIDE DEF a, b, x, y
  <2>3. b = (IF y > a THEN 0 ELSE a - y) + x
    BY <2>1, <2>2
  <2> QED
    BY <2>3 DEF a, b, x, y
<1>13. B = Plus(Minus(A, D), C)
  BY <1>10, <1>12 DEF Plus, Minus
<1> QED
  BY <1>2, <1>13 DEF B, t

\* Together: update_run is from_records of what put leaves.
LEMMA PutIsCounted ==
    ASSUME NEW s \in Seq(Revision), NEW e \in Revision, Distinct(s)
    PROVE  FromRecords(Put(s, e)) = PutCounted(s, e)
BY NewIsCounted, UpdateIsCounted

\* Each record that ended counts once, and in one way.
LEMMA RecordsCountOnce ==
    ASSUME NEW s \in Seq(Revision)
    PROVE  LET A == FromRecords(s)
           IN  /\ A.executed = Cardinality({i \in DOMAIN s : IsTerminal(s[i])})
               /\ A.executed = A.simulated + A.pending + A.feedback
               /\ A.contained <= A.detected /\ A.detected <= A.feedback
<1> DEFINE n == Len(s)
           A == FromRecords(s)
           G(c) == Figures(s, c)
<1>1. n \in Nat /\ DOMAIN s = 1..n /\ \A i \in 1..n : s[i] \in Revision
  OBVIOUS
<1>2. \A c \in Counters : A[c] = Total(G(c), n) /\ G(c) \in [1..n -> Nat]
  BY FromRecordsAdds, FiguresAreNat
<1>3. \A c, i : i \in 1..n => G(c)[i] = Contribution(s[i])[c]
  BY DEF Figures
<1> HIDE DEF G, A, n
<1>4. ASSUME NEW i \in 1..n
      PROVE  /\ G("executed")[i] = IF IsTerminal(s[i]) THEN 1 ELSE 0
             /\ G("executed")[i] = G("simulated")[i] + G("pending")[i] + G("feedback")[i]
             /\ G("contained")[i] <= G("detected")[i]
             /\ G("detected")[i] <= G("feedback")[i]
  <2> DEFINE v == s[i]
  <2>1. v \in Revision /\ \A c : G(c)[i] = Contribution(v)[c]
    BY <1>1, <1>3
  <2> HIDE DEF v
  <2>2. /\ Contribution(v).executed = IF IsTerminal(v) THEN 1 ELSE 0
        /\ Contribution(v).executed = Contribution(v).simulated + Contribution(v).pending
                                         + Contribution(v).feedback
        /\ Contribution(v).contained <= Contribution(v).detected
        /\ Contribution(v).detected <= Contribution(v).feedback
    BY <2>1, ContributionIsCounted
  <2> QED
    BY <2>1, <2>2 DEF v
<1>5. /\ A.executed = Total(G("executed"), n) /\ A.simulated = Total(G("simulated"), n)
      /\ A.pending = Total(G("pending"), n) /\ A.feedback = Total(G("feedback"), n)
      /\ A.detected = Total(G("detected"), n) /\ A.contained = Total(G("contained"), n)
  BY <1>2 DEF Counters
<1> DEFINE g1 == G("executed")
           g2 == G("simulated")
           g3 == G("pending")
           g4 == G("feedback")
           g5 == G("detected")
           g6 == G("contained")
<1>6. /\ g1 \in [1..n -> Nat] /\ g2 \in [1..n -> Nat] /\ g3 \in [1..n -> Nat]
      /\ g4 \in [1..n -> Nat] /\ g5 \in [1..n -> Nat] /\ g6 \in [1..n -> Nat]
  BY <1>2 DEF Counters
<1>7. A.executed = Cardinality({i \in DOMAIN s : IsTerminal(s[i])})
  <2> DEFINE S == {i \in 1..n : IsTerminal(s[i])}
  <2>1. S \subseteq 1..n /\ \A i \in 1..n : g1[i] = IF i \in S THEN 1 ELSE 0
    BY <1>4
  <2> HIDE DEF S, g1
  <2>2. Total(g1, n) = Cardinality(S)
    BY <1>1, <1>6, <2>1, TotalOfOnes
  <2> QED
    BY <2>2, <1>1, <1>5 DEF S, g1
<1>8. A.executed = A.simulated + A.pending + A.feedback
  <2>1. \A i \in 1..n : g1[i] = g2[i] + g3[i] + g4[i]
    BY <1>4
  <2> HIDE DEF g1, g2, g3, g4
  <2>0. AddUp(g1, g2, g3, g4, n)
    BY <1>1, <1>6, <2>1 DEF AddUp
  <2>2. Total(g1, n) = Total(g2, n) + Total(g3, n) + Total(g4, n)
    BY <2>0, TotalOfThree
  <2> QED
    BY <2>2, <1>5 DEF g1, g2, g3, g4
<1>9. A.contained <= A.detected /\ A.detected <= A.feedback
  <2>1. (\A i \in 1..n : g6[i] <= g5[i]) /\ \A i \in 1..n : g5[i] <= g4[i]
    BY <1>4
  <2> HIDE DEF g4, g5, g6
  <2>2. Total(g6, n) <= Total(g5, n) /\ Total(g5, n) <= Total(g4, n)
    BY <1>1, <1>6, <2>1, TotalOfLess
  <2> QED
    BY <2>2, <1>5 DEF g4, g5, g6
<1> QED
  BY <1>7, <1>8, <1>9 DEF A

-----------------------------------------------------------------------------
(* The inductive invariant *)

\* A process that does not serve does nothing; before it is up it recovers.
RestInv ==
    /\ ~Serving => writer = Idle
    /\ process # "up" =>
          /\ \A r \in Runs : task[r] \in {"none", "ended"}
          /\ \A o \in Operators : request[o] = NoRequest

Publishing(r) == writer # Idle /\ writer.pc = "publish" /\ writer.revision.run = r

\* What the writer has in hand follows from the record that it found, which
\* nobody else changes: v is the revision, by is who writes it.
Follows(v, by) ==
    /\ v.signer = key
    /\ \/ /\ by = "admission" /\ process = "up" /\ task[v.run] = "none" /\ ~Recorded(v.run)
          /\ v.status = "QUEUED" /\ v.feedback = NoFeedback
       \/ /\ by = "end" /\ process = "up" /\ task[v.run] = "running"
          /\ Recorded(v.run) /\ ~IsTerminal(Get(v.run))
          /\ v.status = "COMPLETED" /\ v.mode \in {Get(v.run).mode, "simulated"}
          /\ v.feedback = Get(v.run).feedback
       \/ /\ by = "recovery" /\ process = "recovering"
          /\ Recorded(v.run) /\ ~IsTerminal(Get(v.run))
          /\ v.status = "INTERRUPTED" /\ v.mode = Get(v.run).mode
          /\ v.feedback = Get(v.run).feedback
       \/ /\ by \in Operators /\ process = "up"
          /\ Recorded(v.run) /\ IsTerminal(Get(v.run))
          /\ v.status = Get(v.run).status /\ v.mode = Get(v.run).mode
          /\ v.feedback \in Feedbacks

WriterInv ==
    writer # Idle =>
        /\ Follows(writer.revision, writer.by)
        /\ writer.pc = "publish" =>
              /\ Len(file) > 0 /\ file[Len(file)] = writer.revision
              /\ Len(file) \notin leftover

\* A request is for a run that has ended.
RequestInv ==
    \A o \in Operators :
        request[o] # NoRequest =>
            Recorded(request[o].run) /\ IsTerminal(Get(request[o].run))

\* The entry of run r in the log that a file is.
Entry(v) == [status |-> v.status, mode |-> v.mode, feedback |-> v.feedback]
LogEntry(s, r) == IF Has(s, DOMAIN s, r) THEN Entry(Latest(s, DOMAIN s, r)) ELSE NoRecord

\* The file and the trail agree on run r, but for what is being published and
\* what a failed write left: a run whose admission failed, a run whose end was
\* not saved, and feedback.
Agrees(r) ==
    /\ Publishing(r) => LogEntry(file, r) = Entry(writer.revision)
    /\ ~Publishing(r) /\ ~Recorded(r) => LogEntry(file, r) = NoRecord \/ task[r] = "ended"
    /\ ~Publishing(r) /\ Recorded(r) /\ ~IsTerminal(Get(r)) =>
          LogEntry(file, r) = Entry(Get(r)) \/ task[r] = "unsaved"
    /\ ~Publishing(r) /\ Recorded(r) /\ IsTerminal(Get(r)) =>
          /\ LogEntry(file, r) # NoRecord
          /\ LogEntry(file, r).status = Get(r).status /\ LogEntry(file, r).mode = Get(r).mode

AgreeInv == Serving => \A r \in Runs : Agrees(r)

TrailInv == Distinct(trail) /\ TrailIsReplay /\ TrailIsTrusted /\ AggregateIsReplay

AuditInv ==
    TypeOK /\ TrailInv /\ RestInv /\ WriterInv /\ RequestInv /\ OpenIsExecuting /\ AgreeInv

-----------------------------------------------------------------------------
(* What the invariant says of the trail, and of a step that leaves it *)

\* The places of the trail are lines,
LEMMA DomainIsLines ==
    ASSUME NEW S, NEW s \in Seq(S)
    PROVE  Lines(DOMAIN s)
BY DEF Lines

\* and a run is recorded if it has one.
LEMMA RecordedHas ==
    ASSUME NEW r
    PROVE  /\ Recorded(r) <=> Has(trail, DOMAIN trail, r)
           /\ Recorded(r)' <=> Has(trail, DOMAIN trail, r)'
BY DEF Recorded, RunsOf, Has

\* get returns a revision of the run it was asked for.
LEMMA GetIsOwn ==
    ASSUME TypeOK, NEW r, Recorded(r)
    PROVE  Get(r) \in Revision /\ Get(r).run = r
<1>1. trail \in Seq(Revision)
  BY DEF TypeOK
<1>2. Lines(DOMAIN trail) /\ \A i \in DOMAIN trail : trail[i] \in Revision
  BY <1>1, DomainIsLines
<1>3. Has(trail, DOMAIN trail, r)
  BY RecordedHas
<1>4. Get(r).run = r /\ Get(r) \in {trail[i] : i \in DOMAIN trail}
  BY <1>2, <1>3, LatestOfRun DEF Get
<1> QED
  BY <1>2, <1>4

\* A file and a trail that stay as they are say the same of every run.
LEMMA SameTrail ==
    ASSUME trail' = trail, NEW r
    PROVE  (Recorded(r)' <=> Recorded(r)) /\ Get(r)' = Get(r)
BY DEF Recorded, RunsOf, Get, Latest

\* What a writer has, when there is one.
LEMMA WriterFacts ==
    ASSUME TypeOK
    PROVE  /\ Idle.pc = "idle"
           /\ writer # Idle =>
                 /\ writer.pc \in {"write", "publish"} /\ writer.revision \in Revision
                 /\ writer.by \in Operators \cup {"admission", "end", "recovery"}
           /\ writer.pc = "write" \/ writer.pc = "publish" => writer # Idle
BY DEF TypeOK, Writer, Idle

-----------------------------------------------------------------------------
(* The first state *)

\* An empty file, trail and aggregate agree.
LEMMA InitAudit ==
    ASSUME AuditInit
    PROVE  AuditInv
<1>1. /\ file = <<>> /\ readable = "yes" /\ leftover = {}
      /\ process = "down" /\ key \in Keys
      /\ trail = <<>> /\ aggregate = Nothing /\ writer = Idle
      /\ task = [r \in Runs |-> "none"]
      /\ request = [o \in Operators |-> NoRequest]
  BY DEF AuditInit
<1>2. Distinct(trail)
  BY <1>1 DEF Distinct
<1>3. TypeOK
  <2>1. trail \in Seq(Revision) /\ file \in Seq(Revision) /\ Len(trail) = 0
    BY <1>1
  <2>2. Cardinality(RunsOf(trail)) = Len(trail)
    BY <2>1, <1>2, DistinctCounts
  <2>3. aggregate \in [Counters -> Nat]
    BY <1>1 DEF Nothing
  <2> QED
    BY <1>1, <2>1, <2>2, <2>3 DEF TypeOK
<1>4. ~Serving
  BY <1>1 DEF Serving
<1> QED
  BY <1>1, <1>2, <1>3, <1>4
  DEF AuditInv, TrailInv, TrailIsReplay, TrailIsTrusted, AggregateIsReplay, RestInv, WriterInv,
      RequestInv, OpenIsExecuting, AgreeInv

-----------------------------------------------------------------------------
(* A commit begins *)

\* Whoever takes the writer lock changes nothing that is served.
LEMMA BeginAudit ==
    ASSUME AuditInv, NEW v \in Revision, NEW by \in Operators \cup {"admission", "end", "recovery"},
           Follows(v, by), Serving, Begin(v, by)
    PROVE  AuditInv'
<1>1. /\ writer = Idle /\ writer' = [pc |-> "write", revision |-> v, by |-> by]
      /\ UNCHANGED <<file, readable, leftover, process, key, trail, aggregate, task, request>>
  BY DEF Begin, diskVars
<1>2. TypeOK /\ TrailInv /\ RestInv /\ RequestInv /\ OpenIsExecuting /\ AgreeInv
  BY DEF AuditInv
<1>3. \A r : (Recorded(r)' <=> Recorded(r)) /\ Get(r)' = Get(r)
  BY <1>1, SameTrail
<1>4. writer' \in Writer /\ writer' # Idle /\ writer'.pc = "write"
      /\ writer'.revision = v /\ writer'.by = by
  BY <1>1 DEF Writer, Idle
<1>5. TypeOK'
  BY <1>1, <1>2, <1>4 DEF TypeOK, RunsOf
<1>6. Serving'
  BY <1>1 DEF Serving
<1>7. TrailInv'
  BY <1>1, <1>2, <1>4
  DEF TrailInv, Distinct, TrailIsReplay, TrailIsTrusted, AggregateIsReplay, Serving
<1>8. RestInv'
  BY <1>1, <1>2, <1>6 DEF RestInv
<1>9. WriterInv'
  <2>1. Follows(v, by)'
    BY <1>1, <1>3 DEF Follows
  <2> QED
    BY <2>1, <1>4 DEF WriterInv
<1>10. RequestInv'
  BY <1>1, <1>2, <1>3 DEF RequestInv
<1>11. OpenIsExecuting'
  BY <1>1, <1>2, <1>3 DEF OpenIsExecuting, RunsOf
<1>12. AgreeInv'
  <2> SUFFICES ASSUME NEW r \in Runs PROVE Agrees(r)'
    BY DEF AgreeInv
  <2>1. Agrees(r) /\ ~Publishing(r) /\ ~Publishing(r)'
    BY <1>1, <1>2, <1>4 DEF AgreeInv, Publishing
  <2>2. LogEntry(file, r)' = LogEntry(file, r)
    BY <1>1
  <2> QED
    BY <2>1, <2>2, <1>1, <1>3 DEF Agrees
<1> QED
  BY <1>5, <1>7, <1>8, <1>9, <1>10, <1>11, <1>12 DEF AuditInv

\* admit() of a run begins a write,
LEMMA AdmitAudit ==
    ASSUME AuditInv, NEW r \in Runs, Admit(r)
    PROVE  AuditInv'
<1>1. PICK mode \in Modes :
         Begin([run |-> r, status |-> "QUEUED", mode |-> mode,
                feedback |-> NoFeedback, signer |-> key], "admission")
  BY DEF Admit
<1> DEFINE v == [run |-> r, status |-> "QUEUED", mode |-> mode,
                 feedback |-> NoFeedback, signer |-> key]
<1>2. v \in Revision
  BY DEF AuditInv, TypeOK, Revision
<1>3. Follows(v, "admission") /\ Serving
  BY DEF Admit, Follows, Serving
<1> HIDE DEF v
<1> QED
  BY <1>1, <1>2, <1>3, BeginAudit DEF v

\* and so does the record of its end,
LEMMA EndAudit ==
    ASSUME AuditInv, NEW r \in Runs, End(r)
    PROVE  AuditInv'
<1>1. PICK mode \in {Get(r).mode, "simulated"} :
         Begin([Get(r) EXCEPT !.status = "COMPLETED", !.mode = mode, !.signer = key], "end")
  BY DEF End
<1> DEFINE v == [Get(r) EXCEPT !.status = "COMPLETED", !.mode = mode, !.signer = key]
<1>2. Recorded(r) /\ ~IsTerminal(Get(r)) /\ process = "up" /\ task[r] = "running"
  BY DEF End, AuditInv, OpenIsExecuting
<1>3. Get(r) \in Revision /\ Get(r).run = r /\ key \in Keys
  BY <1>2, GetIsOwn DEF AuditInv, TypeOK
<1>4. v \in Revision /\ v.run = r /\ v.status = "COMPLETED" /\ v.mode = mode /\ v.signer = key
      /\ v.feedback = Get(r).feedback
  BY <1>3 DEF Revision, Statuses, Modes
<1> HIDE DEF v
<1>5. Follows(v, "end") /\ Serving
  BY <1>2, <1>4 DEF Follows, Serving
<1> QED
  BY <1>1, <1>4, <1>5, BeginAudit DEF v

\* the recovery of a run that an earlier process left open,
LEMMA RecoverAudit ==
    ASSUME AuditInv, NEW r \in Runs, Recover(r)
    PROVE  AuditInv'
<1> DEFINE v == [Get(r) EXCEPT !.status = "INTERRUPTED", !.signer = key]
<1>1. Begin(v, "recovery") /\ process = "recovering" /\ Recorded(r) /\ ~IsTerminal(Get(r))
  BY DEF Recover, Incomplete, Recorded
<1>2. Get(r) \in Revision /\ Get(r).run = r /\ key \in Keys
  BY <1>1, GetIsOwn DEF AuditInv, TypeOK
<1>3. v \in Revision /\ v.run = r /\ v.status = "INTERRUPTED" /\ v.mode = Get(r).mode
      /\ v.signer = key /\ v.feedback = Get(r).feedback
  BY <1>2 DEF Revision, Statuses, Modes
<1> HIDE DEF v
<1>4. Follows(v, "recovery") /\ Serving
  BY <1>1, <1>3 DEF Follows, Serving
<1> QED
  BY <1>1, <1>3, <1>4, BeginAudit

\* and feedback, which looks at the record again under the lock.
LEMMA WriteFeedbackAudit ==
    ASSUME AuditInv, NEW o \in Operators, WriteFeedback(o)
    PROVE  AuditInv'
<1> DEFINE r == request[o].run
           f == request[o].feedback
           v == [Get(r) EXCEPT !.feedback = f, !.signer = key]
<1>1. Begin(v, o) /\ process = "up" /\ request[o] # NoRequest
  BY DEF WriteFeedback
<1>2. Recorded(r) /\ IsTerminal(Get(r))
  BY <1>1 DEF AuditInv, RequestInv
<1>3. f \in Feedbacks /\ key \in Keys
  BY <1>1 DEF AuditInv, TypeOK
<1> HIDE DEF r, f
<1>4. Get(r) \in Revision /\ Get(r).run = r
  BY <1>2, GetIsOwn DEF AuditInv
<1>5. v \in Revision /\ v.run = r /\ v.status = Get(r).status /\ v.mode = Get(r).mode
      /\ v.signer = key /\ v.feedback = f
  BY <1>3, <1>4 DEF Revision
<1> HIDE DEF v
<1>6. Follows(v, o) /\ Serving
  BY <1>1, <1>2, <1>3, <1>5 DEF Follows, Serving
<1> QED
  BY <1>1, <1>5, <1>6, BeginAudit

-----------------------------------------------------------------------------
(* Steps that leave file and trail *)

\* The look before the lock writes nothing.
LEMMA CheckFeedbackAudit ==
    ASSUME AuditInv, NEW o \in Operators, NEW r \in Runs, CheckFeedback(o, r)
    PROVE  AuditInv'
<1>1. PICK f \in Feedbacks : request' = [request EXCEPT ![o] = [run |-> r, feedback |-> f]]
  BY DEF CheckFeedback
<1>2. /\ UNCHANGED <<file, readable, leftover, process, key, trail, aggregate, writer, task>>
      /\ process = "up" /\ Recorded(r) /\ IsTerminal(Get(r))
  BY DEF CheckFeedback, AcceptsFeedback, diskVars, storeVars
<1>3. TypeOK /\ TrailInv /\ RestInv /\ WriterInv /\ RequestInv /\ OpenIsExecuting /\ AgreeInv
  BY DEF AuditInv
<1>4. \A q : (Recorded(q)' <=> Recorded(q)) /\ Get(q)' = Get(q)
  BY <1>2, SameTrail
<1>5. TypeOK'
  BY <1>1, <1>2, <1>3 DEF TypeOK, RunsOf
<1>6. TrailInv'
  BY <1>2, <1>3 DEF TrailInv, Distinct, TrailIsReplay, TrailIsTrusted, AggregateIsReplay, Serving
<1>7. RestInv'
  BY <1>2, <1>3 DEF RestInv, Serving
<1>8. WriterInv'
  BY <1>2, <1>3, <1>4 DEF WriterInv, Follows
<1>9. RequestInv'
  <2>1. request \in [Operators -> [run : Runs, feedback : Feedbacks] \cup {NoRequest}]
    BY <1>3 DEF TypeOK
  <2> SUFFICES ASSUME NEW p \in Operators, request'[p] # NoRequest
               PROVE  Recorded(request'[p].run) /\ IsTerminal(Get(request'[p].run))
    BY <1>4 DEF RequestInv
  <2>2. CASE p = o
    BY <2>1, <2>2, <1>1, <1>2
  <2>3. CASE p # o
    BY <2>1, <2>3, <1>1, <1>3 DEF RequestInv
  <2> QED
    BY <2>2, <2>3
<1>10. OpenIsExecuting'
  BY <1>2, <1>3, <1>4 DEF OpenIsExecuting, RunsOf
<1>11. AgreeInv'
  BY <1>2, <1>3, <1>4 DEF AgreeInv, Agrees, Publishing, Serving
<1> QED
  BY <1>5, <1>6, <1>7, <1>8, <1>9, <1>10, <1>11 DEF AuditInv

\* Recovery ends when no record is open.
LEMMA RecoveredAudit ==
    ASSUME AuditInv, Recovered
    PROVE  AuditInv'
<1>1. /\ UNCHANGED <<file, readable, leftover, key, trail, aggregate, writer, task, request>>
      /\ process = "recovering" /\ writer = Idle /\ Incomplete = {} /\ process' = "up"
  BY DEF Recovered, diskVars, storeVars
<1>2. TypeOK /\ TrailInv /\ RestInv /\ WriterInv /\ RequestInv /\ AgreeInv
  BY DEF AuditInv
<1>3. \A q : (Recorded(q)' <=> Recorded(q)) /\ Get(q)' = Get(q)
  BY <1>1, SameTrail
<1>4. Serving /\ Serving'
  BY <1>1 DEF Serving
<1>5. TypeOK'
  BY <1>1, <1>2 DEF TypeOK, RunsOf
<1>6. TrailInv'
  BY <1>1, <1>2, <1>4 DEF TrailInv, Distinct, TrailIsReplay, TrailIsTrusted, AggregateIsReplay
<1>7. RestInv' /\ WriterInv'
  BY <1>1, <1>4 DEF RestInv, WriterInv
<1>8. RequestInv'
  BY <1>1, <1>2, <1>3 DEF RequestInv
<1>9. OpenIsExecuting'
  <2>1. \A r \in Runs : task[r] \in {"none", "ended"}
    BY <1>1, <1>2 DEF RestInv
  <2>2. \A r \in RunsOf(trail) : IsTerminal(Get(r))
    BY <1>1 DEF Incomplete
  <2> QED
    BY <2>1, <2>2, <1>1, <1>3 DEF OpenIsExecuting, RunsOf
<1>10. AgreeInv'
  BY <1>1, <1>2, <1>3, <1>4 DEF AgreeInv, Agrees, Publishing
<1> QED
  BY <1>5, <1>6, <1>7, <1>8, <1>9, <1>10 DEF AuditInv

-----------------------------------------------------------------------------
(* A line is written *)

\* A line more is a step of its own run in the log only.
LEMMA LogEntryWithNext ==
    ASSUME NEW s \in Seq(Revision), NEW v \in Revision, NEW r
    PROVE  LogEntry(Append(s, v), r) = IF v.run = r THEN Entry(v) ELSE LogEntry(s, r)
<1> DEFINE t == Append(s, v)
           L == DOMAIN s
           m == Len(s) + 1
<1>1. /\ IsNext(L, m) /\ m # 0 /\ Same(s, t, L) /\ t[m] = v
      /\ DOMAIN t = L \cup {m}
  BY DEF IsNext, Same
<1> HIDE DEF t, L, m
<1>2. /\ Has(t, L \cup {m}, r) <=> Has(s, L, r) \/ t[m].run = r
      /\ t[m].run = r => Latest(t, L \cup {m}, r) = t[m]
      /\ t[m].run # r /\ Has(s, L, r) => Latest(t, L \cup {m}, r) = Latest(s, L, r)
  BY <1>1, LatestWithNext
<1>3. LogEntry(t, r) = IF v.run = r THEN Entry(v) ELSE LogEntry(s, r)
  BY <1>1, <1>2 DEF LogEntry, L
<1> QED
  BY <1>3 DEF t

\* Earlier lines read as before.
LEMMA ReplayBeforeNext ==
    ASSUME NEW s \in Seq(Revision), NEW v \in Revision, NEW L, L \subseteq DOMAIN s
    PROVE  Replay(Append(s, v), L) = Replay(s, L)
<1> DEFINE t == Append(s, v)
<1>1. Lines(L) /\ Same(s, t, L)
  <2>1. Len(s) \in Nat /\ L \subseteq 1..Len(s)
    OBVIOUS
  <2>2. \A i \in 1..Len(s) : t[i] = s[i]
    OBVIOUS
  <2> QED
    BY <2>1, <2>2 DEF Lines, Same
<1> HIDE DEF t
<1>2. Replay(t, L) = Replay(s, L)
  BY <1>1, ReplayOfSame
<1> QED
  BY <1>2 DEF t

\* The lines that a state has answered for.
AnsweredLines ==
    LET written == IF writer # Idle /\ writer.pc = "publish" THEN Len(file) - 1 ELSE Len(file)
    IN  (1..written) \ leftover

\* The lines that were answered are lines of the file.
LEMMA AnsweredAreLines ==
    ASSUME TypeOK
    PROVE  AnsweredLines \subseteq DOMAIN file
<1>1. Len(file) \in Nat /\ DOMAIN file = 1..Len(file)
  BY DEF TypeOK
<1> QED
  BY <1>1 DEF AnsweredLines

\* A line is written: the file is ahead of the trail by that line until the
\* publication.
LEMMA WrittenAudit ==
    ASSUME AuditInv, Written
    PROVE  AuditInv'
<1> DEFINE v == writer.revision
<1>1. /\ writer.pc = "write" /\ writer' = [writer EXCEPT !.pc = "publish"]
      /\ file' = Append(file, v)
      /\ UNCHANGED <<readable, leftover, process, key, trail, aggregate, task, request>>
  BY DEF Written
<1>2. TypeOK /\ TrailInv /\ RestInv /\ WriterInv /\ RequestInv /\ OpenIsExecuting /\ AgreeInv
  BY DEF AuditInv
<1>3. \A q : (Recorded(q)' <=> Recorded(q)) /\ Get(q)' = Get(q)
  BY <1>1, SameTrail
<1>4. writer # Idle /\ writer \in Writer /\ v \in Revision
  BY <1>1, <1>2 DEF TypeOK, Idle, Writer
<1>5. writer' \in Writer /\ writer' # Idle /\ writer'.pc = "publish"
      /\ writer'.revision = v /\ writer'.by = writer.by
  BY <1>1, <1>4 DEF Writer, Idle
<1> HIDE DEF v
<1>6. /\ file \in Seq(Revision) /\ DOMAIN file = 1..Len(file) /\ Len(file) \in Nat
      /\ leftover \subseteq DOMAIN file
      /\ file' \in Seq(Revision) /\ Len(file') = Len(file) + 1 /\ DOMAIN file' = 1..Len(file')
      /\ file'[Len(file')] = v
  BY <1>1, <1>2, <1>4 DEF TypeOK
<1>7. leftover \subseteq DOMAIN file' /\ Len(file') \notin leftover /\ Len(file') > 0
      /\ Len(file') - 1 = Len(file)
  BY <1>6
<1>8. Serving /\ Serving'
  BY <1>1, <1>2, <1>4 DEF RestInv, Serving
<1>9. TypeOK'
  BY <1>1, <1>2, <1>5, <1>6, <1>7 DEF TypeOK, RunsOf
<1>10. TrailInv'
  <2>1. AnsweredLines' = AnsweredLines
    BY <1>1, <1>5, <1>7, WriterFacts DEF AnsweredLines
  <2>2. Replay(file', AnsweredLines) = Replay(file, AnsweredLines)
    BY <1>1, <1>2, <1>4, <1>6, AnsweredAreLines, ReplayBeforeNext
  <2>3. trail = Replay(file, AnsweredLines)
    BY <1>2, <1>8 DEF TrailInv, TrailIsReplay, AnsweredLines
  <2>4. trail' = Replay(file', AnsweredLines')
    BY <1>1, <2>1, <2>2, <2>3
  <2>5. TrailIsReplay'
    BY <2>4 DEF TrailIsReplay, AnsweredLines
  <2> QED
    BY <1>1, <1>2, <1>8, <2>5 DEF TrailInv, Distinct, TrailIsTrusted, AggregateIsReplay
<1>11. RestInv'
  BY <1>1, <1>2, <1>8 DEF RestInv
<1>12. WriterInv'
  <2>1. Follows(writer.revision, writer.by)
    BY <1>2, <1>4 DEF WriterInv
  <2>2. Follows(writer.revision, writer.by)'
    BY <2>1, <1>1, <1>3, <1>5 DEF Follows, v
  <2> QED
    BY <2>2, <1>1, <1>5, <1>6, <1>7 DEF WriterInv
<1>13. RequestInv'
  BY <1>1, <1>2, <1>3 DEF RequestInv
<1>14. OpenIsExecuting'
  BY <1>1, <1>2, <1>3 DEF OpenIsExecuting, RunsOf
<1>15. AgreeInv'
  <2> SUFFICES ASSUME NEW r \in Runs PROVE Agrees(r)'
    BY DEF AgreeInv
  <2>1. LogEntry(file, r)' = IF v.run = r THEN Entry(v) ELSE LogEntry(file, r)
    BY <1>1, <1>4, <1>6, LogEntryWithNext
  <2>2. Publishing(r)' <=> v.run = r
    BY <1>5 DEF Publishing
  <2>3. ~Publishing(r) /\ Agrees(r)
    BY <1>1, <1>2, <1>8 DEF AgreeInv, Publishing
  <2>4. CASE v.run = r
    BY <2>1, <2>2, <2>4, <1>5 DEF Agrees
  <2>5. CASE v.run # r
    BY <2>1, <2>2, <2>3, <2>5, <1>1, <1>3 DEF Agrees
  <2> QED
    BY <2>4, <2>5
<1> QED
  BY <1>9, <1>10, <1>11, <1>12, <1>13, <1>14, <1>15 DEF AuditInv

-----------------------------------------------------------------------------
(* A write fails *)

\* An entry is never taken for a missing record.
LEMMA EntryIsRecord ==
    ASSUME NEW v \in Revision
    PROVE  Entry(v) # NoRecord
<1>1. Entry(v) \in [status : Statuses \cup {"QUEUED"}, mode : Modes,
                    feedback : Feedbacks \cup {NoFeedback}]
  BY DEF Entry, Revision
<1> QED
  BY NamesAssumption, <1>1

\* Whatever is in the trail is a recorded run.
LEMMA RunsAreRuns ==
    ASSUME TypeOK, NEW r \in RunsOf(trail)
    PROVE  r \in Runs /\ Recorded(r)
<1>1. Recorded(r)
  BY DEF Recorded
<1>2. Get(r) \in Revision /\ Get(r).run = r
  BY <1>1, GetIsOwn
<1> QED
  BY <1>1, <1>2 DEF Revision

\* What the file is after a write that failed, or that a crash cut off.
LEMMA FileAfterFailure ==
    ASSUME TypeOK, writer.pc = "write", writer'.pc # "publish",
           \/ file' = file /\ leftover' = leftover
           \/ file' = Append(file, writer.revision) /\ leftover' = leftover \cup {Len(file) + 1}
    PROVE  /\ file' \in Seq(Revision) /\ leftover' \subseteq DOMAIN file'
           /\ Replay(file', AnsweredLines') = Replay(file, AnsweredLines)
           /\ \A r : \/ LogEntry(file, r)' = LogEntry(file, r)
                     \/ r = writer.revision.run /\ LogEntry(file, r)' = Entry(writer.revision)
<1> DEFINE v == writer.revision
<1>1. v \in Revision
  BY WriterFacts
<1>2. /\ file \in Seq(Revision) /\ DOMAIN file = 1..Len(file) /\ Len(file) \in Nat
      /\ leftover \subseteq DOMAIN file
  BY DEF TypeOK
<1>3. AnsweredLines = (1..Len(file)) \ leftover /\ AnsweredLines \subseteq DOMAIN file
  BY AnsweredAreLines DEF AnsweredLines
<1>4. CASE file' = file /\ leftover' = leftover
  <2>1. AnsweredLines' = AnsweredLines
    BY <1>3, <1>4 DEF AnsweredLines
  <2> QED
    BY <2>1, <1>2, <1>4
<1>5. CASE file' = Append(file, v) /\ leftover' = leftover \cup {Len(file) + 1}
  <2>1. /\ file' \in Seq(Revision) /\ Len(file') = Len(file) + 1
        /\ DOMAIN file' = 1..(Len(file) + 1)
    BY <1>1, <1>2, <1>5
  <2>2. AnsweredLines' = (1..(Len(file) + 1)) \ (leftover \cup {Len(file) + 1})
    BY <1>5, <2>1 DEF AnsweredLines
  <2>3. AnsweredLines' = AnsweredLines
    BY <2>2, <1>2, <1>3
  <2>4. leftover' \subseteq DOMAIN file'
    BY <2>1, <1>2, <1>5
  <2>5. Replay(file', AnsweredLines) = Replay(file, AnsweredLines)
    BY <1>1, <1>2, <1>3, <1>5, ReplayBeforeNext
  <2>6. \A r : LogEntry(file, r)' = IF v.run = r THEN Entry(v) ELSE LogEntry(file, r)
    BY <1>1, <1>2, <1>5, LogEntryWithNext
  <2> QED
    BY <2>1, <2>3, <2>4, <2>5, <2>6
<1> QED
  BY <1>4, <1>5

\* A write fails, with or without its rollback.
LEMMA WriteFailsAudit ==
    ASSUME AuditInv, WriteFails
    PROVE  AuditInv'
<1> DEFINE v == writer.revision
           by == writer.by
<1>1. /\ writer.pc = "write" /\ writer' = Idle /\ trail' = trail
      /\ UNCHANGED <<key, aggregate>>
      /\ request' = [o \in Operators |-> IF by = o THEN NoRequest ELSE request[o]]
      /\ process' = IF by = "recovery" THEN "down" ELSE process
  BY DEF WriteFails, AfterFailure
<1>2. /\ by = "admission" => task' = [task EXCEPT ![v.run] = "ended"]
      /\ by = "end" => task' = [task EXCEPT ![v.run] = "unsaved"]
      /\ by # "admission" /\ by # "end" => task' = task
  BY DEF WriteFails
<1>3. \/ file' = file /\ leftover' = leftover
      \/ file' = Append(file, v) /\ leftover' = leftover \cup {Len(file) + 1}
  BY DEF WriteFails, WholeLine, PieceOfLine, diskVars
<1>4. readable' \in {"yes", "no"}
  BY DEF WriteFails, WholeLine, PieceOfLine, diskVars, AuditInv, TypeOK
<1>5. TypeOK /\ TrailInv /\ RestInv /\ WriterInv /\ RequestInv /\ OpenIsExecuting /\ AgreeInv
  BY DEF AuditInv
<1>6. writer # Idle /\ v \in Revision /\ by \in Operators \cup {"admission", "end", "recovery"}
      /\ Serving
  BY <1>1, <1>5, WriterFacts DEF RestInv
<1>7. writer'.pc # "publish" /\ writer' = Idle
  BY <1>1, <1>5, WriterFacts
<1>8. /\ file' \in Seq(Revision) /\ leftover' \subseteq DOMAIN file'
      /\ Replay(file', AnsweredLines') = Replay(file, AnsweredLines)
      /\ \A r : \/ LogEntry(file, r)' = LogEntry(file, r)
                \/ r = v.run /\ LogEntry(file, r)' = Entry(v)
  BY <1>1, <1>3, <1>5, <1>7, FileAfterFailure
<1>9. \A q : (Recorded(q)' <=> Recorded(q)) /\ Get(q)' = Get(q)
  BY <1>1, SameTrail
<1>10. Follows(v, by)
  BY <1>5, <1>6 DEF WriterInv
<1>11. Entry(v) # NoRecord
  BY <1>6, EntryIsRecord
<1> HIDE DEF v, by
<1>12. v.run \in Runs
  BY <1>6 DEF Revision
<1>13. /\ \A r \in Runs : r # v.run => task'[r] = task[r]
       /\ by = "admission" => task'[v.run] = "ended"
       /\ by = "end" => task'[v.run] = "unsaved"
       /\ by # "admission" /\ by # "end" => task'[v.run] = task[v.run]
       /\ task' \in [Runs -> {"none", "running", "ended", "unsaved"}]
  BY <1>2, <1>5, <1>12 DEF TypeOK
<1>14. /\ by \in Operators => by # "admission" /\ by # "end" /\ by # "recovery"
       /\ by # "recovery" => process = "up" /\ process' = "up"
       /\ by = "recovery" => process = "recovering" /\ process' = "down"
  BY NamesAssumption, <1>1, <1>10 DEF Follows
<1>15. TypeOK'
  <2>1. request' \in [Operators -> [run : Runs, feedback : Feedbacks] \cup {NoRequest}]
    BY <1>1, <1>5 DEF TypeOK
  <2>2. process' \in {"down", "recovering", "up", "refused"}
    BY <1>14
  <2> QED
    BY <2>1, <2>2, <1>1, <1>4, <1>5, <1>8, <1>13 DEF TypeOK, RunsOf
<1>16. TrailInv'
  <2>1. trail = Replay(file, AnsweredLines)
    BY <1>5, <1>6 DEF TrailInv, TrailIsReplay, AnsweredLines
  <2>2. trail' = Replay(file', AnsweredLines')
    BY <2>1, <1>1, <1>8
  <2>3. TrailIsReplay'
    BY <2>2 DEF TrailIsReplay, AnsweredLines
  <2> QED
    BY <2>3, <1>1, <1>5, <1>6 DEF TrailInv, Distinct, TrailIsTrusted, AggregateIsReplay
<1>17. RestInv'
  <2>1. ASSUME process' # "up"
        PROVE  /\ \A r \in Runs : task'[r] \in {"none", "ended"}
               /\ \A o \in Operators : request'[o] = NoRequest
    BY <2>1, <1>1, <1>5, <1>13, <1>14 DEF RestInv
  <2> QED
    BY <2>1, <1>1 DEF RestInv
<1>18. WriterInv'
  BY <1>1 DEF WriterInv
<1>19. RequestInv'
  BY <1>1, <1>5, <1>9 DEF RequestInv
<1>20. OpenIsExecuting'
  <2> SUFFICES ASSUME process' = "up"
               PROVE  /\ \A r \in Runs : task'[r] = "running" => Recorded(r) /\ ~IsTerminal(Get(r))
                      /\ \A r \in RunsOf(trail) :
                            IsTerminal(Get(r)) \/ task'[r] \in {"running", "unsaved"}
    BY <1>1, <1>9 DEF OpenIsExecuting, RunsOf
  <2>1. by # "recovery" /\ process = "up"
    BY <1>14
  <2>2. \A r \in Runs : task[r] = "running" => Recorded(r) /\ ~IsTerminal(Get(r))
    BY <2>1, <1>5 DEF OpenIsExecuting
  <2>3. \A r \in RunsOf(trail) : IsTerminal(Get(r)) \/ task[r] \in {"running", "unsaved"}
    BY <2>1, <1>5 DEF OpenIsExecuting
  <2>4. \A r \in RunsOf(trail) : r \in Runs /\ Recorded(r)
    BY <1>5, RunsAreRuns
  <2>5. CASE by = "admission"
    <3>1. ~Recorded(v.run)
      BY <2>5, <1>10, <1>14 DEF Follows
    <3> QED
      BY <3>1, <2>2, <2>3, <2>4, <2>5, <1>13
  <2>6. CASE by = "end"
    BY <2>2, <2>3, <2>4, <2>6, <1>13
  <2>7. CASE by # "admission" /\ by # "end"
    BY <2>2, <2>3, <2>4, <2>7, <1>2
  <2> QED
    BY <2>5, <2>6, <2>7
<1>21. AgreeInv'
  <2> SUFFICES ASSUME Serving', NEW r \in Runs PROVE Agrees(r)'
    BY DEF AgreeInv
  <2>1. by # "recovery"
    BY <1>14 DEF Serving
  <2>2. ~Publishing(r) /\ ~Publishing(r)' /\ Agrees(r)
    BY <1>1, <1>5, <1>6 DEF AgreeInv, Publishing
  <2>3. CASE r # v.run
    <3>1. LogEntry(file, r)' = LogEntry(file, r) /\ task'[r] = task[r]
      BY <2>3, <1>8, <1>13
    <3> QED
      BY <3>1, <2>2, <1>9 DEF Agrees
  <2>4. CASE r = v.run
    <3>1. CASE by = "admission"
      BY <3>1, <2>2, <2>4, <1>9, <1>10, <1>13, <1>14 DEF Agrees, Follows
    <3>2. CASE by = "end"
      BY <3>2, <2>2, <2>4, <1>9, <1>10, <1>13, <1>14 DEF Agrees, Follows
    <3>3. CASE by \in Operators
      <4>1. Recorded(r) /\ IsTerminal(Get(r)) /\ v.status = Get(r).status /\ v.mode = Get(r).mode
        BY <3>3, <2>4, <1>10, <1>14 DEF Follows
      <4>2. /\ LogEntry(file, r) # NoRecord
            /\ LogEntry(file, r).status = Get(r).status /\ LogEntry(file, r).mode = Get(r).mode
        BY <4>1, <2>2 DEF Agrees
      <4>3. Entry(v).status = v.status /\ Entry(v).mode = v.mode
        BY DEF Entry
      <4>4. /\ LogEntry(file, r)' # NoRecord
            /\ LogEntry(file, r)'.status = Get(r).status /\ LogEntry(file, r)'.mode = Get(r).mode
        BY <4>1, <4>2, <4>3, <1>8, <1>11
      <4> QED
        BY <4>1, <4>4, <2>2, <1>9 DEF Agrees
    <3> QED
      BY <3>1, <3>2, <3>3, <2>1, <1>6
  <2> QED
    BY <2>3, <2>4
<1> QED
  BY <1>15, <1>16, <1>17, <1>18, <1>19, <1>20, <1>21 DEF AuditInv

-----------------------------------------------------------------------------
(* A line is published *)

\* The trail and the aggregate of a publication.
LEMMA PublishTrail ==
    ASSUME TypeOK, Distinct(trail), aggregate = FromRecords(trail), NEW v \in Revision,
           trail' = Published(v), aggregate' = Counted(v)
    PROVE  /\ trail' = Put(trail, v)
           /\ trail' \in Seq(Revision) /\ Distinct(trail') /\ Cardinality(RunsOf(trail')) = Len(trail')
           /\ aggregate' = FromRecords(trail') /\ aggregate' \in [Counters -> Nat]
           /\ \A r : Recorded(r)' <=> Recorded(r) \/ r = v.run
           /\ Get(v.run)' = v
           /\ \A r : r # v.run /\ Recorded(r) => Get(r)' = Get(r)
<1>1. trail \in Seq(Revision)
  BY DEF TypeOK
<1>2. \A r : /\ Recorded(r) <=> Has(trail, DOMAIN trail, r)
             /\ Recorded(r)' <=> Has(trail', DOMAIN trail', r)
  BY DEF Recorded, RunsOf, Has
<1>3. Published(v) = Put(trail, v)
  BY <1>2 DEF Published, Put
<1>4. Counted(v) = PutCounted(trail, v)
  BY <1>2 DEF Counted, PutCounted, Get
<1> DEFINE p == Put(trail, v)
<1>5. /\ p \in Seq(Revision) /\ Distinct(p)
      /\ Latest(p, DOMAIN p, v.run) = v
  BY <1>1, PutKeeps
<1>6. \A r : Has(p, DOMAIN p, r) <=> Has(trail, DOMAIN trail, r) \/ r = v.run
  BY <1>1, PutKeeps
<1>7. \A r : r # v.run /\ Has(trail, DOMAIN trail, r) =>
                 Latest(p, DOMAIN p, r) = Latest(trail, DOMAIN trail, r)
  BY <1>1, PutKeeps
<1>8. FromRecords(p) = PutCounted(trail, v)
  BY <1>1, PutIsCounted
<1> HIDE DEF p
<1>9. trail' = p
  BY <1>3 DEF p
<1>10. Cardinality(RunsOf(p)) = Len(p) /\ FromRecords(p) \in [Counters -> Nat]
  BY <1>5, DistinctCounts, FromRecordsIsCounted
<1>11. \A r : Get(r)' = Latest(p, DOMAIN p, r)
  BY <1>9 DEF Get
<1>12. aggregate' = FromRecords(p)
  BY <1>4, <1>8
<1>a. trail' = Put(trail, v)
  BY <1>3
<1>b. /\ trail' \in Seq(Revision) /\ Distinct(trail') /\ Cardinality(RunsOf(trail')) = Len(trail')
  BY <1>5, <1>9, <1>10
<1>c. aggregate' = FromRecords(trail') /\ aggregate' \in [Counters -> Nat]
  BY <1>9, <1>10, <1>12
<1>d. \A r : Recorded(r)' <=> Recorded(r) \/ r = v.run
  BY <1>2, <1>6, <1>9
<1>e. Get(v.run)' = v
  BY <1>5, <1>11
<1>f. \A r : r # v.run /\ Recorded(r) => Get(r)' = Get(r)
  BY <1>2, <1>7, <1>11 DEF Get
<1> QED
  BY <1>a, <1>b, <1>c, <1>d, <1>e, <1>f

\* Nothing but what one key signed is put to what it signed.
LEMMA PutIsTrusted ==
    ASSUME NEW k, NEW s \in Seq(Revision), Distinct(s), Trusted(s, k),
           NEW v \in Revision, v.signer = k
    PROVE  Trusted(Put(s, v), k)
<1> DEFINE S == {w \in Revision : w.signer = k}
           p == Put(s, v)
<1>1. v \in S
  OBVIOUS
<1>2. s \in Seq(S)
  <2>1. s \in [1..Len(s) -> S] /\ Len(s) \in Nat
    BY DEF Trusted
  <2> HIDE DEF S
  <2> QED
    BY <2>1, SeqDef
<1> HIDE DEF S
<1>3. p \in Seq(S)
  BY <1>1, <1>2, PutKeeps
<1> HIDE DEF p
<1>4. \A i \in DOMAIN p : p[i] \in S
  BY <1>3
<1> QED
  BY <1>4 DEF Trusted, S, p

\* The publication brings trail and aggregate up to the file.
LEMMA PublishAudit ==
    ASSUME AuditInv, Publish
    PROVE  AuditInv'
<1> SUFFICES ASSUME NEW v, v = writer.revision, NEW by, by = writer.by
             PROVE  AuditInv'
  OBVIOUS
<1>1. /\ writer.pc = "publish" /\ writer' = Idle
      /\ trail' = Published(v) /\ aggregate' = Counted(v)
      /\ request' = [o \in Operators |-> IF by = o THEN NoRequest ELSE request[o]]
      /\ UNCHANGED <<file, readable, leftover, process, key>>
  BY DEF Publish, diskVars
<1>2. /\ by = "admission" => task' = [task EXCEPT ![v.run] = "running"]
      /\ by = "end" => task' = [task EXCEPT ![v.run] = "ended"]
      /\ by # "admission" /\ by # "end" => task' = task
  BY DEF Publish
<1>3. TypeOK /\ TrailInv /\ RestInv /\ WriterInv /\ RequestInv /\ OpenIsExecuting /\ AgreeInv
  BY DEF AuditInv
<1>4. writer # Idle /\ v \in Revision /\ by \in Operators \cup {"admission", "end", "recovery"}
      /\ Serving
  BY <1>1, <1>3, WriterFacts DEF RestInv
<1>5. /\ Follows(v, by)
      /\ Len(file) > 0 /\ file[Len(file)] = v /\ Len(file) \notin leftover
  BY <1>1, <1>3, <1>4 DEF WriterInv
<1>6. Distinct(trail) /\ aggregate = FromRecords(trail)
  BY <1>3, <1>4 DEF TrailInv, AggregateIsReplay
<1>7. Entry(v) # NoRecord
  BY <1>4, EntryIsRecord
<1>8. \A r : Publishing(r) <=> r = v.run
  BY <1>1, <1>4 DEF Publishing
<1>9. /\ trail' = Put(trail, v)
      /\ trail' \in Seq(Revision) /\ Distinct(trail') /\ Cardinality(RunsOf(trail')) = Len(trail')
      /\ aggregate' = FromRecords(trail') /\ aggregate' \in [Counters -> Nat]
      /\ \A r : Recorded(r)' <=> Recorded(r) \/ r = v.run
      /\ Get(v.run)' = v
      /\ \A r : r # v.run /\ Recorded(r) => Get(r)' = Get(r)
  BY <1>1, <1>3, <1>4, <1>6, PublishTrail
<1>10. v.run \in Runs
  BY <1>4 DEF Revision
<1>11. /\ \A r \in Runs : r # v.run => task'[r] = task[r]
       /\ by = "admission" => task'[v.run] = "running"
       /\ by = "end" => task'[v.run] = "ended"
       /\ by # "admission" /\ by # "end" => task'[v.run] = task[v.run]
       /\ task' \in [Runs -> {"none", "running", "ended", "unsaved"}]
  BY <1>2, <1>3, <1>10 DEF TypeOK
<1>12. Serving'
  BY <1>1, <1>4 DEF Serving
<1>13. TypeOK'
  <2>1. request' \in [Operators -> [run : Runs, feedback : Feedbacks] \cup {NoRequest}]
    BY <1>1, <1>3 DEF TypeOK
  <2> QED
    BY <2>1, <1>1, <1>3, <1>9, <1>11 DEF TypeOK
<1>14. TrailInv'
  <2> DEFINE L == AnsweredLines
             m == Len(file)
  <2>1. m \in Nat /\ DOMAIN file = 1..m /\ m > 0
    BY <1>3, <1>5 DEF TypeOK
  <2>2. L = (1..(m - 1)) \ leftover
    BY <1>1, <1>4 DEF AnsweredLines
  <2>3. AnsweredLines' = (1..m) \ leftover
    BY <1>1, <1>3 DEF AnsweredLines
  <2>4. AnsweredLines' = L \cup {m}
    BY <2>1, <2>2, <2>3, <1>5
  <2>5. IsNext(L, m) /\ m # 0 /\ Same(file, file, L)
    BY <2>1, <2>2 DEF IsNext, Same
  <2> HIDE DEF L, m
  <2>6. Replay(file, L \cup {m}) = Put(Replay(file, L), file[m])
    BY <2>5, ReplayWithNext
  <2>7. trail = Replay(file, L)
    BY <1>3, <1>4 DEF TrailInv, TrailIsReplay, AnsweredLines, L
  <2>8. trail' = Replay(file', AnsweredLines')
    BY <2>4, <2>6, <2>7, <1>1, <1>5, <1>9 DEF m
  <2>9. TrailIsReplay'
    BY <2>8 DEF TrailIsReplay, AnsweredLines
  <2>10. Trusted(trail', key)
    <3>1. Trusted(trail, key) /\ v.signer = key /\ trail \in Seq(Revision)
      BY <1>3, <1>4, <1>5 DEF TrailInv, TrailIsTrusted, Trusted, Follows, TypeOK
    <3> QED
      BY <3>1, <1>4, <1>6, <1>9, PutIsTrusted
  <2>11. TrailIsTrusted'
    BY <2>10, <1>1 DEF TrailIsTrusted, Trusted
  <2> QED
    BY <2>9, <2>11, <1>9 DEF TrailInv, AggregateIsReplay
<1>15. RestInv'
  <2>1. ASSUME process' # "up"
        PROVE  /\ \A r \in Runs : task'[r] \in {"none", "ended"}
               /\ \A o \in Operators : request'[o] = NoRequest
    <3>1. process # "up" /\ by = "recovery"
      BY <2>1, <1>1, <1>5 DEF Follows
    <3> QED
      BY <3>1, <1>1, <1>2, <1>3 DEF RestInv
  <2> QED
    BY <2>1, <1>1 DEF RestInv
<1>16. WriterInv'
  BY <1>1 DEF WriterInv
<1>17. RequestInv'
  <2> SUFFICES ASSUME NEW o \in Operators, request'[o] # NoRequest
               PROVE  Recorded(request[o].run)' /\ IsTerminal(Get(request[o].run))'
    BY DEF RequestInv
  <2>1. request'[o] = request[o]
    BY <1>1
  <2>2. PICK q : q = request[o].run /\ Recorded(q) /\ IsTerminal(Get(q))
    BY <2>1, <1>3 DEF RequestInv
  <2>3. q = v.run => IsTerminal(v)
    BY <2>2, <1>5 DEF Follows, IsTerminal
  <2>4. Recorded(q)' /\ IsTerminal(Get(q))'
    <3>1. CASE q = v.run
      BY <3>1, <2>2, <2>3, <1>9 DEF IsTerminal
    <3>2. CASE q # v.run
      BY <3>2, <2>2, <1>9 DEF IsTerminal
    <3> QED
      BY <3>1, <3>2
  <2> QED
    BY <2>1, <2>2, <2>4
<1>18. OpenIsExecuting'
  <2> SUFFICES ASSUME process' = "up"
               PROVE  /\ \A r \in Runs : task'[r] = "running" => Recorded(r)' /\ ~IsTerminal(Get(r)')
                      /\ \A r \in RunsOf(trail') :
                            IsTerminal(Get(r)') \/ task'[r] \in {"running", "unsaved"}
    BY DEF OpenIsExecuting
  <2>1. process = "up" /\ by # "recovery"
    BY NamesAssumption, <1>1, <1>5 DEF Follows
  <2>2. \A r \in Runs : task[r] = "running" => Recorded(r) /\ ~IsTerminal(Get(r))
    BY <2>1, <1>3 DEF OpenIsExecuting
  <2>3. \A r : Recorded(r) => IsTerminal(Get(r)) \/ task[r] \in {"running", "unsaved"}
    BY <2>1, <1>3 DEF OpenIsExecuting, Recorded
  <2>4. \A r : Recorded(r) => r \in Runs
    BY <1>3, RunsAreRuns DEF Recorded
  <2>5. \A r \in RunsOf(trail') : Recorded(r)'
    BY DEF Recorded
  <2>6. ASSUME NEW r, r # v.run, Recorded(r)
        PROVE  Get(r)' = Get(r) /\ task'[r] = task[r]
    BY <2>4, <2>6, <1>9, <1>11
  <2>7. CASE by = "admission"
    <3>1. v.status = "QUEUED" /\ task'[v.run] = "running"
      BY NamesAssumption, <2>7, <1>5, <1>11 DEF Follows
    <3> QED
      BY <3>1, <2>2, <2>3, <2>5, <2>6, <1>9, <1>11 DEF IsTerminal
  <2>8. CASE by = "end"
    <3>1. v.status = "COMPLETED" /\ task'[v.run] = "ended"
      BY NamesAssumption, <2>8, <1>5, <1>11 DEF Follows
    <3> QED
      BY <3>1, <2>2, <2>3, <2>5, <2>6, <1>9, <1>11 DEF IsTerminal
  <2>9. CASE by \in Operators
    <3>1. IsTerminal(Get(v.run)) /\ IsTerminal(v) /\ task'[v.run] = task[v.run]
      BY NamesAssumption, <2>9, <1>5, <1>11 DEF Follows, IsTerminal
    <3>2. task[v.run] # "running"
      BY <3>1, <2>2, <1>10
    <3> QED
      BY <3>1, <3>2, <2>2, <2>3, <2>5, <2>6, <1>9, <1>11
  <2> QED
    BY <2>1, <2>7, <2>8, <2>9, <1>4
<1>19. AgreeInv'
  <2> SUFFICES ASSUME NEW r \in Runs PROVE Agrees(r)'
    BY DEF AgreeInv
  <2>1. ~Publishing(r)' /\ Agrees(r) /\ LogEntry(file, r)' = LogEntry(file, r)
    BY <1>1, <1>3, <1>4 DEF AgreeInv, Publishing
  <2>2. CASE r = v.run
    <3>1. LogEntry(file, r) = Entry(v)
      BY <2>1, <2>2, <1>8 DEF Agrees
    <3>2. Recorded(r)' /\ Get(r)' = v
      BY <2>2, <1>9
    <3>3. Entry(v).status = v.status /\ Entry(v).mode = v.mode
      BY DEF Entry
    <3> QED
      BY <3>1, <3>2, <3>3, <2>1, <1>7 DEF Agrees
  <2>3. CASE r # v.run
    <3>1. ~Publishing(r) /\ (Recorded(r)' <=> Recorded(r)) /\ task'[r] = task[r]
          /\ (Recorded(r) => Get(r)' = Get(r))
      BY <2>3, <1>8, <1>9, <1>11
    <3> QED
      BY <3>1, <2>1 DEF Agrees
  <2> QED
    BY <2>2, <2>3
<1> QED
  BY <1>13, <1>14, <1>15, <1>16, <1>17, <1>18, <1>19 DEF AuditInv

-----------------------------------------------------------------------------
(* Restarts *)

\* A crash leaves a file that a restart can replay, or refuses.
LEMMA CrashAudit ==
    ASSUME AuditInv, Crash
    PROVE  AuditInv'
<1>1. /\ process' = "down" /\ trail' = <<>> /\ aggregate' = Nothing /\ writer' = Idle
      /\ task' = [r \in Runs |-> IF task[r] = "none" THEN "none" ELSE "ended"]
      /\ request' = [o \in Operators |-> NoRequest]
      /\ leftover' = leftover /\ key' = key
  BY DEF Crash
<1>2. file' = file \/ (writer.pc = "write" /\ file' = Append(file, writer.revision))
  BY DEF Crash, WholeLine, PieceOfLine
<1>3. readable' \in {"yes", "no"}
  BY DEF Crash, WholeLine, PieceOfLine, AuditInv, TypeOK
<1>4. TypeOK
  BY DEF AuditInv
<1>5. file' \in Seq(Revision) /\ leftover' \subseteq DOMAIN file'
  <2>1. CASE file' = file
    BY <2>1, <1>1, <1>4 DEF TypeOK
  <2>2. CASE writer.pc = "write" /\ file' = Append(file, writer.revision)
    <3>1. file \in Seq(Revision) /\ DOMAIN file = 1..Len(file) /\ leftover \subseteq DOMAIN file
          /\ writer.revision \in Revision
      BY <2>2, <1>4, WriterFacts DEF TypeOK
    <3>2. file' \in Seq(Revision) /\ DOMAIN file' = 1..(Len(file) + 1)
      BY <2>2, <3>1
    <3>3. DOMAIN file \subseteq DOMAIN file'
      BY <3>1, <3>2
    <3> QED
      BY <1>1, <3>1, <3>2, <3>3
  <2> QED
    BY <1>2, <2>1, <2>2
<1>6. Distinct(trail')
  BY <1>1 DEF Distinct
<1>7. trail' \in Seq(Revision) /\ Cardinality(RunsOf(trail')) = Len(trail')
  <2>1. trail' \in Seq(Revision)
    BY <1>1
  <2> QED
    BY <2>1, <1>6, DistinctCounts
<1>8. TypeOK'
  <2>1. aggregate' \in [Counters -> Nat]
    BY <1>1 DEF Nothing
  <2> QED
    BY <2>1, <1>1, <1>3, <1>4, <1>5, <1>7 DEF TypeOK
<1>9. ~Serving' /\ process' # "up"
  BY <1>1 DEF Serving
<1>10. RestInv'
  BY <1>1 DEF RestInv
<1>11. RequestInv'
  BY <1>1 DEF RequestInv
<1>12. TrailInv' /\ WriterInv' /\ OpenIsExecuting' /\ AgreeInv'
  BY <1>1, <1>6, <1>9
  DEF TrailInv, TrailIsReplay, TrailIsTrusted, AggregateIsReplay, WriterInv, OpenIsExecuting, AgreeInv
<1> QED
  BY <1>8, <1>10, <1>11, <1>12 DEF AuditInv

\* What startup makes of a file that can be read.
LEMMA StartTrail ==
    ASSUME TypeOK, trail' = Replay(file, DOMAIN file)
    PROVE  /\ trail' \in Seq(Revision) /\ Distinct(trail')
           /\ \A r : /\ Recorded(r)' <=> Has(file, DOMAIN file, r)
                     /\ Has(file, DOMAIN file, r) => Get(r)' = Latest(file, DOMAIN file, r)
<1> DEFINE p == Replay(file, DOMAIN file)
<1>1. file \in Seq(Revision) /\ Lines(DOMAIN file)
  BY DomainIsLines DEF TypeOK
<1>2. p \in Seq({file[i] : i \in DOMAIN file}) /\ Distinct(p)
  BY <1>1, ReplayHas
<1>3. \A r : /\ Has(p, DOMAIN p, r) <=> Has(file, DOMAIN file, r)
             /\ Has(file, DOMAIN file, r) => Latest(p, DOMAIN p, r) = Latest(file, DOMAIN file, r)
  <2> SUFFICES ASSUME NEW r
               PROVE  /\ Has(p, DOMAIN p, r) <=> Has(file, DOMAIN file, r)
                      /\ Has(file, DOMAIN file, r) =>
                            Latest(p, DOMAIN p, r) = Latest(file, DOMAIN file, r)
    OBVIOUS
  <2> QED
    BY <1>1, ReplayGives
<1> DEFINE A == {file[i] : i \in DOMAIN file}
<1>4. A \subseteq Revision
  BY <1>1
<1> HIDE DEF p, A
<1>5. p \in Seq(Revision)
  <2>1. p \in [1..Len(p) -> A] /\ Len(p) \in Nat
    BY <1>2 DEF A
  <2>2. p \in [1..Len(p) -> Revision]
    BY <2>1, <1>4
  <2> QED
    BY <2>1, <2>2, SeqDef
<1>6. trail' = p
  BY DEF p
<1>7. \A r : (Recorded(r)' <=> Has(p, DOMAIN p, r)) /\ Get(r)' = Latest(p, DOMAIN p, r)
  BY <1>6 DEF Recorded, RunsOf, Has, Get
<1> QED
  BY <1>2, <1>3, <1>5, <1>6, <1>7

\* The typing of get after a step.
LEMMA GetIsRevision ==
    ASSUME TypeOK', NEW r, Recorded(r)'
    PROVE  Get(r)' \in Revision
<1>1. trail' \in Seq(Revision)
  BY DEF TypeOK
<1>2. Lines(DOMAIN trail') /\ \A i \in DOMAIN trail' : trail'[i] \in Revision
  BY <1>1, DomainIsLines
<1>3. Has(trail', DOMAIN trail', r)
  BY DEF Recorded, RunsOf, Has
<1>4. Latest(trail', DOMAIN trail', r) \in {trail'[i] : i \in DOMAIN trail'}
  BY <1>2, <1>3, LatestOfRun
<1> QED
  BY <1>2, <1>4 DEF Get

\* The start replays the file and counts its records.
LEMMA StartAudit ==
    ASSUME AuditInv, Start
    PROVE  AuditInv'
<1>1. /\ process \in {"down", "refused"}
      /\ UNCHANGED <<file, readable, writer, task, request>>
  BY DEF Start
<1>2. TypeOK /\ TrailInv /\ RestInv /\ RequestInv
  BY DEF AuditInv
<1>3. key' \in Keys
  BY <1>2 DEF Start, TypeOK
<1>4. writer = Idle /\ (\A r \in Runs : task[r] \in {"none", "ended"})
      /\ \A o \in Operators : request[o] = NoRequest
  BY <1>1, <1>2 DEF RestInv, Serving
<1>5. RequestInv'
  BY <1>1, <1>4 DEF RequestInv
<1>6. WriterInv'
  BY <1>1, <1>4 DEF WriterInv
<1>7. CASE /\ process' = "recovering" /\ trail' = Replay(file, DOMAIN file)
           /\ Trusted(Replay(file, DOMAIN file), key')
           /\ aggregate' = FromRecords(trail') /\ leftover' = {}
  <2>1. /\ trail' \in Seq(Revision) /\ Distinct(trail')
        /\ \A r : /\ Recorded(r)' <=> Has(file, DOMAIN file, r)
                  /\ Has(file, DOMAIN file, r) => Get(r)' = Latest(file, DOMAIN file, r)
    BY <1>2, <1>7, StartTrail
  <2>2. Cardinality(RunsOf(trail')) = Len(trail') /\ FromRecords(trail') \in [Counters -> Nat]
    BY <2>1, DistinctCounts, FromRecordsIsCounted
  <2>3. TypeOK'
    BY <2>1, <2>2, <1>1, <1>2, <1>3, <1>7 DEF TypeOK
  <2>4. TrailInv'
    <3>1. AnsweredLines' = DOMAIN file
      BY <1>1, <1>2, <1>4, <1>7 DEF AnsweredLines, TypeOK
    <3>2. TrailIsReplay'
      BY <3>1, <1>1, <1>7 DEF TrailIsReplay, AnsweredLines
    <3>3. TrailIsTrusted'
      BY <1>7 DEF TrailIsTrusted, Trusted
    <3> QED
      BY <3>2, <3>3, <2>1, <1>7 DEF TrailInv, AggregateIsReplay
  <2>5. RestInv' /\ OpenIsExecuting'
    BY <1>1, <1>4, <1>7 DEF RestInv, OpenIsExecuting
  <2>6. AgreeInv'
    <3> SUFFICES ASSUME NEW r \in Runs PROVE Agrees(r)'
      BY DEF AgreeInv
    <3>1. ~Publishing(r)' /\ LogEntry(file, r)' = LogEntry(file, r)
      BY <1>1, <1>4 DEF Publishing
    <3>2. CASE ~Has(file, DOMAIN file, r)
      BY <3>1, <3>2, <2>1 DEF Agrees, LogEntry
    <3>3. CASE Has(file, DOMAIN file, r)
      <4>1. Recorded(r)' /\ LogEntry(file, r)' = Entry(Get(r)')
        BY <3>1, <3>3, <2>1 DEF LogEntry
      <4>2. Get(r)' \in Revision
        BY <4>1, <2>3, GetIsRevision
      <4>3. Entry(Get(r)') # NoRecord
        BY <4>2, EntryIsRecord
      <4>4. Entry(Get(r)').status = Get(r)'.status /\ Entry(Get(r)').mode = Get(r)'.mode
        BY DEF Entry
      <4>5. Entry(Get(r))' = Entry(Get(r)')
        BY DEF Entry
      <4> QED
        BY <3>1, <4>1, <4>3, <4>4, <4>5 DEF Agrees
    <3> QED
      BY <3>2, <3>3
  <2> QED
    BY <2>3, <2>4, <2>5, <2>6, <1>5, <1>6 DEF AuditInv
<1>8. CASE process' = "refused" /\ UNCHANGED <<trail, aggregate, leftover>>
  <2>1. TypeOK'
    BY <1>1, <1>2, <1>3, <1>8 DEF TypeOK, RunsOf
  <2>2. TrailInv'
    BY <1>1, <1>2, <1>8
    DEF TrailInv, Distinct, TrailIsReplay, TrailIsTrusted, AggregateIsReplay, Serving
  <2>3. RestInv' /\ OpenIsExecuting' /\ AgreeInv'
    BY <1>1, <1>4, <1>8 DEF RestInv, OpenIsExecuting, AgreeInv, Serving
  <2> QED
    BY <2>1, <2>2, <2>3, <1>5, <1>6 DEF AuditInv
<1> QED
  BY <1>7, <1>8 DEF Start

-----------------------------------------------------------------------------
(* Every step *)

\* A step that changes nothing keeps everything.
LEMMA StutterAudit ==
    ASSUME AuditInv, UNCHANGED auditVars
    PROVE  AuditInv'
<1>1. /\ UNCHANGED <<file, readable, leftover, process, key, trail, aggregate, writer, task>>
      /\ request' = request
  BY DEF auditVars, diskVars, storeVars
<1>2. TypeOK /\ TrailInv /\ RestInv /\ WriterInv /\ RequestInv /\ OpenIsExecuting /\ AgreeInv
  BY DEF AuditInv
<1>3. \A q : (Recorded(q)' <=> Recorded(q)) /\ Get(q)' = Get(q)
  BY <1>1, SameTrail
<1>4. TypeOK'
  BY <1>1, <1>2 DEF TypeOK, RunsOf
<1>5. TrailInv' /\ RestInv'
  BY <1>1, <1>2
  DEF TrailInv, Distinct, TrailIsReplay, TrailIsTrusted, AggregateIsReplay, Serving, RestInv
<1>6. WriterInv' /\ RequestInv'
  BY <1>1, <1>2, <1>3 DEF WriterInv, Follows, RequestInv
<1>7. OpenIsExecuting'
  BY <1>1, <1>2, <1>3 DEF OpenIsExecuting, RunsOf
<1>8. AgreeInv'
  BY <1>1, <1>2, <1>3 DEF AgreeInv, Agrees, Publishing, Serving
<1> QED
  BY <1>4, <1>5, <1>6, <1>7, <1>8 DEF AuditInv

\* Every step keeps the invariant.
LEMMA NextAudit ==
    ASSUME AuditInv, [AuditNext]_auditVars
    PROVE  AuditInv'
<1>1. CASE UNCHANGED auditVars
  BY <1>1, StutterAudit
<1>2. CASE \E r \in Runs : Admit(r) \/ End(r) \/ Recover(r)
  BY <1>2, AdmitAudit, EndAudit, RecoverAudit
<1>3. CASE \E o \in Operators : WriteFeedback(o) \/ \E r \in Runs : CheckFeedback(o, r)
  BY <1>3, WriteFeedbackAudit, CheckFeedbackAudit
<1>4. CASE Written \/ WriteFails \/ Publish
  BY <1>4, WrittenAudit, WriteFailsAudit, PublishAudit
<1>5. CASE Crash \/ Start \/ Recovered
  BY <1>5, CrashAudit, StartAudit, RecoveredAudit
<1> QED
  BY <1>1, <1>2, <1>3, <1>4, <1>5 DEF AuditNext

\* It holds in every reachable state.
LEMMA AuditCorrect == AuditSpec => []AuditInv
<1>1. AuditInit => AuditInv
  BY InitAudit
<1>2. AuditInv /\ [AuditNext]_auditVars => AuditInv'
  BY NextAudit
<1> QED
  BY <1>1, <1>2, PTL DEF AuditSpec

-----------------------------------------------------------------------------
(* The file is an audit log *)

\* The log that the file shows, run by run.
LEMMA FileLogEntries ==
    /\ FileLog = [r \in Runs |-> LogEntry(file, r)]
    /\ FileLog' = [r \in Runs |-> LogEntry(file, r)']
<1>1. \A r : r \in RunsOf(file) <=> Has(file, DOMAIN file, r)
  BY DEF RunsOf, Has
<1>2. \A r : r \in RunsOf(file') <=> Has(file', DOMAIN file', r)
  BY DEF RunsOf, Has
<1>3. FileLog = [r \in Runs |-> LogEntry(file, r)]
  BY <1>1 DEF FileLog, LogEntry, Entry
<1>4. FileLog' = [r \in Runs |-> LogEntry(file, r)']
  BY <1>2 DEF FileLog, LogEntry, Entry
<1> QED
  BY <1>3, <1>4

\* A line more is an admission, an end, or feedback, of the run it is of.
LEMMA LineIsLogged ==
    ASSUME AuditInv, writer.pc = "write", file' = Append(file, writer.revision)
    PROVE  Log!Next
<1> SUFFICES ASSUME NEW v, v = writer.revision, NEW by, by = writer.by
             PROVE  Log!Next
  OBVIOUS
<1>1. TypeOK /\ RestInv /\ WriterInv /\ AgreeInv
  BY DEF AuditInv
<1>2. writer # Idle /\ v \in Revision /\ by \in Operators \cup {"admission", "end", "recovery"}
      /\ Serving /\ file \in Seq(Revision)
  BY <1>1, WriterFacts DEF RestInv, TypeOK
<1>3. Follows(v, by)
  BY <1>1, <1>2 DEF WriterInv
<1>4. v.run \in Runs /\ v.mode \in Modes
  BY <1>2 DEF Revision
<1>5. Agrees(v.run) /\ ~Publishing(v.run)
  BY <1>1, <1>2, <1>4 DEF AgreeInv, Publishing
<1>6. FileLog = [r \in Runs |-> LogEntry(file, r)]
  BY FileLogEntries
<1>7. \A r : LogEntry(file, r)' = IF v.run = r THEN Entry(v) ELSE LogEntry(file, r)
  BY <1>2, LogEntryWithNext
<1>8. FileLog' = [FileLog EXCEPT ![v.run] = Entry(v)]
  BY <1>4, <1>6, <1>7, FileLogEntries
<1>9. FileLog[v.run] = LogEntry(file, v.run)
  BY <1>4, <1>6
<1>10. CASE by = "admission"
  <2>1. task[v.run] = "none" /\ ~Recorded(v.run) /\ v.status = "QUEUED" /\ v.feedback = NoFeedback
    BY NamesAssumption, <1>3, <1>10 DEF Follows
  <2>2. FileLog[v.run] = NoRecord
    BY <2>1, <1>5, <1>9 DEF Agrees
  <2>3. FileLog' = [FileLog EXCEPT ![v.run] =
                      [status |-> "QUEUED", mode |-> v.mode, feedback |-> NoFeedback]]
    BY <2>1, <1>8 DEF Entry
  <2>4. Log!Admit(v.run)
    BY <2>2, <2>3, <1>4 DEF Log!Admit
  <2> QED
    BY <2>4, <1>4 DEF Log!Next
<1>11. CASE by \in {"end", "recovery"}
  <2>1. /\ Recorded(v.run) /\ ~IsTerminal(Get(v.run)) /\ task[v.run] # "unsaved"
        /\ v.status \in Statuses /\ v.mode \in {Get(v.run).mode, "simulated"}
        /\ v.feedback = Get(v.run).feedback
    <3>1. CASE by = "end"
      BY NamesAssumption, <3>1, <1>3 DEF Follows, Statuses
    <3>2. CASE by = "recovery"
      <4>1. process = "recovering" /\ task[v.run] \in {"none", "ended"}
        BY NamesAssumption, <3>2, <1>1, <1>3, <1>4 DEF Follows, RestInv
      <4> QED
        BY NamesAssumption, <4>1, <3>2, <1>3 DEF Follows, Statuses
    <3> QED
      BY <3>1, <3>2, <1>11
  <2>2. FileLog[v.run] = Entry(Get(v.run))
    BY <2>1, <1>5, <1>9 DEF Agrees
  <2>3. Get(v.run) \in Revision
    BY <2>1, <1>1, GetIsOwn
  <2>4. FileLog[v.run] # NoRecord
    BY <2>2, <2>3, EntryIsRecord
  <2>5. FileLog[v.run].status = "QUEUED" /\ FileLog[v.run].mode = Get(v.run).mode
    BY <2>1, <2>2 DEF Entry, IsTerminal
  <2>6. Entry(v) = [Entry(Get(v.run)) EXCEPT !.status = v.status, !.mode = v.mode]
    <3>1. PICK w : w = Get(v.run) /\ v.feedback = w.feedback
      BY <2>1
    <3>2. Entry(v) = [Entry(w) EXCEPT !.status = v.status, !.mode = v.mode]
      <4> DEFINE S == [status : Statuses \cup {"QUEUED"}, mode : Modes,
                       feedback : Feedbacks \cup {NoFeedback}]
                 e == Entry(w)
                 d == Entry(v)
                 c == [e EXCEPT !.status = v.status, !.mode = v.mode]
      <4>1. e \in S /\ d \in S
        BY <2>3, <3>1, <1>2 DEF Entry, Revision
      <4>2. d.status = v.status /\ d.mode = v.mode /\ d.feedback = e.feedback
        BY <3>1 DEF Entry
      <4> HIDE DEF e, d
      <4>3. v.status \in Statuses \cup {"QUEUED"} /\ v.mode \in Modes
        BY <1>2 DEF Revision
      <4>4. c \in S /\ c.status = v.status /\ c.mode = v.mode /\ c.feedback = e.feedback
        BY <4>1, <4>3
      <4> HIDE DEF c
      <4>5. c = d
        BY <4>1, <4>2, <4>4
      <4> QED
        BY <4>5 DEF c, d, e
    <3> QED
      BY <3>1, <3>2
  <2>7. FileLog' = [FileLog EXCEPT ![v.run].status = v.status, ![v.run].mode = v.mode]
    BY <2>2, <2>6, <1>4, <1>6, <1>8
  <2>8. Log!End(v.run)
    BY <2>1, <2>4, <2>5, <2>7 DEF Log!End
  <2> QED
    BY <2>8, <1>4 DEF Log!Next
<1>12. CASE by \in Operators
  <2>1. /\ Recorded(v.run) /\ IsTerminal(Get(v.run))
        /\ v.status = Get(v.run).status /\ v.mode = Get(v.run).mode /\ v.feedback \in Feedbacks
    BY NamesAssumption, <1>3, <1>12 DEF Follows
  <2>2. /\ FileLog[v.run] # NoRecord
        /\ FileLog[v.run].status = v.status /\ FileLog[v.run].mode = v.mode
    BY <2>1, <1>5, <1>9 DEF Agrees
  <2>3. FileLog[v.run].status # "QUEUED"
    BY <2>1, <2>2 DEF IsTerminal
  <2>4. PICK w : FileLog[v.run] = Entry(w)
    BY <2>2, <1>9 DEF LogEntry
  <2>5. Entry(v) = [FileLog[v.run] EXCEPT !.feedback = v.feedback]
    BY <2>2, <2>4 DEF Entry
  <2>6. FileLog' = [FileLog EXCEPT ![v.run].feedback = v.feedback]
    BY <2>5, <1>4, <1>6, <1>8
  <2>7. Log!TakeFeedback(v.run)
    BY <2>1, <2>2, <2>3, <2>6 DEF Log!TakeFeedback
  <2> QED
    BY <2>7, <1>4 DEF Log!Next
<1> QED
  BY <1>2, <1>10, <1>11, <1>12

\* A step that changes the file is a step of AuditLog.
LEMMA FileIsLogged ==
    ASSUME AuditInv, [AuditNext]_auditVars, file' # file
    PROVE  Log!Next
<1>1. CASE Written
  BY <1>1, LineIsLogged DEF Written
<1>2. CASE WriteFails
  BY <1>2, LineIsLogged DEF WriteFails, WholeLine, PieceOfLine, diskVars
<1>3. CASE Crash
  BY <1>3, LineIsLogged DEF Crash, WholeLine, PieceOfLine
<1>4. CASE \E r \in Runs : Admit(r) \/ End(r) \/ Recover(r)
  BY <1>4 DEF Admit, End, Recover, Begin, diskVars
<1>5. CASE \E o \in Operators : WriteFeedback(o) \/ \E r \in Runs : CheckFeedback(o, r)
  BY <1>5 DEF WriteFeedback, CheckFeedback, Begin, diskVars
<1>6. CASE Publish \/ Start \/ Recovered
  BY <1>6 DEF Publish, Start, Recovered, diskVars
<1>7. CASE UNCHANGED auditVars
  BY <1>7 DEF auditVars, diskVars
<1> QED
  BY <1>1, <1>2, <1>3, <1>4, <1>5, <1>6, <1>7 DEF AuditNext

-----------------------------------------------------------------------------
(* Theorems *)

\* What the audit serves is the replay of its file, but for lines whose write
\* was reported as failed, and its own key signed all of it: append and update
\* publish in the order of the file, a restart replays it (append, update,
\* from_jsonl, with_storage, verify_with_key).
THEOREM DurableCorrect == AuditSpec => []AuditIsDurable
<1>1. AuditInv => AuditIsDurable
  BY DEF AuditInv, TrailInv, AuditIsDurable
<1> QED
  BY <1>1, AuditCorrect, PTL

\* The incremental metrics are those that startup would compute from the
\* records, and count every run that ended once (record_run, update_run,
\* contribution, from_records).
THEOREM MetricsCorrect == AuditSpec => []MetricsAreRecords
<1>1. AuditInv => MetricsAreRecords
  <2> SUFFICES ASSUME AuditInv PROVE AggregateIsReplay /\ CountedOnce
    BY DEF MetricsAreRecords
  <2>1. AggregateIsReplay /\ trail \in Seq(Revision)
    BY DEF AuditInv, TrailInv, TypeOK
  <2> DEFINE A == FromRecords(trail)
  <2>2. /\ A.executed = Cardinality({i \in DOMAIN trail : IsTerminal(trail[i])})
        /\ A.executed = A.simulated + A.pending + A.feedback
        /\ A.contained <= A.detected /\ A.detected <= A.feedback
    BY <2>1, RecordsCountOnce
  <2> HIDE DEF A
  <2>3. Serving => aggregate = A
    BY <2>1 DEF AggregateIsReplay, A
  <2>4. CountedOnce
    BY <2>2, <2>3 DEF CountedOnce
  <2> QED
    BY <2>1, <2>4
<1> QED
  BY <1>1, AuditCorrect, PTL

\* A record is open exactly while its worker runs, or when its end could not
\* be written: nothing executes without a record, and recover_incomplete
\* leaves no run of an earlier process open (spawn_run, recover_incomplete).
THEOREM OpenCorrect == AuditSpec => []OpenIsExecuting
<1>1. AuditInv => OpenIsExecuting
  BY DEF AuditInv
<1> QED
  BY <1>1, AuditCorrect, PTL

\* The file implements AuditLog: every line that a write, a failed write or a
\* crash leaves is an admission, an end or feedback that AuditLog allows
\* (append_to_file).
THEOREM FileCorrect == AuditSpec => FileIsAuditLog
<1>1. AuditInit => Log!Init
  <2> SUFFICES ASSUME AuditInit PROVE Log!Init
    OBVIOUS
  <2>1. file = <<>>
    BY DEF AuditInit
  <2>2. FileLog = [r \in Runs |-> NoRecord]
    BY <2>1 DEF FileLog, RunsOf
  <2> QED
    BY <2>2 DEF Log!Init
<1>2. AuditInv /\ [AuditNext]_auditVars => [file' # file => Log!Next \/ UNCHANGED FileLog]_file
  BY FileIsLogged
<1> QED
  BY <1>1, <1>2, AuditCorrect, PTL DEF AuditSpec, FileIsAuditLog
=============================================================================
