---------------------------- MODULE DNSPoolProofs ----------------------------
(***************************************************************************)
(* Proofs about DNSPool.  The operations change the lists in three ways    *)
(* only, Listing, Rebuilding and not at all; the lemmas say what the first *)
(* two keep, the theorems follow operation by operation.                   *)
(***************************************************************************)
EXTENDS DNSPool, FiniteSetTheorems, SequenceTheorems, TLAPS

(* A sequence made of the elements of a finite set lists each of them once. *)
LEMMA OrderingsList ==
    ASSUME NEW T, NEW S \in SUBSET T, IsFiniteSet(S), NEW q \in Orderings(S)
    PROVE  q \in Seq(T) /\ Elements(q) = S /\ IsInjective(q)
<1> DEFINE n == Cardinality(S)
<1>1. n \in Nat
  BY FS_CardinalityType
<1>2. q \in [1..n -> S] /\ IsInjective(q) /\ \A e \in S : \E i \in 1..n : q[i] = e
  BY DEF Orderings, Bijection, Injection, Surjection
<1>3. q \in Seq(T)
  BY <1>1, <1>2, SeqDef
<1>4. Elements(q) = S
  BY <1>2 DEF Elements
<1> QED BY <1>2, <1>3, <1>4

(* Concatenation keeps the elements of both parts, and no repetition when  *)
(* the parts have none and share nothing.                                  *)
LEMMA ConcatList ==
    ASSUME NEW T, NEW s \in Seq(T), NEW q \in Seq(T)
    PROVE  /\ Elements(s \o q) = Elements(s) \cup Elements(q)
           /\ (IsInjective(s) /\ IsInjective(q) /\ Elements(s) \cap Elements(q) = {})
                 => IsInjective(s \o q)
<1> DEFINE w == s \o q
<1>1. /\ w \in Seq(T)
      /\ Len(w) = Len(s) + Len(q)
      /\ \A i \in 1..(Len(s) + Len(q)) :
            w[i] = IF i <= Len(s) THEN s[i] ELSE q[i - Len(s)]
  BY ConcatProperties
<1>2. /\ Len(s) \in Nat /\ DOMAIN s = 1..Len(s)
      /\ Len(q) \in Nat /\ DOMAIN q = 1..Len(q)
      /\ DOMAIN w = 1..(Len(s) + Len(q))
  BY <1>1, LenProperties
<1> HIDE DEF w
<1>3. Elements(w) \subseteq Elements(s) \cup Elements(q)
  <2> SUFFICES ASSUME NEW i \in DOMAIN w
               PROVE  w[i] \in Elements(s) \cup Elements(q)
    BY DEF Elements
  <2>1. CASE i <= Len(s)
    BY <2>1, <1>1, <1>2 DEF Elements
  <2>2. CASE i > Len(s)
    <3>1. i - Len(s) \in DOMAIN q /\ w[i] = q[i - Len(s)]
      BY <2>2, <1>1, <1>2
    <3> QED BY <3>1 DEF Elements
  <2> QED BY <2>1, <2>2, <1>2
<1>4. \A i \in DOMAIN s : i \in DOMAIN w /\ w[i] = s[i]
  BY <1>1, <1>2
<1>5. \A i \in DOMAIN q : i + Len(s) \in DOMAIN w /\ w[i + Len(s)] = q[i]
  BY <1>1, <1>2
<1>6. Elements(s) \cup Elements(q) \subseteq Elements(w)
  BY <1>4, <1>5 DEF Elements
<1>7. ASSUME IsInjective(s), IsInjective(q), Elements(s) \cap Elements(q) = {}
      PROVE  IsInjective(w)
  <2> SUFFICES ASSUME NEW i \in DOMAIN w, NEW j \in DOMAIN w, w[i] = w[j]
               PROVE  i = j
    BY DEF IsInjective
  <2>1. CASE i <= Len(s) /\ j <= Len(s)
    BY <2>1, <1>1, <1>2, <1>7 DEF IsInjective
  <2>2. CASE i > Len(s) /\ j > Len(s)
    <3>1. i - Len(s) \in DOMAIN q /\ j - Len(s) \in DOMAIN q
      BY <2>2, <1>2
    <3>2. q[i - Len(s)] = w[i] /\ q[j - Len(s)] = w[j]
      BY <2>2, <1>1, <1>2
    <3>3. i - Len(s) = j - Len(s)
      BY <3>1, <3>2, <1>7 DEF IsInjective
    <3> QED BY <3>3, <1>2
  <2>3. ASSUME NEW k \in DOMAIN w, NEW l \in DOMAIN w, k <= Len(s), l > Len(s)
        PROVE  w[k] # w[l]
    <3>1. k \in DOMAIN s /\ w[k] = s[k]
      BY <2>3, <1>1, <1>2
    <3>2. l - Len(s) \in DOMAIN q /\ w[l] = q[l - Len(s)]
      BY <2>3, <1>1, <1>2
    <3> QED BY <3>1, <3>2, <1>7 DEF Elements
  <2> QED BY <2>1, <2>2, <2>3, <1>2
<1> QED BY <1>3, <1>6, <1>7 DEF w

(* A list extended by a set has the elements of both, none of them twice.  *)
LEMMA ExtendingList ==
    ASSUME NEW T, IsFiniteSet(T), NEW S \in SUBSET T,
           NEW list \in Seq(T), IsInjective(list), NEW l \in Extending(list, S)
    PROVE  l \in Seq(T) /\ IsInjective(l) /\ Elements(l) = Elements(list) \cup S
<1>1. PICK q \in Orderings(S \ Elements(list)) : l = list \o q
  BY DEF Extending
<1>2. IsFiniteSet(S \ Elements(list))
  BY FS_Subset
<1>3. q \in Seq(T) /\ Elements(q) = S \ Elements(list) /\ IsInjective(q)
  BY <1>2, OrderingsList
<1>4. list \o q \in Seq(T)
  BY <1>3, ConcatProperties
<1> QED BY <1>1, <1>3, <1>4, ConcatList

(* Listing appends the missing addresses and nothing else.                 *)
LEMMA ListingKeeps ==
    ASSUME NEW r \in DNSRecord, DuplicateFree(r), NEW S \in SUBSET IPs,
           NEW t \in Listing(r, S)
    PROVE  /\ t \in DNSRecord /\ DuplicateFree(t)
           /\ KnownIPs(t) = KnownIPs(r) \cup S
           /\ t.black = r.black /\ t.white = r.white /\ t.idx = r.idx
<1>1. PICK l \in Extending(r.v4, S \cap V4) \X Extending(r.v6, S \cap V6) :
         t = [r EXCEPT !.v4 = l[1], !.v6 = l[2]]
  BY DEF Listing
<1>2. /\ r.v4 \in Seq(V4) /\ IsInjective(r.v4)
      /\ r.v6 \in Seq(V6) /\ IsInjective(r.v6)
  BY DEF DNSRecord, DuplicateFree
<1>3. l[1] \in Extending(r.v4, S \cap V4) /\ l[2] \in Extending(r.v6, S \cap V6)
  OBVIOUS
<1>4. /\ l[1] \in Seq(V4) /\ IsInjective(l[1])
      /\ Elements(l[1]) = Elements(r.v4) \cup (S \cap V4)
  BY <1>2, <1>3, IPsFinite, ExtendingList
<1>5. /\ l[2] \in Seq(V6) /\ IsInjective(l[2])
      /\ Elements(l[2]) = Elements(r.v6) \cup (S \cap V6)
  BY <1>2, <1>3, IPsFinite, ExtendingList
<1>6. /\ t.v4 = l[1] /\ t.v6 = l[2]
      /\ t.black = r.black /\ t.white = r.white /\ t.idx = r.idx
  BY <1>1 DEF DNSRecord
<1>7. t \in DNSRecord
  BY <1>1, <1>4, <1>5 DEF DNSRecord
<1>8. S = (S \cap V4) \cup (S \cap V6)
  BY DEF IPs
<1> QED BY <1>4, <1>5, <1>6, <1>7, <1>8 DEF DuplicateFree, KnownIPs

(* Rebuilding may reorder the lists but forgets and repeats nothing.       *)
LEMMA RebuildingKeeps ==
    ASSUME NEW r \in DNSRecord, DuplicateFree(r), NEW S \in SUBSET IPs,
           NEW t \in Rebuilding(r, S)
    PROVE  /\ t \in DNSRecord /\ DuplicateFree(t)
           /\ KnownIPs(t) = KnownIPs(r) \cup S
           /\ t.black = r.black /\ t.white = r.white /\ t.idx = r.idx
<1> DEFINE S4 == (S \cap V4) \cup Elements(r.v4)
           S6 == (S \cap V6) \cup Elements(r.v6)
<1>1. PICK l \in Orderings(S4) \X Orderings(S6) :
         t = [r EXCEPT !.v4 = l[1], !.v6 = l[2]]
  BY DEF Rebuilding
<1>2. r.v4 \in Seq(V4) /\ r.v6 \in Seq(V6)
  BY DEF DNSRecord
<1>3. Elements(r.v4) \subseteq V4 /\ Elements(r.v6) \subseteq V6
  BY <1>2, ElementOfSeq, LenProperties DEF Elements
<1>4. IsFiniteSet(S4) /\ IsFiniteSet(S6) /\ S4 \subseteq V4 /\ S6 \subseteq V6
  BY <1>3, IPsFinite, FS_Subset
<1>5. l[1] \in Seq(V4) /\ Elements(l[1]) = S4 /\ IsInjective(l[1])
  BY <1>4, OrderingsList
<1>6. l[2] \in Seq(V6) /\ Elements(l[2]) = S6 /\ IsInjective(l[2])
  BY <1>4, OrderingsList
<1>7. /\ t.v4 = l[1] /\ t.v6 = l[2]
      /\ t.black = r.black /\ t.white = r.white /\ t.idx = r.idx
  BY <1>1 DEF DNSRecord
<1>8. t \in DNSRecord
  BY <1>1, <1>5, <1>6 DEF DNSRecord
<1>9. S = (S \cap V4) \cup (S \cap V6)
  BY DEF IPs
<1> QED BY <1>5, <1>6, <1>7, <1>8, <1>9 DEF DuplicateFree, KnownIPs

(* The candidates are addresses of the record, none banned, none twice.    *)
LEMMA CandidatesAre ==
    ASSUME NEW r \in DNSRecord, DuplicateFree(r), NEW c \in Candidates(r)
    PROVE  /\ c \in Seq(IPs)
           /\ Elements(c) \subseteq KnownIPs(r) \ r.black
           /\ IsInjective(c)
<1> DEFINE all  == Usable(r)
           keep == {i \in DOMAIN all : all[i] \notin r.black}
           n    == Cardinality(keep)
<1>1. PICK pos \in Orderings(keep) : c = [k \in 1..n |-> all[pos[k]]]
  BY DEF Candidates
<1>2. all \in Seq(IPs) /\ IsInjective(all) /\ Elements(all) \subseteq KnownIPs(r)
  <2> DEFINE four == IF HasV4 THEN r.v4 ELSE <<>>
             six  == IF HasV6 THEN r.v6 ELSE <<>>
  <2>1. r.v4 \in Seq(V4) /\ r.v6 \in Seq(V6) /\ IsInjective(r.v4) /\ IsInjective(r.v6)
    BY DEF DNSRecord, DuplicateFree
  <2>2. <<>> \in Seq(V4) /\ <<>> \in Seq(V6) /\ IsInjective(<<>>) /\ Elements(<<>>) = {}
    BY DEF IsInjective, Elements
  <2>3. four \in Seq(V4) /\ IsInjective(four) /\ Elements(four) \subseteq Elements(r.v4)
    BY <2>1, <2>2
  <2>4. six \in Seq(V6) /\ IsInjective(six) /\ Elements(six) \subseteq Elements(r.v6)
    BY <2>1, <2>2
  <2>5. Elements(four) \subseteq V4 /\ Elements(six) \subseteq V6
    BY <2>3, <2>4, ElementOfSeq, LenProperties DEF Elements
  <2>6. four \in Seq(IPs) /\ six \in Seq(IPs)
    BY <2>3, <2>4, SeqMonotonic DEF IPs
  <2>7. Elements(four) \cap Elements(six) = {}
    BY <2>5, FamiliesDisjoint
  <2>8. all = six \o four \/ all = four \o six
    BY DEF Usable
  <2> HIDE DEF four, six
  <2>9. /\ six \o four \in Seq(IPs) /\ IsInjective(six \o four)
        /\ four \o six \in Seq(IPs) /\ IsInjective(four \o six)
        /\ Elements(six \o four) = Elements(six) \cup Elements(four)
        /\ Elements(four \o six) = Elements(six) \cup Elements(four)
    BY <2>3, <2>4, <2>6, <2>7, ConcatProperties, ConcatList
  <2> QED BY <2>3, <2>4, <2>8, <2>9 DEF KnownIPs
<1>3. IsFiniteSet(keep)
  <2>1. IsFiniteSet(DOMAIN all)
    BY <1>2, LenProperties, FS_Interval
  <2> QED BY <2>1, FS_Subset
<1>4. n \in Nat
  BY <1>3, FS_CardinalityType
<1>5. pos \in [1..n -> keep] /\ IsInjective(pos)
  BY DEF Orderings, Bijection, Injection
<1>6. \A k \in 1..n : /\ pos[k] \in DOMAIN all
                       /\ c[k] = all[pos[k]]
                       /\ c[k] \in Elements(all) \ r.black
  BY <1>1, <1>5 DEF Elements
<1>7. DOMAIN c = 1..n
  BY <1>1
<1>8. \A k \in 1..n : c[k] \in IPs
  BY <1>2, <1>6, ElementOfSeq, LenProperties
<1> HIDE DEF n, keep, all
<1>9. c \in Seq(IPs)
  <2>1. c \in [1..n -> IPs]
    BY <1>1, <1>7, <1>8
  <2> QED BY <2>1, <1>4, SeqDef
<1>10. IsInjective(c)
  <2> SUFFICES ASSUME NEW k \in 1..n, NEW l \in 1..n, c[k] = c[l]
               PROVE  k = l
    BY <1>7 DEF IsInjective
  <2>1. pos[k] = pos[l]
    BY <1>2, <1>6 DEF IsInjective
  <2> QED BY <2>1, <1>5 DEF IsInjective
<1> QED BY <1>2, <1>6, <1>7, <1>9, <1>10 DEF Elements

(* Division with remainder, as the provers need it.                        *)
LEMMA Quotient ==
    ASSUME NEW x \in Nat, NEW L \in Nat \ {0}
    PROVE  x % L \in 0..(L - 1) /\ x \div L \in Int /\ x = L * (x \div L) + (x % L)
OBVIOUS

LEMMA SmallMultiple ==
    ASSUME NEW L \in Nat \ {0}, NEW k \in Int, L * k < L, L * k > 0 - L
    PROVE  k = 0
<1>1. CASE k >= 1
  BY <1>1, Z3
<1>2. CASE k <= -1
  BY <1>2, Z3
<1> QED BY <1>1, <1>2

LEMMA SmallRemainder ==
    ASSUME NEW L \in Nat \ {0}, NEW x \in 0..(L - 1)
    PROVE  x % L = x
OBVIOUS

(* Equal remainders are a multiple apart.                                  *)
LEMMA RemainderUnique ==
    ASSUME NEW L \in Nat \ {0}, NEW k \in Int, NEW l \in Int,
           NEW m \in 0..(L - 1), NEW n \in 0..(L - 1), L * k + m = L * l + n
    PROVE  m = n
<1>1. L * (k - l) = n - m
  OBVIOUS
<1>2. k - l = 0
  BY <1>1, SmallMultiple
<1> QED BY <1>2

LEMMA RemaindersDiffer ==
    ASSUME NEW L \in Nat \ {0}, NEW x \in Nat, NEW y \in Nat, x < y, y - x < L
    PROVE  x % L # y % L
<1> DEFINE k == x \div L
           l == y \div L
<1>1. x = L * k + (x % L) /\ y = L * l + (y % L) /\ k \in Int /\ l \in Int
  BY Quotient
<1>2. x % L \in Int /\ y % L \in Int
  BY Quotient
<1> SUFFICES ASSUME x % L = y % L PROVE FALSE
  OBVIOUS
<1> HIDE DEF k, l
<1>3. L * (l - k) = y - x
  BY <1>1, <1>2
<1>4. l - k = 0
  BY <1>1, <1>3, SmallMultiple
<1> QED BY <1>1, <1>4

(* A list has as many places as elements when none is repeated.            *)
LEMMA LengthIsSize ==
    ASSUME NEW T, NEW s \in Seq(T), IsInjective(s)
    PROVE  Cardinality(Elements(s)) = Len(s) /\ IsFiniteSet(Elements(s))
<1>1. Len(s) \in Nat /\ DOMAIN s = 1..Len(s) /\ s \in [1..Len(s) -> T]
  BY LenProperties
<1>2. s \in Bijection(1..Len(s), Elements(s))
  BY <1>1 DEF Bijection, Injection, Surjection, Elements
<1>3. IsFiniteSet(1..Len(s)) /\ Cardinality(1..Len(s)) = Len(s)
  BY <1>1, FS_Interval
<1> QED BY <1>2, <1>3, FS_Bijection DEF ExistsBijection

(* Fewer addresses apart than there are candidates, a call hands out       *)
(* different ones.                                                         *)
LEMMA HandOutSpreads ==
    ASSUME NEW c \in Seq(IPs), IsInjective(c), c # <<>>, NEW idx \in Nat, NEW n \in Nat,
           NEW i \in 1..n, NEW j \in 1..n, i < j, j - i < Len(c)
    PROVE  HandOut(c, idx, n)[i] # HandOut(c, idx, n)[j]
<1>1. Len(c) \in Nat \ {0} /\ DOMAIN c = 1..Len(c)
  BY EmptySeq, LenProperties
<1> DEFINE x == idx + i - 1
           y == idx + j - 1
<1>2. x \in Nat /\ y \in Nat /\ x < y /\ y - x < Len(c)
  BY <1>1
<1>3. x % Len(c) # y % Len(c)
  BY <1>1, <1>2, RemaindersDiffer
<1>4. x % Len(c) \in 0..(Len(c) - 1) /\ y % Len(c) \in 0..(Len(c) - 1)
  BY <1>1, <1>2, Quotient
<1>5. /\ HandOut(c, idx, n)[i] = c[(x % Len(c)) + 1]
      /\ HandOut(c, idx, n)[j] = c[(y % Len(c)) + 1]
  BY DEF HandOut
<1> HIDE DEF x, y
<1>6. (x % Len(c)) + 1 \in DOMAIN c /\ (y % Len(c)) + 1 \in DOMAIN c
  BY <1>1, <1>4
<1>7. (x % Len(c)) + 1 # (y % Len(c)) + 1
  BY <1>3, <1>4
<1> QED BY <1>5, <1>6, <1>7 DEF IsInjective

(* What a call hands out are candidates.                                   *)
LEMMA HandOutIsList ==
    ASSUME NEW T, NEW c \in Seq(T), c # <<>>, NEW idx \in Nat, NEW n \in Nat
    PROVE  /\ HandOut(c, idx, n) \in Seq(T)
           /\ Len(HandOut(c, idx, n)) = n
           /\ Elements(HandOut(c, idx, n)) \subseteq Elements(c)
<1>1. Len(c) \in Nat \ {0} /\ DOMAIN c = 1..Len(c) /\ \A k \in 1..Len(c) : c[k] \in T
  BY EmptySeq, LenProperties, ElementOfSeq
<1>2. ASSUME NEW i \in 1..n
      PROVE  ((idx + i - 1) % Len(c)) + 1 \in 1..Len(c)
  <2>1. idx + i - 1 \in Nat
    OBVIOUS
  <2>2. (idx + i - 1) % Len(c) \in 0..(Len(c) - 1)
    BY <1>1, <2>1, Quotient
  <2> QED BY <1>1, <2>2
<1>3. HandOut(c, idx, n) \in [1..n -> T]
  BY <1>1, <1>2 DEF HandOut
<1>4. DOMAIN HandOut(c, idx, n) = 1..n
  BY DEF HandOut
<1>5. HandOut(c, idx, n) \in Seq(T)
  BY <1>3, SeqDef
<1>6. Elements(HandOut(c, idx, n)) \subseteq Elements(c)
  BY <1>1, <1>2, <1>4 DEF HandOut, Elements
<1> QED BY <1>4, <1>5, <1>6, LenProperties

(* No element of the sequence comes back before each of the others has had *)
(* its turn.                                                               *)
Even(s) ==
    \A i, j \in DOMAIN s : (i < j /\ j - i < Cardinality(Elements(s))) => s[i] # s[j]

(* What one call hands out is such a sequence ...                          *)
LEMMA HandOutEven ==
    ASSUME NEW c \in Seq(IPs), IsInjective(c), c # <<>>, NEW idx \in Nat, NEW n \in Nat
    PROVE  Even(HandOut(c, idx, n))
<1> DEFINE s == HandOut(c, idx, n)
<1>1. DOMAIN s = 1..n
  BY DEF HandOut
<1>2. Elements(s) \subseteq Elements(c)
  BY HandOutIsList
<1>3. IsFiniteSet(Elements(c)) /\ Cardinality(Elements(c)) = Len(c)
  BY LengthIsSize
<1>4. /\ Cardinality(Elements(s)) <= Len(c)
      /\ Cardinality(Elements(s)) \in Nat /\ Len(c) \in Nat
  BY <1>2, <1>3, FS_Subset, FS_CardinalityType, LenProperties
<1> SUFFICES ASSUME NEW i \in 1..n, NEW j \in 1..n, i < j, j - i < Cardinality(Elements(s))
             PROVE  s[i] # s[j]
  BY <1>1 DEF Even
<1>5. j - i < Len(c)
  BY <1>4
<1> QED BY <1>5, HandOutSpreads

(* ... and so is what remains of it once the first element is gone.        *)
LEMMA TailEven ==
    ASSUME NEW s \in Seq(IPs), s # <<>>
    PROVE  /\ Tail(s) \in Seq(IPs) /\ Head(s) \in Elements(s) /\ Head(s) \in IPs
           /\ Elements(Tail(s)) \subseteq Elements(s)
           /\ Even(s) => Even(Tail(s))
<1> DEFINE t == Tail(s)
<1>1. /\ Len(s) \in Nat \ {0} /\ DOMAIN s = 1..Len(s) /\ \A k \in 1..Len(s) : s[k] \in IPs
  BY EmptySeq, LenProperties, ElementOfSeq
<1>2. /\ t \in Seq(IPs) /\ Head(s) = s[1] /\ Len(t) = Len(s) - 1 /\ DOMAIN t = 1..Len(t)
      /\ \A k \in 1..Len(t) : t[k] = s[k + 1]
  BY HeadTailProperties, LenProperties
<1> HIDE DEF t
<1>3. \A k \in DOMAIN t : k + 1 \in DOMAIN s /\ t[k] = s[k + 1] /\ k \in Nat
  BY <1>1, <1>2
<1>4. Elements(t) \subseteq Elements(s)
  BY <1>3 DEF Elements
<1>5. Head(s) \in Elements(s) /\ Head(s) \in IPs
  BY <1>1, <1>2 DEF Elements
<1>6. IsFiniteSet(Elements(s))
  <2>1. IsFiniteSet(IPs)
    BY IPsFinite, FS_Union DEF IPs
  <2>2. Elements(s) \subseteq IPs
    BY <1>1 DEF Elements
  <2> QED BY <2>1, <2>2, FS_Subset
<1>7. /\ Cardinality(Elements(t)) <= Cardinality(Elements(s))
      /\ Cardinality(Elements(t)) \in Nat /\ Cardinality(Elements(s)) \in Nat
  BY <1>4, <1>6, FS_Subset, FS_CardinalityType
<1>8. ASSUME Even(s) PROVE Even(t)
  <2> SUFFICES ASSUME NEW i \in DOMAIN t, NEW j \in DOMAIN t, i < j,
                      j - i < Cardinality(Elements(t))
               PROVE  t[i] # t[j]
    BY DEF Even
  <2>1. i + 1 < j + 1 /\ (j + 1) - (i + 1) < Cardinality(Elements(s))
    BY <1>3, <1>7
  <2> QED BY <1>3, <1>8, <2>1 DEF Even
<1> QED BY <1>2, <1>4, <1>5, <1>8 DEF t

-----------------------------------------------------------------------------
(* What holds of the entry between two operations.                         *)
Sound(r) == r \in DNSRecord /\ DuplicateFree(r) /\ r.white \subseteq KnownIPs(r)

PoolInv == rec = NoRecord \/ Sound(rec)

LEMMA EmptySound == Sound(EmptyRecord)
<1>1. <<>> \in Seq(V4) /\ <<>> \in Seq(V6) /\ Elements(<<>>) = {}
  BY DEF Elements
<1>2. IsInjective(<<>>)
  BY DEF IsInjective
<1> QED BY <1>1, <1>2 DEF Sound, EmptyRecord, DNSRecord, DuplicateFree, KnownIPs

LEMMA CurrentSound == PoolInv => Sound(Current)
BY EmptySound DEF PoolInv, Current

LEMMA ListingSound ==
    ASSUME NEW r, Sound(r), NEW S \in SUBSET IPs, NEW t \in Listing(r, S)
    PROVE  Sound(t) /\ KnownIPs(t) = KnownIPs(r) \cup S
           /\ t.black = r.black /\ t.white = r.white /\ t.idx = r.idx
BY ListingKeeps DEF Sound

LEMMA LoadedSound == \A r \in Loaded : r = NoRecord \/ Sound(r)
<1> SUFFICES ASSUME NEW f \in FileRecords, NEW r \in Listing(f, f.white)
             PROVE  Sound(r)
  BY DEF Loaded
<1>1. f \in DNSRecord /\ DuplicateFree(f) /\ f.white \in SUBSET IPs
  BY FilesAreRecords DEF DNSRecord
<1> QED BY <1>1, ListingKeeps DEF Sound

-----------------------------------------------------------------------------
(* Each operation leaves the entry sound and forgets no address; reports   *)
(* alone ban addresses and lift bans.                                      *)
Keeps(r, t) ==
    /\ Sound(t)
    /\ KnownIPs(r) \subseteq KnownIPs(t)
    /\ t.black = r.black

LEMMA SaveKeeps ==
    ASSUME PoolInv, NEW answer \in DNSAnswers, Save(answer)
    PROVE  Keeps(Current, rec')
<1>1. answer \in SUBSET IPs
  BY AnswersAreIPs
<1>2. PICK r \in Listing(Current, answer) :
         rec' = [r EXCEPT !.idx = IF @ >= Len(r.v4) THEN 0 ELSE @]
  BY DEF Save
<1>3. Sound(r) /\ KnownIPs(r) = KnownIPs(Current) \cup answer /\ r.black = Current.black
  BY <1>1, CurrentSound, ListingSound
<1>4. \E i \in Nat : rec' = [r EXCEPT !.idx = i]
  BY <1>2, <1>3 DEF Sound, DNSRecord
<1> QED BY <1>3, <1>4 DEF Keeps, Sound, DNSRecord, DuplicateFree, KnownIPs

LEMMA WhiteListing ==
    ASSUME PoolInv, rec # NoRecord, NEW r \in Listing(rec, rec.white)
    PROVE  Keeps(rec, r)
<1>1. Sound(rec) /\ rec.white \in SUBSET IPs
  BY DEF PoolInv, Sound, DNSRecord
<1> QED BY <1>1, ListingSound DEF Keeps

LEMMA NextIPsKeeps ==
    ASSUME PoolInv, NEW n \in Counts, NextIPs(n)
    PROVE  Keeps(Current, rec')
<1>1. rec # NoRecord /\ Current = rec
  BY DEF NextIPs, Current
<1>2. PICK r \in Listing(rec, rec.white) : \E c \in Candidates(r) : Take(r, c, n)
  BY DEF NextIPs
<1>3. PICK c \in Candidates(r) : Take(r, c, n)
  BY <1>2
<1>4. Keeps(rec, r)
  BY <1>1, WhiteListing
<1>5. r.idx \in Nat /\ n \in Nat
  BY <1>4 DEF Keeps, Sound, DNSRecord, Counts
<1>6. Len(c) \in Nat \ {0}
  BY <1>3, <1>4, CandidatesAre, EmptySeq DEF Keeps, Sound, Take
<1>7. (r.idx + n) % Len(c) \in Nat
  BY <1>5, <1>6
<1>8. rec' = [r EXCEPT !.idx = (r.idx + n) % Len(c)]
  BY <1>3 DEF Take
<1> QED BY <1>1, <1>4, <1>7, <1>8 DEF Keeps, Sound, DNSRecord, DuplicateFree, KnownIPs

LEMMA NextIPsFailsKeeps == PoolInv /\ NextIPsFails => Keeps(Current, rec')
BY WhiteListing DEF NextIPsFails, Current

LEMMA ReportLatencyKeeps == PoolInv /\ ReportLatency => Keeps(Current, rec')
BY CurrentSound DEF ReportLatency, Keeps

(* A 200 is the one report that lifts a ban, a 403 the one that bans, and  *)
(* only the address it is about.                                           *)
LEMMA ReportResultKeeps ==
    ASSUME PoolInv, NEW ip \in IPs, NEW status \in Statuses, ReportResult(ip, status)
    PROVE  /\ Sound(rec')
           /\ KnownIPs(Current) \subseteq KnownIPs(rec')
           /\ Current.black \ rec'.black \subseteq IF status = 200 THEN {ip} ELSE {}
           /\ rec'.black \ Current.black \subseteq IF status = 403 THEN {ip} ELSE {}
           /\ rec'.idx = Current.idx
<1> DEFINE Black(r) == CASE status = 403 -> r.black \cup {ip}
                         [] status = 200 -> r.black \ {ip}
                         [] OTHER        -> r.black
           White(r) == CASE status = 403 -> r.white \ {ip}
                         [] status = 200 -> r.white \cup {ip}
                         [] OTHER        -> r.white
<1>1. PICK r \in Listing(Current, {ip}) :
         rec' = [r EXCEPT !.black = Black(r), !.white = White(r)]
  BY DEF ReportResult
<1>2. /\ Sound(r) /\ r.black = Current.black /\ r.idx = Current.idx
      /\ KnownIPs(r) = KnownIPs(Current) \cup {ip}
  BY CurrentSound, ListingSound
<1>3. status \in {200, 403, 500}
  BY DEF Statuses
<1>4. /\ r.black \ Black(r) \subseteq IF status = 200 THEN {ip} ELSE {}
      /\ Black(r) \subseteq r.black \cup {ip}
      /\ Black(r) \ r.black \subseteq IF status = 403 THEN {ip} ELSE {}
      /\ White(r) \subseteq r.white \cup {ip}
  BY <1>3
<1> HIDE DEF Black, White
<1>5. r \in DNSRecord /\ DuplicateFree(r) /\ r.white \subseteq KnownIPs(r)
  BY <1>2 DEF Sound
<1>6. Black(r) \in SUBSET IPs /\ White(r) \in SUBSET IPs
  BY <1>4, <1>5 DEF DNSRecord
<1>7. /\ rec' \in DNSRecord
      /\ rec'.v4 = r.v4 /\ rec'.v6 = r.v6
      /\ rec'.black = Black(r) /\ rec'.white = White(r) /\ rec'.idx = r.idx
  BY <1>1, <1>5, <1>6 DEF DNSRecord
<1>8. DuplicateFree(rec') /\ KnownIPs(rec') = KnownIPs(r)
  BY <1>5, <1>7 DEF DuplicateFree, KnownIPs
<1> QED BY <1>2, <1>4, <1>5, <1>7, <1>8 DEF Sound

LEMMA MergeFromPeerKeeps ==
    ASSUME PoolInv, NEW offer \in PeerOffers, MergeFromPeer(offer)
    PROVE  Keeps(Current, rec')
<1>1. offer \in SUBSET IPs
  BY OffersAreIPs
<1>2. PICK r \in Rebuilding(Current, offer) :
         rec' \in Listing([r EXCEPT !.white = @ \cup offer], r.white \cup offer)
  BY DEF MergeFromPeer
<1>3. Sound(Current)
  BY CurrentSound
<1>4. /\ r \in DNSRecord /\ DuplicateFree(r)
      /\ KnownIPs(r) = KnownIPs(Current) \cup offer
      /\ r.black = Current.black /\ r.white = Current.white
  BY <1>1, <1>3, RebuildingKeeps DEF Sound
<1> DEFINE u == [r EXCEPT !.white = r.white \cup offer]
<1>5. /\ u \in DNSRecord
      /\ u.v4 = r.v4 /\ u.v6 = r.v6 /\ u.black = r.black
      /\ u.white = r.white \cup offer
  BY <1>1, <1>4 DEF DNSRecord
<1>6. rec' \in Listing(u, u.white)
  BY <1>2, <1>5
<1> HIDE DEF u
<1>7. Sound(u) /\ KnownIPs(u) = KnownIPs(r)
  BY <1>3, <1>4, <1>5 DEF Sound, DuplicateFree, KnownIPs
<1>8. u.white \in SUBSET IPs
  BY <1>5 DEF DNSRecord
<1> QED BY <1>4, <1>5, <1>6, <1>7, <1>8, ListingSound DEF Keeps

-----------------------------------------------------------------------------
(* Every operation but a reload and a report keeps the entry.              *)
Unreported ==
    \/ \E answer \in DNSAnswers : Save(answer)
    \/ \E n \in Counts : NextIPs(n)
    \/ NextIPsFails
    \/ ReportLatency
    \/ \E offer \in PeerOffers : MergeFromPeer(offer)

LEMMA UnreportedKeeps == PoolInv /\ Unreported => Keeps(Current, rec')
BY SaveKeeps, NextIPsKeeps, NextIPsFailsKeeps, ReportLatencyKeeps, MergeFromPeerKeeps
   DEF Unreported

LEMMA NextSplits ==
    Next => \/ HotReload
            \/ Unreported
            \/ \E ip \in IPs, status \in Statuses : ReportResult(ip, status)
BY DEF Next, Unreported

(* The entry is sound in every state: its two lists hold addresses of the  *)
(* right family without repetition, and contain the white-listed ones.     *)
THEOREM PoolInvariant == Spec => []PoolInv
<1>1. Init => PoolInv
  BY LoadedSound DEF Init, PoolInv
<1>2. PoolInv /\ [Next]_rec => PoolInv'
  <2> SUFFICES ASSUME PoolInv, [Next]_rec
               PROVE  PoolInv'
    OBVIOUS
  <2>1. CASE HotReload
    BY <2>1, LoadedSound DEF HotReload, PoolInv
  <2>2. CASE Unreported
    BY <2>2, UnreportedKeeps DEF Keeps, PoolInv
  <2>3. CASE \E ip \in IPs, status \in Statuses : ReportResult(ip, status)
    BY <2>3, ReportResultKeeps DEF PoolInv
  <2>4. CASE UNCHANGED rec
    BY <2>4 DEF PoolInv
  <2> QED BY <2>1, <2>2, <2>3, <2>4, NextSplits
<1> QED BY <1>1, <1>2, PTL DEF Spec

(* The entry is well-typed.                                                *)
THEOREM TypeCorrect == Spec => []TypeOK
<1>1. PoolInv => TypeOK
  BY DEF PoolInv, Sound, TypeOK
<1> QED BY <1>1, PoolInvariant, PTL

(* No list has an address twice.                                           *)
THEOREM ListsDuplicateFree == Spec => []NoDuplicateIPs
<1>1. PoolInv => NoDuplicateIPs
  BY DEF PoolInv, Sound, NoDuplicateIPs
<1> QED BY <1>1, PoolInvariant, PTL

(* Every white-listed address takes part in the rotation.                  *)
THEOREM WhitelistListed == Spec => []WhitelistedAreListed
<1>1. PoolInv => WhitelistedAreListed
  BY DEF PoolInv, Sound, WhitelistedAreListed
<1> QED BY <1>1, PoolInvariant, PTL

(* The steps of the pool: those that reload, those that lift no ban, and   *)
(* the reports.                                                            *)
LEMMA StepKeeps ==
    ASSUME PoolInv, Next, ~HotReload
    PROVE  /\ Current' = rec'
           /\ KnownIPs(Current) \subseteq KnownIPs(rec')
           /\ \A ip \in Current.black \ rec'.black : ReportResult(ip, 200)
<1>1. ASSUME Sound(rec') PROVE Current' = rec'
  BY <1>1, NoRecordIsNil DEF Sound, Current
<1>2. CASE Unreported
  BY <1>1, <1>2, UnreportedKeeps DEF Keeps
<1>3. CASE \E ip \in IPs, status \in Statuses : ReportResult(ip, status)
  BY <1>1, <1>3, ReportResultKeeps
<1> QED BY <1>2, <1>3, NextSplits

(* Only a reload forgets an address.                                       *)
THEOREM AddressesKept == Spec => NeverForgets
<1>1. PoolInv /\ [Next]_rec
        => [HotReload \/ KnownIPs(Current) \subseteq KnownIPs(Current')]_rec
  BY StepKeeps
<1> QED BY <1>1, PoolInvariant, PTL DEF Spec, NeverForgets

(* Only a 200 reported for an address, or a reload, lifts its ban.         *)
THEOREM BansKept == Spec => UnbannedOnlyBy200
<1>1. PoolInv /\ [Next]_rec
        => [HotReload \/ \A ip \in Current.black \ Current'.black : ReportResult(ip, 200)]_rec
  BY StepKeeps
<1> QED BY <1>1, PoolInvariant, PTL DEF Spec, UnbannedOnlyBy200

=============================================================================
