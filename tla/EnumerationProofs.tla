------------------------- MODULE EnumerationProofs -------------------------
(***************************************************************************)
(* Proofs about Enumeration, and about counting the positions of a list    *)
(* that lie before a given one.                                            *)
(***************************************************************************)
EXTENDS Enumeration, FiniteSetTheorems, SequenceTheorems, TLAPS

(* The members of P before k. *)
Under(P, k) == {j \in P : j < k}

LEMMA UnderFinite ==
    ASSUME NEW P \in SUBSET (Nat \ {0}), NEW k \in Nat
    PROVE  IsFiniteSet(Under(P, k)) /\ Cardinality(Under(P, k)) \in Nat
<1>0. \A j \in P : j \in Nat /\ j # 0
  OBVIOUS
<1>1. \A j \in Under(P, k) : j \in 1 .. k
  BY <1>0 DEF Under
<1>2. IsFiniteSet(1 .. k)
  BY FS_Interval
<1>3. IsFiniteSet(Under(P, k))
  BY <1>1, <1>2, FS_Subset
<1> QED
  BY <1>3, FS_CardinalityType

LEMMA UnderNone ==
    ASSUME NEW P \in SUBSET (Nat \ {0})
    PROVE  Cardinality(Under(P, 1)) = 0
<1>0. \A j \in P : j \in Nat /\ j # 0
  OBVIOUS
<1>1. \A j \in P : ~(j < 1)
  BY <1>0
<1>2. Under(P, 1) = {}
  BY <1>1 DEF Under
<1> QED
  BY <1>2, FS_EmptySet

LEMMA UnderNext ==
    ASSUME NEW P \in SUBSET (Nat \ {0}), NEW k \in Nat
    PROVE  Cardinality(Under(P, k + 1)) =
              IF k \in P THEN Cardinality(Under(P, k)) + 1 ELSE Cardinality(Under(P, k))
<1>0. \A j \in P : j \in Nat
  OBVIOUS
<1>1. IsFiniteSet(Under(P, k)) /\ k \notin Under(P, k)
  BY UnderFinite DEF Under
<1>2. CASE k \in P
  <2>1. Under(P, k + 1) = Under(P, k) \union {k}
    <3>1. \A j \in P : j < k + 1 <=> j < k \/ j = k
      BY <1>0
    <3> QED
      BY <3>1, <1>2 DEF Under
  <2> QED
    BY <1>1, <1>2, <2>1, FS_AddElement
<1>3. CASE k \notin P
  <2>1. Under(P, k + 1) = Under(P, k)
    <3>1. \A j \in P : j < k + 1 <=> j < k
      BY <1>0, <1>3
    <3> QED
      BY <3>1 DEF Under
  <2> QED
    BY <1>3, <2>1
<1> QED
  BY <1>2, <1>3

LEMMA UnderGrows ==
    ASSUME NEW P \in SUBSET (Nat \ {0}), NEW j \in Nat, NEW k \in Nat
    PROVE  /\ j <= k => Cardinality(Under(P, j)) <= Cardinality(Under(P, k))
           /\ j < k /\ j \in P => Cardinality(Under(P, j)) + 1 <= Cardinality(Under(P, k))
<1>1. ASSUME NEW i \in Nat, i <= k
      PROVE  Cardinality(Under(P, i)) <= Cardinality(Under(P, k))
  <2>0. \A j0 \in P : j0 \in Nat
    OBVIOUS
  <2>1. Under(P, i) \subseteq Under(P, k)
    <3>1. \A j0 \in P : j0 < i => j0 < k
      BY <1>1, <2>0
    <3> QED
      BY <3>1 DEF Under
  <2> QED
    BY <2>1, UnderFinite, FS_Subset
<1>2. ASSUME j < k, j \in P
      PROVE  Cardinality(Under(P, j)) + 1 <= Cardinality(Under(P, k))
  <2>1. j + 1 \in Nat /\ j + 1 <= k
    BY <1>2
  <2>2. Cardinality(Under(P, j + 1)) = Cardinality(Under(P, j)) + 1
    BY <1>2, UnderNext
  <2>3. Cardinality(Under(P, j + 1)) <= Cardinality(Under(P, k))
    BY <1>1, <2>1
  <2> QED
    BY <2>2, <2>3
<1> QED
  BY <1>1, <1>2

(* The n-th member is the one that has n members up to it. *)
LEMMA RankBijective ==
    ASSUME NEW P \in SUBSET Nat, IsFiniteSet(P), NEW rank,
           rank = [i \in P |-> Cardinality({j \in P : j <= i})]
    PROVE  /\ rank \in [P -> 1 .. Cardinality(P)]
           /\ \A i, k \in P : i < k => rank[i] < rank[k]
           /\ \A n \in 1 .. Cardinality(P) : \E i \in P : rank[i] = n
<1> DEFINE Upto(i) == {j \in P : j <= i}
<1>1. \A i \in P : /\ IsFiniteSet(Upto(i))
                   /\ Cardinality(Upto(i)) \in Nat
                   /\ Cardinality(Upto(i)) <= Cardinality(P)
  BY FS_Subset, FS_CardinalityType
<1>2. Cardinality(P) \in Nat
  BY FS_CardinalityType
<1>3. ASSUME NEW i \in P PROVE 1 <= Cardinality(Upto(i))
  <2>1. i \in Upto(i)
    OBVIOUS
  <2>2. Cardinality(Upto(i)) # 0
    BY <2>1, <1>1, FS_EmptySet
  <2> QED
    BY <2>2, <1>1
<1>4. rank \in [P -> 1 .. Cardinality(P)]
  BY <1>1, <1>2, <1>3
<1>5. ASSUME NEW i \in P, NEW k \in P, i < k
      PROVE  rank[i] < rank[k]
  <2>0. \A j \in P : j \in Nat
    OBVIOUS
  <2>1. Upto(i) \subseteq Upto(k) /\ k \in Upto(k) /\ k \notin Upto(i)
    <3>1. (\A j \in P : j <= i => j <= k) /\ k <= k /\ ~(k <= i)
      BY <1>5, <2>0
    <3> QED
      BY <3>1
  <2>2. Upto(i) \in SUBSET Upto(k) /\ Upto(i) # Upto(k)
    BY <2>1
  <2> HIDE DEF Upto
  <2>3. Cardinality(Upto(i)) <= Cardinality(Upto(k)) /\ Cardinality(Upto(i)) # Cardinality(Upto(k))
    BY <2>2, <1>1, FS_Subset
  <2>4. Cardinality(Upto(i)) < Cardinality(Upto(k))
    BY <2>3, <1>1
  <2> QED
    BY <2>4 DEF Upto
<1>6. \A i, k \in P : rank[i] = rank[k] => i = k
  <2>1. \A i, k \in P : i < k \/ k < i \/ i = k
    OBVIOUS
  <2>2. \A i \in P : rank[i] \in Nat
    BY <1>2, <1>4
  <2> QED
    BY <1>5, <2>1, <2>2
<1>7. rank \in Injection(P, 1 .. Cardinality(P))
  BY <1>4, <1>6 DEF Injection, IsInjective
<1>8. IsFiniteSet(1 .. Cardinality(P)) /\ Cardinality(1 .. Cardinality(P)) = Cardinality(P)
  BY <1>2, FS_Interval
<1>9. rank \in Surjection(P, 1 .. Cardinality(P))
  BY <1>7, <1>8, FS_Injection
<1> QED
  BY <1>4, <1>5, <1>9 DEF Surjection

(* An iteration that keeps the positions in P comes by each of them once,   *)
(* in ascending order: as unpack_function_parameters (utilities.rs) and the *)
(* operands of a call rely on.                                              *)
THEOREM InOrderEnumerates ==
    ASSUME NEW P \in SUBSET Nat, IsFiniteSet(P)
    PROVE  /\ Cardinality(P) \in Nat
           /\ InOrder(P) \in [1 .. Cardinality(P) -> P]
           /\ \A m, n \in 1 .. Cardinality(P) : m < n => InOrder(P)[m] < InOrder(P)[n]
           /\ \A m, n \in 1 .. Cardinality(P) : InOrder(P)[m] = InOrder(P)[n] => m = n
           /\ \A i \in P : \E n \in 1 .. Cardinality(P) : InOrder(P)[n] = i
<1>1. PICK rank : rank = [i \in P |-> Cardinality({j \in P : j <= i})]
  OBVIOUS
<1>2. PICK c : c = Cardinality(P)
  OBVIOUS
<1>3. /\ rank \in [P -> 1 .. c]
      /\ \A i, k \in P : i < k => rank[i] < rank[k]
      /\ \A n \in 1 .. c : \E i \in P : rank[i] = n
  BY <1>1, <1>2, RankBijective
<1>4. c \in Nat
  BY <1>2, FS_CardinalityType
<1>5. InOrder(P) = [n \in 1 .. c |-> CHOOSE i \in P : rank[i] = n]
  <2>1. \A i \in P : Cardinality({j \in P : j <= i}) = rank[i]
    BY <1>1
  <2>2. \A n : (CHOOSE i \in P : Cardinality({j \in P : j <= i}) = n)
                  = (CHOOSE i \in P : rank[i] = n)
    BY <2>1
  <2>3. InOrder(P) = [n \in 1 .. c |-> CHOOSE i \in P : Cardinality({j \in P : j <= i}) = n]
    BY <1>2 DEF InOrder
  <2> QED
    BY <2>2, <2>3, Zenon
<1>6. \A n \in 1 .. c : InOrder(P)[n] \in P /\ rank[InOrder(P)[n]] = n
  BY <1>3, <1>5
<1>7. InOrder(P) \in [1 .. c -> P]
  BY <1>5, <1>6
<1>8. \A i, k \in P : rank[i] = rank[k] => i = k
  <2>1. \A i, k \in P : i < k \/ k < i \/ i = k
    OBVIOUS
  <2>2. \A i \in P : rank[i] \in Nat
    BY <1>3, <1>4
  <2> QED
    BY <1>3, <2>1, <2>2
<1>9. ASSUME NEW i \in P PROVE \E n \in 1 .. c : InOrder(P)[n] = i
  <2>1. rank[i] \in 1 .. c
    BY <1>3
  <2>2. InOrder(P)[rank[i]] = i
    BY <2>1, <1>6, <1>8
  <2> QED
    BY <2>1, <2>2
<1>10. ASSUME NEW m \in 1 .. c, NEW n \in 1 .. c, m < n
       PROVE  InOrder(P)[m] < InOrder(P)[n]
  <2>1. PICK i \in P : i = InOrder(P)[m] /\ rank[i] = m
    BY <1>6
  <2>2. PICK k \in P : k = InOrder(P)[n] /\ rank[k] = n
    BY <1>6
  <2>3. i < k \/ k < i \/ i = k
    OBVIOUS
  <2>4. ~(k < i) /\ i # k
    BY <2>1, <2>2, <1>3, <1>4, <1>10
  <2> QED
    BY <2>1, <2>2, <2>3, <2>4
<1>11. \A m, n \in 1 .. c : InOrder(P)[m] = InOrder(P)[n] => m = n
  BY <1>6
<1> QED
  BY <1>2, <1>4, <1>7, <1>9, <1>10, <1>11

(* A member comes behind those below it. *)
LEMMA InOrderFinds ==
    ASSUME NEW P \in SUBSET (Nat \ {0}), IsFiniteSet(P), NEW k \in P
    PROVE  /\ Cardinality(Under(P, k)) \in Nat
           /\ Cardinality(Under(P, k)) + 1 \in 1 .. Cardinality(P)
           /\ InOrder(P)[Cardinality(Under(P, k)) + 1] = k
<1>0. P \in SUBSET Nat /\ k \in Nat /\ k # 0
  OBVIOUS
<1>1. PICK rank : rank = [i \in P |-> Cardinality({j \in P : j <= i})]
  OBVIOUS
<1>2. PICK c : c = Cardinality(P)
  OBVIOUS
<1>3. /\ rank \in [P -> 1 .. c]
      /\ \A i, l \in P : i < l => rank[i] < rank[l]
  BY <1>0, <1>1, <1>2, RankBijective
<1>4. rank[k] = Cardinality(Under(P, k)) + 1
  <2>1. \A j \in P : j <= k <=> j < k + 1
    BY <1>0
  <2>2. {j \in P : j <= k} = Under(P, k + 1)
    BY <2>1 DEF Under
  <2> QED
    BY <2>2, <1>0, <1>1, UnderNext
<1>5. Cardinality(Under(P, k)) \in Nat
  BY <1>0, UnderFinite
<1>6. InOrder(P)[rank[k]] = k
  <2>1. rank[k] \in 1 .. c
    BY <1>3
  <2>2. InOrder(P)[rank[k]] = CHOOSE i \in P : Cardinality({j \in P : j <= i}) = rank[k]
    BY <2>1, <1>2 DEF InOrder
  <2>3. \A i \in P : Cardinality({j \in P : j <= i}) = rank[i]
    BY <1>1
  <2>4. \A i \in P : rank[i] = rank[k] => i = k
    <3>1. ASSUME NEW i \in P, rank[i] = rank[k] PROVE i = k
      <4>1. i < k \/ k < i \/ i = k
        BY <1>0
      <4>2. c \in Nat /\ rank[i] \in Nat /\ rank[k] \in Nat
        BY <1>2, <1>3, FS_CardinalityType
      <4> QED
        BY <3>1, <4>1, <4>2, <1>3
    <3> QED
      BY <3>1
  <2>5. (CHOOSE i \in P : Cardinality({j \in P : j <= i}) = rank[k]) = k
    BY <2>3, <2>4
  <2> QED
    BY <2>2, <2>5
<1> QED
  BY <1>2, <1>3, <1>4, <1>5, <1>6

(* Another member above all comes last. *)
LEMMA InOrderMore ==
    ASSUME NEW n \in Nat, NEW P \in SUBSET (1 .. n)
    PROVE  LET Q == P \union {n + 1}
               c == Cardinality(P)
           IN  /\ c \in Nat /\ c <= n /\ IsFiniteSet(P) /\ Cardinality(Q) = c + 1
               /\ InOrder(P) \in [1 .. c -> P]
               /\ \A k \in 1 .. c : InOrder(Q)[k] = InOrder(P)[k]
               /\ InOrder(Q)[c + 1] = n + 1
<1>1. PICK Q : Q = P \union {n + 1}
  OBVIOUS
<1>2. IsFiniteSet(1 .. n) /\ Cardinality(1 .. n) = n
  BY FS_Interval
<1>3. IsFiniteSet(P) /\ Cardinality(P) \in Nat /\ Cardinality(P) <= n
  BY <1>2, FS_Subset, FS_CardinalityType
<1>4. PICK c \in Nat : c = Cardinality(P)
  BY <1>3
<1>5. n + 1 \notin P /\ P \in SUBSET Nat /\ P \in SUBSET (Nat \ {0}) /\ Q \in SUBSET (Nat \ {0})
  <2>1. \A i \in 1 .. n : i \in Nat /\ i # 0 /\ i # n + 1 /\ i < n + 1
    OBVIOUS
  <2> QED
    BY <2>1, <1>1
<1>6. IsFiniteSet(Q) /\ Cardinality(Q) = c + 1
  BY <1>1, <1>3, <1>4, <1>5, FS_AddElement
<1>7. /\ InOrder(P) \in [1 .. c -> P]
      /\ \A k, l \in 1 .. c : InOrder(P)[k] = InOrder(P)[l] => k = l
  BY <1>3, <1>4, <1>5, InOrderEnumerates
<1>8. ASSUME NEW k \in 1 .. c PROVE InOrder(Q)[k] = InOrder(P)[k]
  <2>1. PICK i \in P : i = InOrder(P)[k]
    BY <1>7
  <2>2. /\ Cardinality(Under(P, i)) + 1 \in 1 .. c
        /\ InOrder(P)[Cardinality(Under(P, i)) + 1] = i
    BY <1>3, <1>4, <1>5, InOrderFinds
  <2>3. Cardinality(Under(P, i)) + 1 = k
    BY <2>1, <2>2, <1>7
  <2>4. Under(Q, i) = Under(P, i)
    <3>1. ~(n + 1 < i)
      OBVIOUS
    <3> QED
      BY <3>1, <1>1 DEF Under
  <2>5. InOrder(Q)[Cardinality(Under(Q, i)) + 1] = i
    BY <1>1, <1>5, <1>6, InOrderFinds
  <2> QED
    BY <2>1, <2>3, <2>4, <2>5
<1>9. InOrder(Q)[c + 1] = n + 1
  <2>1. Under(Q, n + 1) = P
    <3>1. (\A i \in P : i < n + 1) /\ ~(n + 1 < n + 1)
      OBVIOUS
    <3> QED
      BY <3>1, <1>1 DEF Under
  <2>2. InOrder(Q)[Cardinality(Under(Q, n + 1)) + 1] = n + 1
    BY <1>1, <1>5, <1>6, InOrderFinds
  <2> QED
    BY <2>1, <2>2, <1>4
<1> QED
  BY <1>1, <1>3, <1>4, <1>6, <1>7, <1>8, <1>9

-----------------------------------------------------------------------------
(* Sequences used as stacks. *)

LEMMA BelowTop ==
    ASSUME NEW S, NEW s \in Seq(S), s # <<>>
    PROVE  LET t == SubSeq(s, 1, Len(s) - 1)
           IN  /\ t \in Seq(S)
               /\ Len(s) \in Nat \ {0}
               /\ Len(t) = Len(s) - 1
               /\ \A i \in 1 .. Len(s) - 1 : t[i] = s[i]
               /\ s[Len(s)] \in S
<1>1. Len(s) \in Nat \ {0} /\ DOMAIN s = 1 .. Len(s) /\ \A i \in 1 .. Len(s) : s[i] \in S
  BY LenProperties, EmptySeq
<1>2. \A i \in 1 .. Len(s) - 1 : s[i] \in S
  BY <1>1
<1> QED
  BY <1>1, <1>2, SubSeqProperties

LEMMA TopReplaced ==
    ASSUME NEW S, NEW s \in Seq(S), s # <<>>, NEW e \in S,
           NEW t, t = Append(SubSeq(s, 1, Len(s) - 1), e)
    PROVE  /\ t \in Seq(S) /\ t # <<>>
           /\ Len(t) = Len(s)
           /\ DOMAIN t = 1 .. Len(s)
           /\ \A i \in 1 .. Len(s) - 1 : t[i] = s[i]
           /\ t[Len(s)] = e
<1> DEFINE b == SubSeq(s, 1, Len(s) - 1)
<1>1. /\ b \in Seq(S) /\ Len(s) \in Nat \ {0} /\ Len(b) = Len(s) - 1
      /\ \A i \in 1 .. Len(s) - 1 : b[i] = s[i]
  BY BelowTop
<1>2. t = Append(b, e)
  OBVIOUS
<1> HIDE DEF b
<1>3. /\ t \in Seq(S) /\ Len(t) = Len(b) + 1
      /\ \A i \in 1 .. Len(b) : t[i] = b[i]
      /\ t[Len(b) + 1] = e
  BY <1>1, <1>2, AppendProperties
<1>4. DOMAIN t = 1 .. Len(s) /\ t # <<>>
  BY <1>1, <1>3, LenProperties, EmptySeq
<1> QED
  BY <1>1, <1>3, <1>4

LEMMA OnePushed ==
    ASSUME NEW S, NEW s \in Seq(S), NEW e \in S
    PROVE  /\ Append(s, e) \in Seq(S)
           /\ Len(s) \in Nat
           /\ Len(Append(s, e)) = Len(s) + 1
           /\ DOMAIN Append(s, e) = 1 .. Len(s) + 1
           /\ \A i \in 1 .. Len(s) : Append(s, e)[i] = s[i]
           /\ Append(s, e)[Len(s) + 1] = e
           /\ Append(s, e) # <<>>
<1>1. /\ Append(s, e) \in Seq(S) /\ Len(s) \in Nat /\ Len(Append(s, e)) = Len(s) + 1
      /\ \A i \in 1 .. Len(s) : Append(s, e)[i] = s[i]
      /\ Append(s, e)[Len(s) + 1] = e
  BY AppendProperties, LenProperties
<1>2. DOMAIN Append(s, e) = 1 .. Len(s) + 1
  BY <1>1, LenProperties
<1>3. Append(s, e) # <<>>
  BY <1>1, EmptySeq
<1> QED
  BY <1>1, <1>2, <1>3

-----------------------------------------------------------------------------
(* Sequences of anything, known by what is at each of their n positions.    *)

Listed(s, n) == n \in Nat /\ s = [i \in 1 .. n |-> s[i]]

Agree(t, s, n) == \A i \in 1 .. n : t[i] = s[i]

EndsWith(t, n, e) == t[n] = e

LEMMA ListedIs ==
    ASSUME NEW s, NEW n, Listed(s, n)
    PROVE  n \in Nat /\ Len(s) = n /\ DOMAIN s = 1 .. n
<1> DEFINE S == {s[i] : i \in 1 .. n}
<1>1. n \in Nat /\ s \in [1 .. n -> S]
  BY DEF Listed
<1> QED
  BY <1>1

LEMMA ListedSeq ==
    ASSUME NEW S, NEW s \in Seq(S)
    PROVE  Listed(s, Len(s))
<1>1. Len(s) \in Nat /\ s \in [1 .. Len(s) -> S]
  BY LenProperties
<1>2. s = [i \in 1 .. Len(s) |-> s[i]]
  BY <1>1
<1> QED
  BY <1>1, <1>2 DEF Listed

LEMMA ListedAppend ==
    ASSUME NEW s, NEW n, Listed(s, n), NEW e
    PROVE  /\ Listed(Append(s, e), n + 1)
           /\ Append(s, e) # <<>>
           /\ Agree(Append(s, e), s, n)
           /\ EndsWith(Append(s, e), n + 1, e)
<1>0. PICK t : t = Append(s, e)
  OBVIOUS
<1> DEFINE S == {s[i] : i \in 1 .. n} \union {e}
<1>1. n \in Nat /\ s \in [1 .. n -> S] /\ e \in S
  BY DEF Listed
<1> HIDE DEF S
<1>2. s \in Seq(S) /\ Len(s) = n
  BY <1>1
<1>3. /\ t \in Seq(S) /\ Len(t) = n + 1
      /\ \A i \in 1 .. n : t[i] = s[i]
      /\ t[n + 1] = e
  BY <1>0, <1>1, <1>2, AppendProperties
<1>4. Listed(t, n + 1)
  BY <1>3, ListedSeq
<1>5. t # <<>>
  BY <1>1, <1>3, EmptySeq
<1> QED
  BY <1>0, <1>3, <1>4, <1>5 DEF Agree, EndsWith

LEMMA ListedWith ==
    ASSUME NEW s, NEW n, Listed(s, n), NEW e
    PROVE  \E S : s \in Seq(S) /\ e \in S
<1> DEFINE S == {s[i] : i \in 1 .. n} \union {e}
<1>1. n \in Nat /\ s \in [1 .. n -> S] /\ e \in S
  BY DEF Listed
<1> HIDE DEF S
<1>2. s \in Seq(S)
  BY <1>1
<1> QED
  BY <1>1, <1>2

LEMMA ListedConcat ==
    ASSUME NEW s, NEW n, Listed(s, n), NEW e
    PROVE  s \o <<>> = s /\ s \o <<e>> = Append(s, e)
<1> DEFINE S == {s[i] : i \in 1 .. n} \union {e}
<1>1. n \in Nat /\ s \in [1 .. n -> S] /\ e \in S
  BY DEF Listed
<1> HIDE DEF S
<1>2. s \in Seq(S)
  BY <1>1
<1>3. s \o <<>> = s
  BY <1>2, ConcatEmptySeq
<1>4. s \o <<e>> = Append(s, e)
  BY <1>1, <1>2, AppendIsConcat
<1> QED
  BY <1>3, <1>4

LEMMA ListedEqual ==
    ASSUME NEW s, NEW t, NEW n, Listed(s, n), Listed(t, n), Agree(t, s, n)
    PROVE  t = s
BY DEF Listed, Agree

(* What is picked from a list that has grown by an element. *)
PicksAlike(t, s, P)      == Picked(t, P) = Picked(s, P)
PicksMore(t, s, P, n, e) == Picked(t, P \union {n}) = Append(Picked(s, P), e)

LEMMA PickedGrows ==
    ASSUME NEW s, NEW n, Listed(s, n), NEW e, NEW P \in SUBSET (1 .. n)
    PROVE  /\ Listed(Picked(s, P), Cardinality(P)) /\ Cardinality(P) <= n
           /\ PicksAlike(Append(s, e), s, P)
           /\ PicksMore(Append(s, e), s, P, n + 1, e)
<1>0. n \in Nat
  BY DEF Listed
<1>1. PICK Q, t, c : Q = P \union {n + 1} /\ t = Append(s, e) /\ c = Cardinality(P)
  OBVIOUS
<1>2. /\ c \in Nat /\ c <= n /\ Cardinality(Q) = c + 1
      /\ InOrder(P) \in [1 .. c -> P]
      /\ \A k \in 1 .. c : InOrder(Q)[k] = InOrder(P)[k]
      /\ InOrder(Q)[c + 1] = n + 1
  BY <1>0, <1>1, InOrderMore
<1>3. DOMAIN InOrder(Q) = 1 .. c + 1 /\ DOMAIN InOrder(P) = 1 .. c
  BY <1>2 DEF InOrder
<1>4. Agree(t, s, n) /\ t[n + 1] = e
  BY <1>1, ListedAppend DEF EndsWith
<1>5. Picked(s, P) = [k \in 1 .. c |-> s[InOrder(P)[k]]]
  BY <1>3 DEF Picked
<1>6. Listed(Picked(s, P), c)
  BY <1>2, <1>5 DEF Listed
<1>7. Picked(t, P) = Picked(s, P)
  <2>1. \A k \in 1 .. c : t[InOrder(P)[k]] = s[InOrder(P)[k]]
    BY <1>2, <1>4 DEF Agree
  <2>2. Picked(t, P) = [k \in 1 .. c |-> t[InOrder(P)[k]]]
    BY <1>3 DEF Picked
  <2> QED
    BY <2>1, <2>2, <1>5
<1>8. Picked(t, Q) = Append(Picked(s, P), e)
  <2>1. Picked(t, Q) = [k \in 1 .. c + 1 |-> t[InOrder(Q)[k]]]
    BY <1>3 DEF Picked
  <2>2. Listed(Picked(t, Q), c + 1)
    BY <2>1, <1>2 DEF Listed
  <2>3. /\ Listed(Append(Picked(s, P), e), c + 1)
        /\ Agree(Append(Picked(s, P), e), Picked(s, P), c)
        /\ Append(Picked(s, P), e)[c + 1] = e
    <3>1. PICK u : u = Picked(s, P)
      OBVIOUS
    <3>2. Listed(u, c)
      BY <1>6, <3>1
    <3>3. /\ Listed(Append(u, e), c + 1)
          /\ Agree(Append(u, e), u, c)
          /\ EndsWith(Append(u, e), c + 1, e)
      BY <3>2, ListedAppend
    <3> QED
      BY <3>1, <3>3 DEF EndsWith
  <2>4. ASSUME NEW k \in 1 .. c + 1
        PROVE  Picked(t, Q)[k] = Append(Picked(s, P), e)[k]
    <3>1. CASE k = c + 1
      BY <3>1, <2>1, <2>3, <1>2, <1>4
    <3>2. CASE k # c + 1
      <4>1. k \in 1 .. c
        BY <3>2, <1>2
      <4>2. Picked(t, Q)[k] = t[InOrder(P)[k]]
        BY <4>1, <2>1, <1>2
      <4>3. InOrder(P)[k] \in 1 .. n
        BY <4>1, <1>2
      <4>4. t[InOrder(P)[k]] = s[InOrder(P)[k]]
        BY <4>3, <1>4 DEF Agree
      <4>5. Append(Picked(s, P), e)[k] = s[InOrder(P)[k]]
        BY <4>1, <2>3, <1>5 DEF Agree
      <4> QED
        BY <4>2, <4>4, <4>5
    <3> QED
      BY <3>1, <3>2
  <2> QED
    BY <2>2, <2>3, <2>4, ListedEqual DEF Agree
<1> QED
  BY <1>1, <1>2, <1>6, <1>7, <1>8 DEF PicksAlike, PicksMore
=============================================================================
