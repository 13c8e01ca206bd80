---------------------------- MODULE ListingProofs ---------------------------
(***************************************************************************)
(* The properties of Listing, for any number of storages, file storages    *)
(* and backups and any page sizes.                                         *)
(*                                                                         *)
(* Offsets are sound because of the order in which the API lists: an entry *)
(* that appears moves others to a later offset, never to an earlier one,   *)
(* and one that disappears to an earlier one.  So what is before the token *)
(* was listed as long as nothing disappears, and what is behind it was not *)
(* as long as nothing appears.                                             *)
(***************************************************************************)
EXTENDS Listing, SequenceTheorems, FiniteSetTheorems, TLAPS

-----------------------------------------------------------------------------
(***************************************************************************)
(* What the API lists.                                                     *)
(***************************************************************************)

\* Places are counted.
LEMMA PlacesFinite ==
  ASSUME NEW P \in SUBSET DOMAIN Order
  PROVE  /\ IsFiniteSet(P) /\ P \subseteq Nat
         /\ Cardinality(P) \in Nat /\ Cardinality(P) <= Len(Order)
<1>1. DOMAIN Order = 1 .. Len(Order) /\ Len(Order) \in Nat
  BY ListingAssumption
<1>2. IsFiniteSet(1 .. Len(Order)) /\ Cardinality(1 .. Len(Order)) = Len(Order)
  BY <1>1, FS_Interval
<1> QED BY <1>1, <1>2, FS_Subset, FS_CardinalityType

\* The rank of a place is its number, counted from 1.
LEMMA RankIsNumber ==
  ASSUME NEW P \in SUBSET DOMAIN Order, NEW i \in P
  PROVE  Rank(i, P) \in 1 .. Cardinality(P)
<1> DEFINE U == {j \in P : j <= i}
<1>1. IsFiniteSet(P) /\ P \subseteq Nat /\ Cardinality(P) \in Nat
  BY PlacesFinite
<1>2. IsFiniteSet(U) /\ Cardinality(U) <= Cardinality(P) /\ Cardinality(U) \in Nat
  BY <1>1, FS_Subset, FS_CardinalityType
<1>3. i \in U
  BY <1>1
<1>4. Cardinality(U) # 0
  BY <1>2, <1>3, FS_EmptySet
<1> QED BY <1>1, <1>2, <1>4 DEF Rank

\* Later places have a greater rank.
LEMMA RankIncreases ==
  ASSUME NEW P \in SUBSET DOMAIN Order, NEW i \in P, NEW j \in P, i < j
  PROVE  Rank(i, P) < Rank(j, P)
<1> DEFINE U == {k \in P : k <= i}
           V == {k \in P : k <= j}
<1>1. IsFiniteSet(P) /\ P \subseteq Nat
  BY PlacesFinite
<1>2. IsFiniteSet(U) /\ IsFiniteSet(V) /\ Cardinality(U) \in Nat /\ Cardinality(V) \in Nat
  BY <1>1, FS_Subset, FS_CardinalityType
<1>3. U \in SUBSET V
  BY <1>1
<1>4. U # V
  BY <1>1
<1>5. Cardinality(U) <= Cardinality(V) /\ Cardinality(U) # Cardinality(V)
  BY <1>2, <1>3, <1>4, FS_Subset
<1> QED BY <1>2, <1>5 DEF Rank

\* Among more places a place has no lower rank.
LEMMA RankGrows ==
  ASSUME NEW Q \in SUBSET DOMAIN Order, NEW P \in SUBSET Q, NEW i \in P
  PROVE  Rank(i, P) <= Rank(i, Q)
<1> DEFINE U == {k \in P : k <= i}
           V == {k \in Q : k <= i}
<1>1. IsFiniteSet(Q)
  BY PlacesFinite
<1>2. IsFiniteSet(V) /\ U \in SUBSET V
  BY <1>1, FS_Subset
<1>3. Cardinality(U) <= Cardinality(V)
  BY <1>2, FS_Subset
<1> QED BY <1>3 DEF Rank

\* Every number is the rank of a place.
LEMMA RankOnto ==
  ASSUME NEW P \in SUBSET DOMAIN Order, NEW k \in 1 .. Cardinality(P)
  PROVE  \E i \in P : Rank(i, P) = k
<1> DEFINE n == Cardinality(P)
           f == [i \in P |-> Rank(i, P)]
<1>1. IsFiniteSet(P) /\ P \subseteq Nat /\ n \in Nat
  BY PlacesFinite
<1>2. \A i \in P : Rank(i, P) \in 1 .. n
  BY RankIsNumber
<1>3. ASSUME NEW i \in P, NEW j \in P, f[i] = f[j] PROVE i = j
  <2>1. Rank(i, P) = Rank(j, P)
    BY <1>3
  <2>2. Rank(i, P) \in Nat /\ i \in Nat /\ j \in Nat
    BY <1>1, <1>2
  <2>3. ~ i < j
    BY <2>1, <2>2, RankIncreases
  <2>4. ~ j < i
    BY <2>1, <2>2, RankIncreases
  <2> QED BY <2>2, <2>3, <2>4
<1>4. f \in [P -> 1 .. n]
  BY <1>2
<1>5. f \in Injection(P, 1 .. n)
  BY <1>3, <1>4 DEF Injection, IsInjective
<1>6. IsFiniteSet(1 .. n) /\ Cardinality(1 .. n) = n
  BY <1>1, FS_Interval
<1>7. f \in Surjection(P, 1 .. n)
  BY <1>5, <1>6, FS_Injection
<1> QED BY <1>7 DEF Surjection

\* InOrder(T) has the entries of T, each at its rank.
LEMMA InOrderIs ==
  ASSUME NEW T \in SUBSET Entries
  PROVE  /\ InOrder(T) \in Seq(T)
         /\ Len(InOrder(T)) = Cardinality(Places(T))
         /\ \A k \in 1 .. Len(InOrder(T)) :
               \E i \in Places(T) : Rank(i, Places(T)) = k /\ InOrder(T)[k] = Order[i]
         /\ \A i \in Places(T) : /\ Rank(i, Places(T)) \in 1 .. Len(InOrder(T))
                                 /\ InOrder(T)[Rank(i, Places(T))] = Order[i]
<1> DEFINE P == Places(T)
           n == Cardinality(P)
           At(k) == CHOOSE i \in P : Rank(i, P) = k
<1>1. P \in SUBSET DOMAIN Order
  BY DEF Places
<1>2. n \in Nat /\ P \subseteq Nat
  BY <1>1, PlacesFinite
<1>3. \A k \in 1 .. n : At(k) \in P /\ Rank(At(k), P) = k
  BY <1>1, RankOnto
<1>4. \A i \in P : Rank(i, P) \in 1 .. n
  BY <1>1, RankIsNumber
<1>5. ASSUME NEW i \in P PROVE At(Rank(i, P)) = i
  <2> DEFINE j == At(Rank(i, P))
  <2>1. j \in P /\ Rank(j, P) = Rank(i, P)
    BY <1>3, <1>4
  <2>2. ~ i < j /\ ~ j < i
    BY <1>1, <1>2, <1>4, <2>1, RankIncreases
  <2> HIDE DEF j
  <2>3. j = i
    BY <1>2, <2>1, <2>2
  <2> QED BY <2>3 DEF j
<1>6. \A i \in P : Order[i] \in T
  BY DEF Places
<1> HIDE DEF P
<1>7. InOrder(T) = [k \in 1 .. n |-> Order[At(k)]]
  BY DEF InOrder, P
<1> HIDE DEF At
<1>8. InOrder(T) \in Seq(T) /\ Len(InOrder(T)) = n
  <2>1. InOrder(T) \in [1 .. n -> T]
    BY <1>3, <1>6, <1>7
  <2>2. InOrder(T) \in Seq(T)
    BY <1>2, <2>1, SeqDef
  <2> QED BY <1>2, <2>1, <2>2, LenProperties
<1>9. \A k \in 1 .. n : At(k) \in P /\ Rank(At(k), P) = k /\ InOrder(T)[k] = Order[At(k)]
  BY <1>3, <1>7
<1>10. \A i \in P : InOrder(T)[Rank(i, P)] = Order[i]
  BY <1>4, <1>5, <1>7
<1> QED BY <1>4, <1>8, <1>9, <1>10 DEF P

\* The entries of a list.
LEMMA InList ==
  ASSUME NEW S, NEW s \in Seq(S)
  PROVE  /\ DOMAIN s = 1 .. Len(s) /\ Len(s) \in Nat
         /\ \A k \in 1 .. Len(s) : s[k] \in ToSet(s) /\ s[k] \in S
         /\ \A u \in ToSet(s) : \E k \in 1 .. Len(s) : s[k] = u
         /\ ToSet(s) \subseteq S
  BY LenProperties, ElementOfSeq DEF ToSet

LEMMA Member ==
  ASSUME NEW S, NEW s \in Seq(S), NEW k \in 1 .. Len(s)
  PROVE  s[k] \in ToSet(s)
  BY InList

\* One list after the other.
LEMMA Concat ==
  ASSUME NEW S, NEW s \in Seq(S), NEW t \in Seq(S)
  PROVE  /\ s \o t \in Seq(S)
         /\ Len(s \o t) = Len(s) + Len(t)
         /\ \A k \in 1 .. Len(s) : (s \o t)[k] = s[k]
         /\ \A k \in 1 .. Len(t) : (s \o t)[Len(s) + k] = t[k]
         /\ \A k \in 1 .. Len(s) + Len(t) :
               k \in 1 .. Len(s) \/ \E l \in 1 .. Len(t) : k = Len(s) + l
         /\ ToSet(s \o t) = ToSet(s) \union ToSet(t)
<1> DEFINE c == s \o t
<1>1. /\ c \in Seq(S) /\ Len(c) = Len(s) + Len(t)
      /\ \A i \in 1 .. Len(s) + Len(t) : c[i] = IF i <= Len(s) THEN s[i] ELSE t[i - Len(s)]
  BY ConcatProperties
<1>2. Len(s) \in Nat /\ Len(t) \in Nat
  BY LenProperties
<1> HIDE DEF c
<1>3. \A k \in 1 .. Len(s) : c[k] = s[k]
  BY <1>1, <1>2
<1>4. ASSUME NEW k \in 1 .. Len(t) PROVE c[Len(s) + k] = t[k] /\ Len(s) + k \in 1 .. Len(c)
  <2>1. Len(s) + k \in 1 .. Len(s) + Len(t) /\ ~ Len(s) + k <= Len(s) /\ (Len(s) + k) - Len(s) = k
    BY <1>2
  <2> QED BY <1>1, <2>1
<1>5. ASSUME NEW k \in 1 .. Len(s) + Len(t), k \notin 1 .. Len(s)
      PROVE  \E l \in 1 .. Len(t) : k = Len(s) + l
  <2>1. k - Len(s) \in 1 .. Len(t) /\ k = Len(s) + (k - Len(s))
    BY <1>2, <1>5
  <2> QED BY <2>1
<1>6. ASSUME NEW u \in ToSet(c) PROVE u \in ToSet(s) \union ToSet(t)
  <2>1. PICK k \in 1 .. Len(s) + Len(t) : c[k] = u
    BY <1>1, <1>6, InList
  <2>2. CASE k \in 1 .. Len(s)
    BY <1>3, <2>1, <2>2, InList
  <2>3. CASE k \notin 1 .. Len(s)
    <3>1. PICK l \in 1 .. Len(t) : k = Len(s) + l
      BY <1>5, <2>3
    <3> QED BY <1>4, <2>1, <3>1, InList
  <2> QED BY <2>2, <2>3
<1>7. ASSUME NEW u \in ToSet(s) PROVE u \in ToSet(c)
  <2>1. PICK k \in 1 .. Len(s) : s[k] = u
    BY InList
  <2>2. k \in 1 .. Len(c)
    BY <1>1, <1>2
  <2> QED BY <1>1, <1>3, <2>1, <2>2, InList
<1>8. ASSUME NEW u \in ToSet(t) PROVE u \in ToSet(c)
  <2>1. PICK k \in 1 .. Len(t) : t[k] = u
    BY InList
  <2> QED BY <1>1, <1>4, <2>1, InList
<1>9. ToSet(c) = ToSet(s) \union ToSet(t)
  BY <1>6, <1>7, <1>8
<1> QED BY <1>1, <1>3, <1>4, <1>5, <1>9 DEF c

\* It has each of them, once.
LEMMA InOrderLists ==
  ASSUME NEW T \in SUBSET Entries
  PROVE  /\ InOrder(T) \in Seq(T)
         /\ ToSet(InOrder(T)) = T
         /\ IsInjective(InOrder(T))
<1> DEFINE s == InOrder(T)
           P == Places(T)
<1>1. /\ s \in Seq(T)
      /\ \A k \in 1 .. Len(s) : \E i \in P : Rank(i, P) = k /\ s[k] = Order[i]
      /\ \A i \in P : Rank(i, P) \in 1 .. Len(s) /\ s[Rank(i, P)] = Order[i]
  BY InOrderIs
<1>2. \A u \in T : \E i \in P : Order[i] = u
  BY ListingAssumption DEF ToSet, Places
<1>3. P \subseteq DOMAIN Order /\ (\A i, j \in DOMAIN Order : Order[i] = Order[j] => i = j)
  BY ListingAssumption DEF Places
<1> HIDE DEF s, P
<1>4. DOMAIN s = 1 .. Len(s)
  BY <1>1
<1>5. ToSet(s) = T
  BY <1>1, <1>2, <1>4 DEF ToSet
<1>6. \A k, l \in DOMAIN s : s[k] = s[l] => k = l
  BY <1>1, <1>3, <1>4
<1> QED BY <1>1, <1>5, <1>6 DEF s, IsInjective

\* The list s has a part of the list t, and no entry of it at a later place.
Within(s, t) ==
    /\ Len(s) <= Len(t)
    /\ ToSet(s) \subseteq ToSet(t)
    /\ \A k \in 1 .. Len(t) :
          t[k] \in ToSet(s) => \E j \in 1 .. Len(s) : j <= k /\ s[j] = t[k]

\* A list from which entries are gone is within the list with them.
LEMMA InOrderWithin ==
  ASSUME NEW T \in SUBSET Entries, NEW S \in SUBSET T
  PROVE  Within(InOrder(S), InOrder(T))
<1> DEFINE s == InOrder(S)
           t == InOrder(T)
           P == Places(S)
           Q == Places(T)
<1>1. /\ s \in Seq(S) /\ Len(s) = Cardinality(P) /\ ToSet(s) = S
      /\ t \in Seq(T) /\ Len(t) = Cardinality(Q) /\ ToSet(t) = T
  BY InOrderIs, InOrderLists
<1>2. \A i \in P : Rank(i, P) \in 1 .. Len(s) /\ s[Rank(i, P)] = Order[i]
  BY InOrderIs
<1>3. \A k \in 1 .. Len(t) : \E i \in Q : Rank(i, Q) = k /\ t[k] = Order[i]
  BY InOrderIs
<1>4. Q \in SUBSET DOMAIN Order /\ P \in SUBSET Q
  BY DEF Places
<1>5. \A i \in Q : Order[i] \in S => i \in P
  BY DEF Places
<1>6. \A i \in P : Rank(i, P) <= Rank(i, Q)
  BY <1>4, RankGrows
<1>7. Cardinality(P) <= Cardinality(Q)
  BY <1>4, PlacesFinite, FS_Subset
<1> HIDE DEF s, t, P, Q
<1>8. ASSUME NEW k \in 1 .. Len(t), t[k] \in ToSet(s)
      PROVE  \E j \in 1 .. Len(s) : j <= k /\ s[j] = t[k]
  <2>1. PICK i \in Q : Rank(i, Q) = k /\ t[k] = Order[i]
    BY <1>3
  <2>2. i \in P
    BY <1>1, <1>5, <1>8, <2>1
  <2> QED BY <1>2, <1>6, <2>1, <2>2
<1> QED BY <1>1, <1>7, <1>8 DEF Within, s, t

\* So it is for the two lists that a page of ListVolumes is cut out of.
LEMMA ConcatWithin ==
  ASSUME NEW s1 \in Seq(Blocks), NEW t1 \in Seq(Blocks), Within(s1, t1),
         NEW s2 \in Seq(Files), NEW t2 \in Seq(Files), Within(s2, t2)
  PROVE  Within(s1 \o s2, t1 \o t2)
<1> DEFINE s == s1 \o s2
           t == t1 \o t2
<1>1. Blocks \intersect Files = {}
  BY ListingAssumption
<1>2. /\ s1 \in Seq(Entries) /\ t1 \in Seq(Entries) /\ s2 \in Seq(Entries) /\ t2 \in Seq(Entries)
  BY SeqMonotonic DEF Entries
<1>3. /\ Len(s) = Len(s1) + Len(s2) /\ Len(s1) \in Nat /\ Len(s2) \in Nat
      /\ \A k \in 1 .. Len(s1) : s[k] = s1[k]
      /\ \A k \in 1 .. Len(s2) : s[Len(s1) + k] = s2[k]
      /\ ToSet(s) = ToSet(s1) \union ToSet(s2)
      /\ ToSet(s1) \subseteq Blocks /\ ToSet(s2) \subseteq Files
  BY <1>2, Concat, InList
<1>4. /\ Len(t) = Len(t1) + Len(t2) /\ Len(t1) \in Nat /\ Len(t2) \in Nat
      /\ \A k \in 1 .. Len(t1) : t[k] = t1[k] /\ t1[k] \in Blocks
      /\ \A k \in 1 .. Len(t2) : t[Len(t1) + k] = t2[k] /\ t2[k] \in Files
      /\ ToSet(t) = ToSet(t1) \union ToSet(t2)
      /\ \A k \in 1 .. Len(t) :
            k \in 1 .. Len(t1) \/ \E l \in 1 .. Len(t2) : k = Len(t1) + l
  BY <1>2, Concat, InList
<1> HIDE DEF s, t
<1>5. Len(s) <= Len(t) /\ Len(s1) <= Len(t1) /\ ToSet(s) \subseteq ToSet(t)
  BY <1>3, <1>4 DEF Within
<1>6. ASSUME NEW k \in 1 .. Len(t), t[k] \in ToSet(s)
      PROVE  \E j \in 1 .. Len(s) : j <= k /\ s[j] = t[k]
  <2>1. CASE k \in 1 .. Len(t1)
    <3>1. t1[k] = t[k] /\ t1[k] \in Blocks
      BY <1>4, <2>1
    <3>2. t[k] \notin ToSet(s2)
      BY <1>1, <1>3, <3>1, Zenon
    <3>3. t1[k] \in ToSet(s1)
      BY <1>3, <1>6, <3>1, <3>2, Zenon
    <3>4. PICK j \in 1 .. Len(s1) : j <= k /\ s1[j] = t1[k]
      BY <2>1, <3>3 DEF Within
    <3> QED BY <1>3, <3>1, <3>4
  <2>2. CASE k \notin 1 .. Len(t1)
    <3>1. PICK l \in 1 .. Len(t2) : k = Len(t1) + l
      BY <1>4, <2>2
    <3>2. t[k] = t2[l] /\ t2[l] \in ToSet(s2)
      BY <1>1, <1>3, <1>4, <1>6, <3>1
    <3>3. PICK j \in 1 .. Len(s2) : j <= l /\ s2[j] = t2[l]
      BY <3>2 DEF Within
    <3>4. Len(s1) + j \in 1 .. Len(s) /\ s[Len(s1) + j] = t[k] /\ Len(s1) + j <= k
      BY <1>3, <1>4, <1>5, <3>1, <3>2, <3>3
    <3> QED BY <3>4
  <2> QED BY <2>1, <2>2
<1> QED BY <1>5, <1>6 DEF Within, s, t

LEMMA WithinItself ==
  ASSUME NEW s \in Seq(Entries)
  PROVE  Within(s, s)
<1>1. Len(s) \in Nat
  BY LenProperties
<1> QED BY <1>1 DEF Within

\* Two lists without a common entry.
LEMMA ConcatInjective ==
  ASSUME NEW S, NEW s \in Seq(S), NEW t \in Seq(S), IsInjective(s), IsInjective(t),
         ToSet(s) \intersect ToSet(t) = {}
  PROVE  IsInjective(s \o t)
<1> DEFINE c == s \o t
<1>1. /\ DOMAIN c = 1 .. Len(s) + Len(t) /\ Len(s) \in Nat /\ Len(t) \in Nat
      /\ \A k \in 1 .. Len(s) : c[k] = s[k] /\ s[k] \in ToSet(s)
      /\ \A l \in 1 .. Len(t) : c[Len(s) + l] = t[l] /\ t[l] \in ToSet(t)
      /\ \A k \in 1 .. Len(s) + Len(t) :
            k \in 1 .. Len(s) \/ \E l \in 1 .. Len(t) : k = Len(s) + l
  BY Concat, InList
<1>2. /\ \A k, l \in 1 .. Len(s) : s[k] = s[l] => k = l
      /\ \A k, l \in 1 .. Len(t) : t[k] = t[l] => k = l
  BY InList DEF IsInjective
<1> HIDE DEF c
<1>3. ASSUME NEW i \in 1 .. Len(s), NEW l \in 1 .. Len(t) PROVE c[i] # c[Len(s) + l]
  BY <1>1
<1>4. ASSUME NEW i \in DOMAIN c, NEW j \in DOMAIN c, c[i] = c[j] PROVE i = j
  <2>1. CASE i \in 1 .. Len(s) /\ j \in 1 .. Len(s)
    BY <1>1, <1>2, <1>4, <2>1
  <2>2. CASE i \notin 1 .. Len(s) /\ j \notin 1 .. Len(s)
    <3>1. PICK k \in 1 .. Len(t) : i = Len(s) + k
      BY <1>1, <2>2
    <3>2. PICK l \in 1 .. Len(t) : j = Len(s) + l
      BY <1>1, <2>2
    <3>3. t[k] = t[l]
      BY <1>1, <1>4, <3>1, <3>2
    <3> QED BY <1>2, <3>1, <3>2, <3>3
  <2>3. CASE i \in 1 .. Len(s) /\ j \notin 1 .. Len(s)
    <3>1. PICK l \in 1 .. Len(t) : j = Len(s) + l
      BY <1>1, <2>3
    <3> QED BY <1>3, <1>4, <2>3, <3>1
  <2>4. CASE i \notin 1 .. Len(s) /\ j \in 1 .. Len(s)
    <3>1. PICK l \in 1 .. Len(t) : i = Len(s) + l
      BY <1>1, <2>4
    <3> QED BY <1>3, <1>4, <2>4, <3>1
  <2> QED BY <2>1, <2>2, <2>3, <2>4
<1> QED BY <1>4 DEF IsInjective, c

\* A list without repetition is not longer than that of everything.
LEMMA InjectiveIsShort ==
  ASSUME NEW s \in Seq(Entries), IsInjective(s)
  PROVE  Len(s) <= Len(Order)
<1>1. /\ Order \in [1 .. Len(Order) -> Entries] /\ Len(Order) \in Nat
      /\ s \in [1 .. Len(s) -> Entries] /\ Len(s) \in Nat
  BY ListingAssumption, LenProperties
<1>2. \A n \in Nat : IsFiniteSet(1 .. n) /\ Cardinality(1 .. n) = n
  BY FS_Interval
<1>3. Order \in Surjection(1 .. Len(Order), Entries)
  <2>1. \A u \in Entries : \E k \in 1 .. Len(Order) : Order[k] = u
    BY ListingAssumption, InList
  <2> QED BY <1>1, <2>1 DEF Surjection
<1>4. IsFiniteSet(Entries) /\ Cardinality(Entries) <= Len(Order)
  BY <1>1, <1>2, <1>3, FS_Surjection
<1>5. s \in Injection(1 .. Len(s), Entries)
  BY <1>1 DEF Injection
<1>6. Len(s) <= Cardinality(Entries) /\ Cardinality(Entries) \in Nat
  BY <1>1, <1>2, <1>4, <1>5, FS_Injection, FS_CardinalityType
<1> QED BY <1>1, <1>4, <1>6

-----------------------------------------------------------------------------
(***************************************************************************)
(* Pages.                                                                  *)
(***************************************************************************)

\* paginateStorage: a page begins behind the offset and ends at the next one,
\* or at the end of the list if there is none.
LEMMA PageIs ==
  ASSUME NEW s \in Seq(Entries), NEW from \in Nat, NEW n \in Nat
  PROVE  \E e \in 0 .. Len(s) :
           /\ \/ NextStart(s, from, n) = 0 /\ e = Len(s)
              \/ NextStart(s, from, n) = e /\ e > 0 /\ from <= e
           /\ Page(s, from, n) = SubSeq(s, from + 1, e)
<1>1. Len(s) \in Nat
  BY LenProperties
<1>2. CASE n = 0 \/ from + n >= Len(s)
  <2>1. NextStart(s, from, n) = 0 /\ Page(s, from, n) = SubSeq(s, from + 1, Len(s))
    BY <1>2 DEF NextStart, Page
  <2> QED BY <1>1, <2>1
<1>3. CASE ~ (n = 0 \/ from + n >= Len(s))
  <2>1. from + n \in 0 .. Len(s) /\ from + n > 0 /\ from <= from + n /\ ~ from > Len(s)
    BY <1>1, <1>3
  <2>2. NextStart(s, from, n) = from + n /\ Page(s, from, n) = SubSeq(s, from + 1, from + n)
    BY <1>3, <2>1 DEF NextStart, Page
  <2> QED BY <2>1, <2>2
<1> QED BY <1>2, <1>3

\* It has what is between the two offsets.
LEMMA PageHas ==
  ASSUME NEW s \in Seq(Entries), NEW from \in Nat, NEW e \in 0 .. Len(s)
  PROVE  LET page == SubSeq(s, from + 1, e)
         IN  /\ page \in Seq(Entries)
             /\ \A k \in 1 .. Len(s) : from < k /\ k <= e => s[k] \in ToSet(page)
             /\ \A u \in ToSet(page) : \E k \in 1 .. Len(s) : from < k /\ k <= e /\ s[k] = u
             /\ IsInjective(s) => IsInjective(page)
             /\ from <= e => SubSeq(s, 1, from) \o page = SubSeq(s, 1, e)
<1> DEFINE page == SubSeq(s, from + 1, e)
<1>1. Len(s) \in Nat /\ (\A k \in 1 .. Len(s) : s[k] \in Entries)
  BY InList
<1>2. \A i \in from + 1 .. e : s[i] \in Entries
  BY <1>1
<1>3. /\ page \in Seq(Entries)
      /\ Len(page) = IF from + 1 <= e THEN e - (from + 1) + 1 ELSE 0
      /\ \A i \in 1 .. e - (from + 1) + 1 : page[i] = s[from + 1 + i - 1]
  BY <1>1, <1>2, SubSeqProperties
<1> HIDE DEF page
<1>4. \A i \in 1 .. Len(page) : from + i \in 1 .. Len(s) /\ from + i <= e /\ page[i] = s[from + i]
  BY <1>1, <1>3
<1>5. ASSUME NEW k \in 1 .. Len(s), from < k, k <= e PROVE s[k] \in ToSet(page)
  <2> DEFINE i == k - from
  <2>1. i \in 1 .. Len(page) /\ from + i = k
    BY <1>1, <1>3, <1>5
  <2> HIDE DEF i
  <2>2. page[i] \in ToSet(page)
    BY <1>3, <2>1, Member
  <2>3. page[i] = s[k]
    BY <1>4, <2>1
  <2> QED BY <2>2, <2>3
<1>6. ASSUME NEW u \in ToSet(page)
      PROVE  \E k \in 1 .. Len(s) : from < k /\ k <= e /\ s[k] = u
  <2>1. PICK i \in 1 .. Len(page) : page[i] = u
    BY <1>3, InList
  <2> QED BY <1>3, <1>4, <2>1
<1>7. ASSUME IsInjective(s) PROVE IsInjective(page)
  <2>1. DOMAIN page = 1 .. Len(page) /\ DOMAIN s = 1 .. Len(s) /\ Len(page) \in Nat
    BY <1>3, InList
  <2>2. ASSUME NEW i \in DOMAIN page, NEW j \in DOMAIN page, page[i] = page[j] PROVE i = j
    <3>1. from + i \in DOMAIN s /\ from + j \in DOMAIN s /\ s[from + i] = s[from + j]
      BY <1>4, <2>1, <2>2
    <3>2. from + i = from + j
      BY <1>7, <3>1 DEF IsInjective
    <3> QED BY <2>1, <3>2
  <2> QED BY <2>2 DEF IsInjective
<1>8. ASSUME from <= e PROVE SubSeq(s, 1, from) \o page = SubSeq(s, 1, e)
  <2> DEFINE a == SubSeq(s, 1, from)
             b == SubSeq(s, 1, e)
  <2>1. /\ a \in Seq(Entries) /\ Len(a) = from
        /\ \A i \in 1 .. from : a[i] = s[i]
    <3>1. \A i \in 1 .. from : s[i] \in Entries
      BY <1>1, <1>8
    <3>2. /\ a \in Seq(Entries) /\ Len(a) = IF 1 <= from THEN from - 1 + 1 ELSE 0
          /\ \A i \in 1 .. from - 1 + 1 : a[i] = s[1 + i - 1]
      BY <3>1, SubSeqProperties
    <3> QED BY <3>2
  <2>2. /\ b \in Seq(Entries) /\ Len(b) = e
        /\ \A i \in 1 .. e : b[i] = s[i]
    <3>1. \A i \in 1 .. e : s[i] \in Entries
      BY <1>1
    <3>2. /\ b \in Seq(Entries) /\ Len(b) = IF 1 <= e THEN e - 1 + 1 ELSE 0
          /\ \A i \in 1 .. e - 1 + 1 : b[i] = s[1 + i - 1]
      BY <3>1, SubSeqProperties
    <3> QED BY <3>2
  <2>3. /\ a \o page \in Seq(Entries) /\ Len(a \o page) = Len(a) + Len(page)
        /\ \A i \in 1 .. Len(a) + Len(page) :
              (a \o page)[i] = IF i <= Len(a) THEN a[i] ELSE page[i - Len(a)]
    BY <1>3, <2>1, ConcatProperties
  <2> HIDE DEF a, b
  <2>4. Len(a) + Len(page) = e
    BY <1>3, <1>8, <2>1
  <2>5. ASSUME NEW i \in 1 .. e PROVE (a \o page)[i] = b[i]
    <3>1. CASE i <= from
      <4>1. i \in 1 .. from /\ i \in 1 .. Len(a) + Len(page)
        BY <2>4, <3>1
      <4>2. (a \o page)[i] = a[i]
        BY <2>1, <2>3, <3>1, <4>1
      <4> QED BY <2>1, <2>2, <4>1, <4>2
    <3>2. CASE ~ i <= from
      <4>1. i - from \in 1 .. Len(page) /\ from + (i - from) = i
        BY <1>3, <1>8, <3>2
      <4>2. (a \o page)[i] = page[i - from]
        BY <2>1, <2>3, <2>4, <3>2
      <4> QED BY <1>4, <2>2, <4>1, <4>2
    <3> QED BY <3>1, <3>2
  <2> QED BY <2>2, <2>3, <2>4, <2>5, SeqEqual DEF a, b
<1> QED BY <1>3, <1>5, <1>6, <1>7, <1>8 DEF page

-----------------------------------------------------------------------------
(***************************************************************************)
(* The inductive invariant.                                                *)
(***************************************************************************)

\* What a page would be cut out of if the API's lists were read now.
Current == IF op = "ListVolumes" THEN Listed(Blocks) \o Listed(Files)
           ELSE Listed(Wanted(op, source))

\* What the page that is asked for is cut out of, as far as it is read.
Reading == IF pc = "files" THEN blocks \o Listed(Files) ELSE Current

WalkState ==
    /\ pc \in {"blocks", "files"} => op = "ListVolumes"
    /\ pc = "backups" => op = "ListSnapshots"
    /\ pc # "idle" => op \in {"ListVolumes", "ListSnapshots"}
    /\ lasting \subseteq Wanted(op, source)

\* The storages that were read are those of the account, but for what appeared
\* or disappeared since.
BlocksAsRead ==
    pc = "files" =>
        /\ ToSet(blocks) \subseteq Blocks
        /\ blocks = InOrder(ToSet(blocks))
        /\ lasting \intersect Blocks \subseteq ToSet(blocks)
        /\ ~ grown => Blocks \intersect exists \subseteq ToSet(blocks)
        /\ ~ shrunk => ToSet(blocks) \subseteq exists

\* What lasts and is before the offset was listed.
Behind ==
    pc # "idle" /\ ~ shrunk =>
        \A k \in 1 .. Len(Reading) :
            k <= start /\ Reading[k] \in lasting => Reading[k] \in ToSet(seen)

\* What is after the offset was not.
Ahead ==
    pc # "idle" /\ ~ grown =>
        \A k \in 1 .. Len(Reading) : k > start => Reading[k] \notin ToSet(seen)

\* A walk through lists that do not change has listed what is before the offset.
Prefix ==
    pc # "idle" /\ ~ grown /\ ~ shrunk =>
        /\ lasting = exists \intersect Wanted(op, source)
        /\ start <= Len(Reading)
        /\ seen = SubSeq(Reading, 1, start)

Walked == Behind /\ Ahead /\ Prefix

IInv == /\ TypeOK /\ WalkState /\ BlocksAsRead /\ Walked
        /\ NoneMissed /\ NoneTwice /\ WalkIsList

\* The sets that a walk is about.
LEMMA WantedIs ==
  /\ \A o, v : Wanted(o, v) \subseteq Entries
  /\ \A v : Wanted("none", v) = {}
  /\ \A v : Wanted("ListVolumes", v) = Blocks \union Files
  /\ \A v : Wanted("ListSnapshots", v) \subseteq Backups
  /\ \A v \in Entries : Wanted("GetSnapshot", v) = {v}
  BY DEF Wanted, Entries

LEMMA ListedIs ==
  ASSUME NEW S \in SUBSET Entries
  PROVE  /\ Listed(S) \in Seq(S) /\ Listed(S) \in Seq(Entries)
         /\ ToSet(Listed(S)) = S \intersect exists
         /\ IsInjective(Listed(S))
<1>1. S \intersect exists \in SUBSET Entries
  OBVIOUS
<1>2. /\ Listed(S) \in Seq(S \intersect exists)
      /\ ToSet(Listed(S)) = S \intersect exists
      /\ IsInjective(Listed(S))
  BY <1>1, InOrderLists DEF Listed
<1> QED BY <1>2, SeqMonotonic

\* No list repeats an entry, and what a page is cut out of has all that lasts.
LEMMA ReadingIs ==
  ASSUME TypeOK, WalkState, BlocksAsRead, op # "none"
  PROVE  /\ Reading \in Seq(Entries) /\ IsInjective(Reading)
         /\ Len(Reading) \in Nat /\ Len(Reading) <= Len(Order)
         /\ lasting \subseteq ToSet(Reading)
         /\ Current \in Seq(Entries)
<1>1. Blocks \subseteq Entries /\ Files \subseteq Entries /\ Blocks \intersect Files = {}
  BY ListingAssumption DEF Entries
<1>2. /\ Listed(Blocks) \in Seq(Entries) /\ Listed(Files) \in Seq(Entries)
      /\ ToSet(Listed(Blocks)) = Blocks \intersect exists
      /\ ToSet(Listed(Files)) = Files \intersect exists
      /\ IsInjective(Listed(Blocks)) /\ IsInjective(Listed(Files))
  BY <1>1, ListedIs
<1>3. Current \in Seq(Entries) /\ IsInjective(Current) /\ lasting \subseteq ToSet(Current)
  <2>1. CASE op = "ListVolumes"
    <3>1. Current = Listed(Blocks) \o Listed(Files)
      BY <2>1 DEF Current
    <3>2. lasting \subseteq Blocks \union Files /\ lasting \subseteq exists
      BY <2>1, WantedIs DEF WalkState, TypeOK
    <3>3. ToSet(Current) = (Blocks \intersect exists) \union (Files \intersect exists)
      BY <1>2, <3>1, Concat
    <3>4. ToSet(Listed(Blocks)) \intersect ToSet(Listed(Files)) = {}
      BY <1>1, <1>2
    <3>5. Current \in Seq(Entries) /\ IsInjective(Current)
      BY <1>2, <3>1, <3>4, Concat, ConcatInjective
    <3> QED BY <3>2, <3>3, <3>5
  <2>2. CASE op # "ListVolumes"
    <3>1. Current = Listed(Wanted(op, source)) /\ Wanted(op, source) \in SUBSET Entries
      BY <2>2, WantedIs DEF Current
    <3> QED BY <3>1, ListedIs DEF WalkState, TypeOK
  <2> QED BY <2>1, <2>2
<1>4. CASE pc = "files"
  <2>1. Reading = blocks \o Listed(Files)
    BY <1>4 DEF Reading
  <2>2. blocks \in Seq(Entries) /\ IsInjective(blocks) /\ ToSet(blocks) \subseteq Blocks
    BY <1>1, <1>4, InOrderLists, SeqMonotonic DEF BlocksAsRead, TypeOK
  <2>3. lasting \subseteq ToSet(blocks) \union ToSet(Listed(Files))
    BY <1>2, <1>4, WantedIs DEF BlocksAsRead, WalkState, TypeOK
  <2>4. ToSet(blocks) \intersect ToSet(Listed(Files)) = {}
    BY <1>1, <1>2, <2>2
  <2>5. Reading \in Seq(Entries) /\ IsInjective(Reading) /\ lasting \subseteq ToSet(Reading)
    BY <1>2, <2>1, <2>2, <2>3, <2>4, Concat, ConcatInjective
  <2> QED BY <1>3, <2>5, InjectiveIsShort, LenProperties
<1>5. CASE pc # "files"
  BY <1>3, <1>5, InjectiveIsShort, LenProperties DEF Reading
<1> QED BY <1>4, <1>5

-----------------------------------------------------------------------------
(***************************************************************************)
(* Lists that change.                                                      *)
(***************************************************************************)

\* What is before the offset n is in D, as long as the list only grows.
LEMMA BehindKept ==
  ASSUME NEW s \in Seq(Entries), NEW t \in Seq(Entries), Within(s, t),
         NEW n \in Nat, NEW L \in SUBSET ToSet(s), NEW D,
         \A k \in 1 .. Len(s) : k <= n /\ s[k] \in L => s[k] \in D
  PROVE  \A k \in 1 .. Len(t) : k <= n /\ t[k] \in L => t[k] \in D
<1> SUFFICES ASSUME NEW k \in 1 .. Len(t), k <= n, t[k] \in L PROVE t[k] \in D
  OBVIOUS
<1>1. Len(s) \in Nat /\ Len(t) \in Nat
  BY LenProperties
<1>2. t[k] \in ToSet(s)
  OBVIOUS
<1>3. PICK j \in 1 .. Len(s) : j <= k /\ s[j] = t[k]
  BY <1>2 DEF Within
<1> QED BY <1>1, <1>3

\* What is after the offset n is not in D, as long as the list only shrinks.
LEMMA AheadKept ==
  ASSUME NEW s \in Seq(Entries), NEW t \in Seq(Entries), Within(s, t), IsInjective(s),
         NEW n \in Nat, NEW D,
         \A k \in 1 .. Len(t) : k > n => t[k] \notin D
  PROVE  \A k \in 1 .. Len(s) : k > n => s[k] \notin D
<1> SUFFICES ASSUME NEW k \in 1 .. Len(s), k > n PROVE s[k] \notin D
  OBVIOUS
<1>1. /\ Len(s) \in Nat /\ Len(t) \in Nat /\ DOMAIN s = 1 .. Len(s)
      /\ s[k] \in ToSet(s) /\ s[k] \in ToSet(t)
  BY InList DEF Within
<1>2. PICK l \in 1 .. Len(t) : t[l] = s[k]
  BY <1>1, InList
<1>3. PICK j \in 1 .. Len(s) : j <= l /\ s[j] = t[l]
  BY <1>1, <1>2 DEF Within
<1>4. j = k
  BY <1>1, <1>2, <1>3 DEF IsInjective
<1> QED BY <1>1, <1>2, <1>3, <1>4

\* Reading, if E is what exists.
ReadingOf(E) ==
    IF pc = "files" THEN blocks \o InOrder(Files \intersect E)
    ELSE IF op = "ListVolumes"
         THEN InOrder(Blocks \intersect E) \o InOrder(Files \intersect E)
         ELSE InOrder(Wanted(op, source) \intersect E)

LEMMA ReadingOfExists ==
  Reading = ReadingOf(exists)
  BY DEF Reading, Current, Listed, ReadingOf

LEMMA ReadingOfExistsNext ==
  ASSUME UNCHANGED <<pc, op, source, blocks>>
  PROVE  Reading' = ReadingOf(exists')
  BY DEF Reading, Current, Listed, ReadingOf

LEMMA ReadingOfMore ==
  ASSUME TypeOK, NEW F \in SUBSET Entries, NEW E \in SUBSET F
  PROVE  Within(ReadingOf(E), ReadingOf(F))
<1>1. Blocks \subseteq Entries /\ Files \subseteq Entries
  BY DEF Entries
<1>2. ASSUME NEW S
      PROVE  Within(InOrder(S \intersect E), InOrder(S \intersect F))
  <2>1. S \intersect F \in SUBSET Entries /\ S \intersect E \in SUBSET (S \intersect F)
    OBVIOUS
  <2> QED BY <2>1, InOrderWithin
<1>3. ASSUME NEW S \in SUBSET Entries, NEW T \in SUBSET Entries
      PROVE  InOrder(S \intersect T) \in Seq(S)
  <2>1. InOrder(S \intersect T) \in Seq(S \intersect T)
    BY InOrderLists
  <2> QED BY <2>1, SeqMonotonic
<1>4. /\ InOrder(Blocks \intersect E) \in Seq(Blocks)
      /\ InOrder(Blocks \intersect F) \in Seq(Blocks)
      /\ InOrder(Files \intersect E) \in Seq(Files)
      /\ InOrder(Files \intersect F) \in Seq(Files)
  BY <1>1, <1>3
<1>5. blocks \in Seq(Blocks) /\ Within(blocks, blocks)
  BY <1>1, SeqMonotonic, WithinItself DEF TypeOK
<1>6. CASE pc = "files"
  BY <1>2, <1>4, <1>5, <1>6, ConcatWithin DEF ReadingOf
<1>7. CASE pc # "files" /\ op = "ListVolumes"
  BY <1>2, <1>4, <1>7, ConcatWithin DEF ReadingOf
<1>8. CASE pc # "files" /\ op # "ListVolumes"
  BY <1>2, <1>8 DEF ReadingOf
<1> QED BY <1>6, <1>7, <1>8

\* Nothing changes for a walk when what it is to list is the same.
LEMMA ReadingOfSame ==
  ASSUME WalkState, NEW E, NEW F,
         E \intersect Wanted(op, source) = F \intersect Wanted(op, source)
  PROVE  ReadingOf(E) = ReadingOf(F)
<1>1. Wanted(op, source) \intersect E = Wanted(op, source) \intersect F
  OBVIOUS
<1>2. CASE op = "ListVolumes"
  <2>1. Wanted(op, source) = Blocks \union Files
    BY <1>2, WantedIs
  <2>2. Blocks \intersect E = Blocks \intersect F /\ Files \intersect E = Files \intersect F
    BY <1>1, <2>1
  <2> QED BY <1>2, <2>2 DEF ReadingOf
<1>3. CASE op # "ListVolumes"
  BY <1>1, <1>3 DEF ReadingOf, WalkState
<1> QED BY <1>2, <1>3

-----------------------------------------------------------------------------
(***************************************************************************)
(* A page, with the offset e that it ends at.                              *)
(***************************************************************************)

LEMMA PageStep ==
  ASSUME IInv, pc \in {"files", "backups"}, NEW e \in 0 .. Len(Reading),
         start <= e \/ e = Len(Reading)
  PROVE  LET listed == seen \o SubSeq(Reading, start + 1, e)
         IN  /\ listed \in Seq(Entries)
             /\ ~ shrunk => \A k \in 1 .. Len(Reading) :
                               k <= e /\ Reading[k] \in lasting => Reading[k] \in ToSet(listed)
             /\ ~ grown => \A k \in 1 .. Len(Reading) :
                               k > e => Reading[k] \notin ToSet(listed)
             /\ ~ grown => IsInjective(listed)
             /\ ~ grown /\ ~ shrunk => listed = SubSeq(Reading, 1, e)
<1> DEFINE R == Reading
           page == SubSeq(R, start + 1, e)
<1>1. /\ R \in Seq(Entries) /\ IsInjective(R) /\ Len(R) \in Nat
      /\ lasting \subseteq ToSet(R)
  BY ReadingIs DEF IInv, WalkState
<1>2. /\ start \in Nat /\ seen \in Seq(Entries)
  BY ListingAssumption DEF IInv, TypeOK
<1>3. /\ page \in Seq(Entries)
      /\ \A k \in 1 .. Len(R) : start < k /\ k <= e => R[k] \in ToSet(page)
      /\ \A u \in ToSet(page) : \E k \in 1 .. Len(R) : start < k /\ k <= e /\ R[k] = u
      /\ IsInjective(page)
      /\ start <= e => SubSeq(R, 1, start) \o page = SubSeq(R, 1, e)
  BY <1>1, <1>2, PageHas
<1> HIDE DEF page
<1>4. seen \o page \in Seq(Entries) /\ ToSet(seen \o page) = ToSet(seen) \union ToSet(page)
  BY <1>2, <1>3, Concat
<1>5. /\ ~ shrunk => \A k \in 1 .. Len(R) :
                        k <= start /\ R[k] \in lasting => R[k] \in ToSet(seen)
      /\ ~ grown => \A k \in 1 .. Len(R) : k > start => R[k] \notin ToSet(seen)
      /\ ~ grown /\ ~ shrunk => start <= Len(R) /\ seen = SubSeq(R, 1, start)
      /\ ~ grown => IsInjective(seen)
  BY DEF IInv, Walked, Behind, Ahead, Prefix, NoneTwice, IsInjective
<1>6. \A k, l \in 1 .. Len(R) : R[k] = R[l] => k = l
  BY <1>1, InList DEF IsInjective
<1> HIDE DEF R
<1>7. ASSUME ~ shrunk, NEW k \in 1 .. Len(R), k <= e, R[k] \in lasting
      PROVE  R[k] \in ToSet(seen \o page)
  <2>1. CASE k <= start
    BY <1>4, <1>5, <1>7, <2>1
  <2>2. CASE start < k
    BY <1>3, <1>4, <1>7, <2>2
  <2> QED BY <1>1, <1>2, <2>1, <2>2
<1>8. ASSUME ~ grown, NEW k \in 1 .. Len(R), k > e
      PROVE  R[k] \notin ToSet(seen \o page)
  <2>1. start <= e
    BY <1>1, <1>8 DEF R
  <2>2. R[k] \notin ToSet(seen)
    BY <1>1, <1>2, <1>5, <1>8, <2>1
  <2>3. R[k] \notin ToSet(page)
    <3> SUFFICES ASSUME R[k] \in ToSet(page) PROVE FALSE
      OBVIOUS
    <3>1. PICK l \in 1 .. Len(R) : start < l /\ l <= e /\ R[l] = R[k]
      BY <1>3
    <3>2. l = k
      BY <1>6, <3>1
    <3> QED BY <1>1, <1>8, <3>1, <3>2
  <2> QED BY <1>4, <2>2, <2>3
<1>9. ASSUME ~ grown PROVE IsInjective(seen \o page)
  <2>1. ASSUME NEW u \in ToSet(page) PROVE u \notin ToSet(seen)
    <3>1. PICK k \in 1 .. Len(R) : start < k /\ k <= e /\ R[k] = u
      BY <1>3
    <3> QED BY <1>1, <1>2, <1>5, <1>9, <3>1
  <2>2. ToSet(seen) \intersect ToSet(page) = {}
    BY <2>1
  <2> QED BY <1>2, <1>3, <1>5, <1>9, <2>2, ConcatInjective
<1>10. ASSUME ~ grown, ~ shrunk PROVE seen \o page = SubSeq(R, 1, e)
  <2>1. start <= e
    BY <1>1, <1>5, <1>10 DEF R
  <2> QED BY <1>3, <1>5, <1>10, <2>1
<1> QED BY <1>4, <1>7, <1>8, <1>9, <1>10 DEF R, page

-----------------------------------------------------------------------------
(***************************************************************************)
(* The first state and every step.                                         *)
(***************************************************************************)

\* What a walk starts from is well typed.
LEMMA StartTyped ==
  /\ 0 \in 0 .. Len(Order)
  /\ <<>> \in Seq(Entries) /\ <<>> \in Seq(Blocks)
<1>1. Len(Order) \in Nat
  BY ListingAssumption
<1> QED BY <1>1, EmptySeq

LEMMA InitOK == Init => IInv
<1> SUFFICES ASSUME Init PROVE IInv
  OBVIOUS
<1>1. TypeOK
  BY StartTyped DEF Init, TypeOK
<1>2. WalkState /\ BlocksAsRead /\ Walked
  BY DEF Init, WalkState, BlocksAsRead, Walked, Behind, Ahead, Prefix
<1>3. NoneMissed /\ NoneTwice /\ WalkIsList
  BY DEF Init, NoneMissed, NoneTwice, WalkIsList, Done
<1> QED BY <1>1, <1>2, <1>3 DEF IInv

\* A walk begins.
LEMMA BeginStep ==
  ASSUME IInv, NEW n \in PageSizes, NEW o \in {"ListVolumes", "ListSnapshots"},
         NEW v \in Blocks \union {AnySource}, Begin(o, v, n)
  PROVE  IInv'
<1> USE DEF Begin
<1>1. seen' = <<>> /\ start' = 0 /\ pc' = FirstRequest(o) /\ op' = o
  OBVIOUS
<1>2. pc' \in {"blocks", "backups"} /\ (pc' = "blocks" <=> o = "ListVolumes")
  BY <1>1 DEF FirstRequest
<1>3. TypeOK'
  BY <1>1, <1>2, StartTyped DEF IInv, TypeOK
<1>4. WalkState'
  <2>1. lasting' = exists \intersect Wanted(o, v) /\ source' = v
    OBVIOUS
  <2> QED BY <1>1, <1>2, <2>1 DEF WalkState
<1>5. BlocksAsRead' /\ NoneMissed' /\ WalkIsList'
  BY <1>2 DEF BlocksAsRead, NoneMissed, WalkIsList, Done
<1>6. NoneTwice'
  BY <1>1 DEF NoneTwice
<1>7. Reading' \in Seq(Entries) /\ Len(Reading)' \in Nat
  <2>1. (op # "none")'
    BY <1>1
  <2>2. (TypeOK /\ WalkState /\ BlocksAsRead /\ op # "none")' => (Reading \in Seq(Entries) /\ Len(Reading) \in Nat)'
    BY ReadingIs, PTL
  <2> QED BY <1>3, <1>4, <1>5, <2>1, <2>2
<1>8. Behind'
  BY <1>1, <1>7 DEF Behind
<1>9. Ahead'
  <2>1. ToSet(<<>>) = {}
    BY DEF ToSet
  <2> QED BY <1>1, <2>1 DEF Ahead
<1>10. Prefix'
  <2>1. lasting' = exists' \intersect Wanted(op', source')
    OBVIOUS
  <2>2. SubSeq(Reading', 1, 0) = <<>>
    BY SubSeqEmpty
  <2> QED BY <1>1, <1>7, <2>1, <2>2 DEF Prefix
<1> QED BY <1>3, <1>4, <1>5, <1>6, <1>8, <1>9, <1>10 DEF IInv, Walked

\* The caller asks for the next page.
LEMMA NextPageStep ==
  ASSUME IInv, NextPage
  PROVE  IInv'
<1> USE DEF NextPage, observed
<1>1. pc' \in {"blocks", "backups"} /\ (pc' = "blocks" <=> op = "ListVolumes")
  BY DEF FirstRequest
<1>2. op \in {"ListVolumes", "ListSnapshots"}
  BY DEF IInv, TypeOK, WalkState
<1>3. TypeOK'
  BY <1>1 DEF IInv, TypeOK
<1>4. WalkState' /\ BlocksAsRead' /\ NoneMissed' /\ WalkIsList'
  BY <1>1, <1>2 DEF IInv, WalkState, BlocksAsRead, NoneMissed, WalkIsList, Done
<1>5. Reading' = Reading
  BY <1>1 DEF Reading, Current, Listed
<1>6. Walked' /\ NoneTwice'
  BY <1>5 DEF IInv, Walked, Behind, Ahead, Prefix, NoneTwice
<1> QED BY <1>3, <1>4, <1>6 DEF IInv

\* ListVolumes reads the block storages.
LEMMA ListBlockStorageStep ==
  ASSUME IInv, ListBlockStorage
  PROVE  IInv'
<1> USE DEF ListBlockStorage, observed
<1>1. Blocks \in SUBSET Entries
  BY DEF Entries
<1>2. /\ blocks' \in Seq(Blocks)
      /\ blocks' = InOrder(Blocks \intersect exists)
      /\ ToSet(blocks') = Blocks \intersect exists
  BY <1>1, ListedIs DEF Listed
<1>3. TypeOK'
  BY <1>2 DEF IInv, TypeOK
<1>4. WalkState' /\ NoneMissed' /\ WalkIsList'
  BY DEF IInv, WalkState, NoneMissed, WalkIsList, Done
<1>5. BlocksAsRead'
  BY <1>2 DEF IInv, BlocksAsRead, TypeOK
<1>6. Reading' = Reading
  BY DEF Reading, Current, Listed, IInv, WalkState
<1>7. Walked' /\ NoneTwice'
  BY <1>6 DEF IInv, Walked, Behind, Ahead, Prefix, NoneTwice
<1> QED BY <1>3, <1>4, <1>5, <1>7 DEF IInv

\* A page is answered.
LEMMA RespondStep ==
  ASSUME IInv, pc \in {"files", "backups"}, Respond(Reading), blocks' \in Seq(Blocks)
  PROVE  IInv'
<1> DEFINE R == Reading
           e == IF NextStart(R, start, size) = 0 THEN Len(R) ELSE NextStart(R, start, size)
           page == Page(R, start, size)
           C == Current
<1>1. /\ R \in Seq(Entries) /\ IsInjective(R) /\ Len(R) \in Nat /\ Len(R) <= Len(Order)
      /\ lasting \subseteq ToSet(R) /\ C \in Seq(Entries)
  BY ReadingIs DEF IInv, WalkState
<1>2. start \in Nat /\ size \in Nat /\ exists \subseteq Entries /\ Len(Order) \in Nat
  BY ListingAssumption DEF IInv, TypeOK
<1>3. /\ e \in 0 .. Len(R)
      /\ NextStart(R, start, size) = 0 => e = Len(R)
      /\ NextStart(R, start, size) # 0 =>
            NextStart(R, start, size) = e /\ e > 0 /\ start <= e
      /\ page = SubSeq(R, start + 1, e)
  <2> HIDE DEF R
  <2>1. PICK f \in 0 .. Len(R) :
           /\ \/ NextStart(R, start, size) = 0 /\ f = Len(R)
              \/ NextStart(R, start, size) = f /\ f > 0 /\ start <= f
           /\ page = SubSeq(R, start + 1, f)
    BY <1>1, <1>2, PageIs
  <2>2. f = e
    BY <1>1, <2>1
  <2> QED BY <2>1, <2>2
<1> HIDE DEF e
<1>4. /\ seen' = seen \o SubSeq(R, start + 1, e)
      /\ start' = IF NextStart(R, start, size) = 0 THEN 0 ELSE e
      /\ size' = IF start' > 0 THEN size ELSE 0
      /\ pc' = IF start' > 0 THEN "next" ELSE "idle"
      /\ UNCHANGED <<exists, fresh, op, source, lasting, grown, shrunk>>
  BY <1>3 DEF Respond, observed
<1>5. start' \in Nat /\ start' <= Len(R) /\ (start' = 0 => e = Len(R)) /\ (start' > 0 => start' = e)
  BY <1>1, <1>3, <1>4
<1>6. /\ seen' \in Seq(Entries)
      /\ ~ shrunk => \A k \in 1 .. Len(R) :
                        k <= e /\ R[k] \in lasting => R[k] \in ToSet(seen')
      /\ ~ grown => \A k \in 1 .. Len(R) : k > e => R[k] \notin ToSet(seen')
      /\ ~ grown => IsInjective(seen')
      /\ ~ grown /\ ~ shrunk => seen' = SubSeq(R, 1, e)
  BY <1>3, <1>4, PageStep
<1>7. Current' = C
  BY <1>4 DEF Current, Listed
<1>8. /\ ~ shrunk => Within(R, C)
      /\ ~ grown => Within(C, R)
      /\ ~ grown /\ ~ shrunk => R = C
      /\ IsInjective(C)
  <2>1. CASE pc = "files"
    <3> DEFINE B == ToSet(blocks)
    <3>1. /\ B \in SUBSET Blocks /\ blocks = InOrder(B) /\ op = "ListVolumes"
          /\ ~ grown => Blocks \intersect exists \subseteq B
          /\ ~ shrunk => B \subseteq exists
      BY <2>1 DEF IInv, BlocksAsRead, WalkState
    <3>2. /\ Blocks \in SUBSET Entries /\ Files \in SUBSET Entries
          /\ Blocks \intersect Files = {}
      BY ListingAssumption DEF Entries
    <3> DEFINE X == Blocks \intersect exists
               F == Listed(Files)
    <3>3. R = InOrder(B) \o F /\ C = InOrder(X) \o F
      BY <2>1, <3>1 DEF Reading, Current, Listed
    <3>4. /\ InOrder(B) \in Seq(Blocks) /\ InOrder(X) \in Seq(Blocks)
          /\ F \in Seq(Files) /\ F \in Seq(Entries) /\ IsInjective(F)
          /\ InOrder(X) \in Seq(Entries) /\ IsInjective(InOrder(X))
          /\ ToSet(InOrder(X)) \subseteq Blocks /\ ToSet(F) \subseteq Files
      BY <3>1, <3>2, InOrderLists, ListedIs, SeqMonotonic
    <3>5. Within(F, F)
      BY <3>4, WithinItself
    <3> HIDE DEF B, X, F
    <3>6. ASSUME ~ shrunk PROVE Within(R, C)
      <4>1. B \in SUBSET X /\ X \in SUBSET Entries
        BY <3>1, <3>2, <3>6 DEF X
      <4>2. Within(InOrder(B), InOrder(X))
        BY <4>1, InOrderWithin
      <4> QED BY <3>3, <3>4, <3>5, <4>2, ConcatWithin
    <3>7. ASSUME ~ grown PROVE Within(C, R)
      <4>1. X \in SUBSET B /\ B \in SUBSET Entries
        BY <3>1, <3>2, <3>7 DEF X
      <4>2. Within(InOrder(X), InOrder(B))
        BY <4>1, InOrderWithin
      <4> QED BY <3>3, <3>4, <3>5, <4>2, ConcatWithin
    <3>8. ASSUME ~ grown, ~ shrunk PROVE R = C
      <4>1. B = X
        BY <3>1, <3>8 DEF X
      <4> QED BY <3>3, <4>1
    <3>9. IsInjective(C)
      <4>1. ToSet(InOrder(X)) \intersect ToSet(F) = {}
        BY <3>2, <3>4
      <4> QED BY <3>3, <3>4, <4>1, ConcatInjective
    <3> QED BY <3>6, <3>7, <3>8, <3>9
  <2>2. CASE pc # "files"
    <3>1. R = C
      BY <2>2 DEF Reading
    <3> QED BY <1>1, <3>1, WithinItself
  <2> QED BY <2>1, <2>2
<1>9. op \in {"ListVolumes", "ListSnapshots"}
  BY DEF IInv, WalkState
<1>10. TypeOK'
  <2>1. start' \in 0 .. Len(Order) /\ size' \in PageSizes \union {0}
    BY <1>1, <1>2, <1>4, <1>5 DEF IInv, TypeOK
  <2> QED BY <1>4, <1>6, <2>1 DEF IInv, TypeOK
<1>11. WalkState' /\ BlocksAsRead'
  BY <1>4, <1>9 DEF IInv, WalkState, BlocksAsRead
<1>12. NoneTwice'
  BY <1>4, <1>6 DEF NoneTwice, IsInjective
<1>13. CASE start' > 0
  <2>1. pc' = "next" /\ Reading' = C
    BY <1>4, <1>7, <1>13 DEF Reading
  <2>2. start' = e /\ e \in Nat
    BY <1>5, <1>13
  <2> HIDE DEF R, C
  <2>3. ASSUME ~ shrunk
        PROVE  \A k \in 1 .. Len(C) : k <= e /\ C[k] \in lasting => C[k] \in ToSet(seen')
    BY <1>1, <1>6, <1>8, <2>2, <2>3, BehindKept
  <2>4. ASSUME ~ grown PROVE \A k \in 1 .. Len(C) : k > e => C[k] \notin ToSet(seen')
    BY <1>1, <1>6, <1>8, <2>2, <2>4, AheadKept
  <2>5. ASSUME ~ grown, ~ shrunk PROVE e <= Len(C) /\ seen' = SubSeq(C, 1, e)
    BY <1>5, <1>6, <1>8, <2>2, <2>5
  <2>6. Behind' /\ Ahead'
    BY <1>4, <2>1, <2>2, <2>3, <2>4 DEF Behind, Ahead
  <2>7. Prefix'
    BY <1>4, <2>1, <2>2, <2>5 DEF Prefix, IInv, Walked
  <2>8. NoneMissed' /\ WalkIsList'
    BY <2>1 DEF NoneMissed, WalkIsList, Done
  <2> QED BY <1>10, <1>11, <1>12, <2>6, <2>7, <2>8 DEF IInv, Walked
<1>14. CASE ~ start' > 0
  <2>1. pc' = "idle" /\ e = Len(R)
    BY <1>4, <1>5, <1>14
  <2>2. Walked'
    BY <2>1 DEF Walked, Behind, Ahead, Prefix
  <2>3. NoneMissed'
    <3> SUFFICES ASSUME ~ shrunk, NEW u \in lasting PROVE u \in ToSet(seen')
      BY <1>4 DEF NoneMissed
    <3> HIDE DEF R
    <3>1. PICK k \in 1 .. Len(R) : R[k] = u
      BY <1>1, InList
    <3> QED BY <1>1, <1>6, <2>1, <3>1
  <2>4. WalkIsList'
    <3> SUFFICES ASSUME ~ grown, ~ shrunk
                 PROVE  seen' = IF op = "ListVolumes" THEN Listed(Blocks) \o Listed(Files)
                                ELSE Listed(lasting)
      BY <1>4 DEF WalkIsList, Listed
    <3>1. SubSeq(R, 1, Len(R)) = R
      BY <1>1, SubSeqFull
    <3>2. seen' = C
      BY <1>6, <1>8, <2>1, <3>1
    <3>3. lasting = exists \intersect Wanted(op, source)
      BY DEF IInv, Walked, Prefix
    <3>4. lasting \intersect exists = Wanted(op, source) \intersect exists
      BY <3>3
    <3> QED BY <3>2, <3>4 DEF Current, Listed
  <2> QED BY <1>10, <1>11, <1>12, <2>2, <2>3, <2>4 DEF IInv
<1> QED BY <1>13, <1>14

LEMMA GetFileStoragesStep ==
  ASSUME IInv, GetFileStorages
  PROVE  IInv'
<1>1. Reading = blocks \o Listed(Files) /\ blocks' \in Seq(Blocks)
  BY StartTyped DEF GetFileStorages, Reading
<1> QED BY <1>1, RespondStep DEF GetFileStorages

LEMMA ListBlockStorageBackupsStep ==
  ASSUME IInv, ListBlockStorageBackups
  PROVE  IInv'
<1>1. op # "ListVolumes" /\ pc = "backups"
  BY DEF ListBlockStorageBackups, IInv, WalkState
<1>2. Reading = Listed(Wanted(op, source)) /\ blocks' \in Seq(Blocks)
  BY <1>1 DEF ListBlockStorageBackups, Reading, Current, IInv, TypeOK
<1> QED BY <1>1, <1>2, RespondStep DEF ListBlockStorageBackups

\* A list of at most one entry.
LEMMA GetSnapshotStep ==
  ASSUME IInv, NEW u \in Blocks \union Backups, GetSnapshot(u)
  PROVE  IInv'
<1> USE DEF GetSnapshot
<1> DEFINE T == exists \intersect {u}
<1>1. u \in Entries /\ T \in SUBSET Entries
  BY DEF Entries
<1>2. seen' = InOrder(T)
  <2> DEFINE s == InOrder(T)
  <2>1. s \in Seq(Entries) /\ ToSet(s) = T /\ IsInjective(s)
    BY <1>1, InOrderLists, SeqMonotonic
  <2>2. /\ Len(s) \in Nat /\ DOMAIN s = 1 .. Len(s)
        /\ \A k \in 1 .. Len(s) : s[k] = u
        /\ u \in T => \E k \in 1 .. Len(s) : s[k] = u
        /\ u \notin T => \A k \in 1 .. Len(s) : FALSE
    <3> HIDE DEF s
    <3>1. /\ Len(s) \in Nat /\ DOMAIN s = 1 .. Len(s)
          /\ \A k \in 1 .. Len(s) : s[k] \in ToSet(s)
          /\ \A v \in ToSet(s) : \E k \in 1 .. Len(s) : s[k] = v
      BY <2>1, InList
    <3>2. ToSet(s) = exists \intersect {u}
      BY <2>1
    <3> QED BY <3>1, <3>2
  <2> HIDE DEF s
  <2>3. CASE u \in exists
    <3>1. Len(s) = 1
      <4>1. Len(s) # 0
        BY <2>2, <2>3
      <4>2. ~ Len(s) >= 2
        <5> SUFFICES ASSUME Len(s) >= 2 PROVE FALSE
          OBVIOUS
        <5>1. 1 \in DOMAIN s /\ 2 \in DOMAIN s /\ s[1] = s[2]
          BY <2>2
        <5> QED BY <2>1, <5>1 DEF IsInjective
      <4> QED BY <2>2, <4>1, <4>2
    <3>2. <<u>> \in Seq(Entries) /\ Len(<<u>>) = 1 /\ <<u>>[1] = u
      BY <1>1
    <3>3. s = <<u>>
      BY <2>1, <2>2, <3>1, <3>2, SeqEqual
    <3> QED BY <2>3, <3>3 DEF s
  <2>4. CASE u \notin exists
    <3>1. s = <<>>
      <4>1. Len(s) = 0
        BY <2>2, <2>4
      <4> QED BY <2>1, <4>1, EmptySeq
    <3> QED BY <2>4, <3>1 DEF s
  <2> QED BY <2>3, <2>4
<1>3. /\ seen' \in Seq(Entries) /\ ToSet(seen') = T /\ IsInjective(seen')
  BY <1>1, <1>2, InOrderLists, SeqMonotonic
<1>4. lasting' = T /\ T \subseteq exists
  OBVIOUS
<1>5. TypeOK'
  BY <1>3, <1>4 DEF IInv, TypeOK
<1>6. WalkState' /\ BlocksAsRead' /\ Walked'
  <2>1. T \subseteq Wanted(op', source')
    BY <1>1, WantedIs
  <2> QED BY <1>4, <2>1 DEF WalkState, BlocksAsRead, Walked, Behind, Ahead, Prefix
<1>7. NoneMissed' /\ NoneTwice'
  BY <1>3, <1>4 DEF NoneMissed, NoneTwice, IsInjective
<1>8. WalkIsList'
  <2>1. Listed(lasting)' = InOrder(lasting' \intersect exists')
    BY DEF Listed
  <2>2. lasting' \intersect exists' = T
    BY <1>4
  <2>3. Listed(lasting)' = seen'
    BY <1>2, <2>1, <2>2
  <2> QED BY <2>3 DEF WalkIsList
<1> QED BY <1>5, <1>6, <1>7, <1>8 DEF IInv

LEMMA ListFailsStep ==
  ASSUME IInv, ListFails
  PROVE  IInv'
<1> USE DEF ListFails
<1>1. TypeOK'
  BY StartTyped DEF IInv, TypeOK
<1>2. WalkState' /\ BlocksAsRead' /\ Walked'
  BY DEF WalkState, BlocksAsRead, Walked, Behind, Ahead, Prefix
<1>3. NoneMissed' /\ NoneTwice' /\ WalkIsList'
  BY DEF NoneMissed, NoneTwice, WalkIsList, Done
<1> QED BY <1>1, <1>2, <1>3 DEF IInv

\* An entry that appears moves others to later offsets only.
LEMMA AppearsStep ==
  ASSUME IInv, NEW u \in Entries, Appears(u)
  PROVE  IInv'
<1> USE DEF Appears, walk
<1> DEFINE W == Wanted(op, source)
<1>1. /\ exists \in SUBSET exists' /\ exists' \in SUBSET Entries
      /\ UNCHANGED <<pc, op, source, blocks, start, size, seen, lasting, shrunk>>
      /\ lasting \subseteq exists
  BY DEF IInv, TypeOK
<1>2. TypeOK'
  BY <1>1 DEF IInv, TypeOK
<1>3. WalkState'
  BY DEF IInv, WalkState
<1>4. ASSUME ~ grown' PROVE ~ grown /\ exists' \intersect W = exists \intersect W
  BY <1>4
<1>5. BlocksAsRead'
  <2> SUFFICES ASSUME pc = "files" PROVE BlocksAsRead'
    BY DEF BlocksAsRead
  <2>1. op = "ListVolumes" /\ W = Blocks \union Files
    BY WantedIs DEF IInv, WalkState
  <2>2. ASSUME ~ grown' PROVE Blocks \intersect exists' = Blocks \intersect exists
    BY <1>4, <2>1, <2>2
  <2> QED BY <1>1, <1>4, <2>2 DEF IInv, BlocksAsRead
<1>6. ~ grown' => Reading' = Reading
  BY <1>1, <1>4, ReadingOfExists, ReadingOfExistsNext, ReadingOfSame DEF IInv
<1>7. Within(Reading, Reading')
  BY <1>1, ReadingOfExists, ReadingOfExistsNext, ReadingOfMore DEF IInv
<1>8. Behind'
  <2> SUFFICES ASSUME pc # "idle", ~ shrunk PROVE Behind'
    BY <1>1 DEF Behind
  <2>1. Reading \in Seq(Entries) /\ lasting \subseteq ToSet(Reading)
    BY ReadingIs DEF IInv, WalkState
  <2>2. Reading' \in Seq(Entries)
    <3>1. (op # "none")'
      BY <1>1 DEF IInv, WalkState
    <3>2. (TypeOK /\ WalkState /\ BlocksAsRead /\ op # "none")' => (Reading \in Seq(Entries))'
      BY ReadingIs, PTL
    <3> QED BY <1>2, <1>3, <1>5, <3>1, <3>2
  <2>3. start \in Nat
    BY ListingAssumption DEF IInv, TypeOK
  <2>4. \A k \in 1 .. Len(Reading) :
           k <= start /\ Reading[k] \in lasting => Reading[k] \in ToSet(seen)
    BY DEF IInv, Walked, Behind
  <2>5. \A k \in 1 .. Len(Reading') :
           k <= start /\ Reading'[k] \in lasting => Reading'[k] \in ToSet(seen)
    BY <1>7, <2>1, <2>2, <2>3, <2>4, BehindKept
  <2> QED BY <1>1, <2>5 DEF Behind
<1>9. Ahead' /\ Prefix'
  BY <1>1, <1>4, <1>6 DEF IInv, Walked, Ahead, Prefix
<1>10. NoneMissed' /\ NoneTwice'
  BY <1>1, <1>4 DEF IInv, NoneMissed, NoneTwice, Done
<1>11. WalkIsList'
  <2> SUFFICES ASSUME Done, ~ grown', ~ shrunk PROVE WalkIsList'
    BY <1>1 DEF WalkIsList, Done
  <2>1. ~ grown /\ exists' \intersect W = exists \intersect W
    BY <1>4
  <2>2. CASE op = "ListVolumes"
    <3>1. W = Blocks \union Files
      BY <2>2, WantedIs
    <3>2. Blocks \intersect exists' = Blocks \intersect exists
          /\ Files \intersect exists' = Files \intersect exists
      BY <2>1, <3>1
    <3> QED BY <1>1, <2>1, <2>2, <3>2 DEF IInv, WalkIsList, Listed
  <2>3. CASE op # "ListVolumes"
    <3>1. lasting \intersect exists' = lasting \intersect exists
      BY <1>1
    <3> QED BY <1>1, <2>1, <2>3, <3>1 DEF IInv, WalkIsList, Listed
  <2> QED BY <2>2, <2>3
<1> QED BY <1>2, <1>3, <1>5, <1>8, <1>9, <1>10, <1>11 DEF IInv, Walked

\* An entry that disappears moves others to earlier offsets only.
LEMMA DisappearsStep ==
  ASSUME IInv, NEW u \in Entries, Disappears(u)
  PROVE  IInv'
<1> USE DEF Disappears, walk
<1> DEFINE W == Wanted(op, source)
<1>1. /\ exists' \in SUBSET exists /\ exists \in SUBSET Entries
      /\ UNCHANGED <<pc, op, source, blocks, start, size, seen, grown>>
      /\ lasting \subseteq exists /\ lasting' \subseteq lasting /\ lasting' \subseteq exists'
      /\ lasting \subseteq W
  BY DEF IInv, TypeOK, WalkState
<1>2. TypeOK'
  BY <1>1 DEF IInv, TypeOK
<1>3. WalkState'
  BY <1>1 DEF IInv, WalkState
<1>4. ASSUME ~ shrunk'
      PROVE  ~ shrunk /\ exists' \intersect W = exists \intersect W /\ lasting' = lasting
  BY <1>1, <1>4
<1>5. BlocksAsRead'
  <2> SUFFICES ASSUME pc = "files" PROVE BlocksAsRead'
    BY DEF BlocksAsRead
  <2>1. op = "ListVolumes" /\ W = Blocks \union Files
    BY WantedIs DEF IInv, WalkState
  <2>2. ASSUME ~ shrunk' PROVE Blocks \intersect exists' = Blocks \intersect exists
    BY <1>4, <2>1, <2>2
  <2> QED BY <1>1, <1>4, <2>2 DEF IInv, BlocksAsRead
<1>6. ~ shrunk' => Reading' = Reading
  BY <1>1, <1>4, ReadingOfExists, ReadingOfExistsNext, ReadingOfSame DEF IInv
<1>7. Within(Reading', Reading)
  BY <1>1, ReadingOfExists, ReadingOfExistsNext, ReadingOfMore DEF IInv
<1>8. Ahead'
  <2> SUFFICES ASSUME pc # "idle", ~ grown PROVE Ahead'
    BY <1>1 DEF Ahead
  <2>1. Reading \in Seq(Entries)
    BY ReadingIs DEF IInv, WalkState
  <2>2. Reading' \in Seq(Entries) /\ IsInjective(Reading')
    <3>1. (op # "none")'
      BY <1>1 DEF IInv, WalkState
    <3>2. (TypeOK /\ WalkState /\ BlocksAsRead /\ op # "none")'
          => (Reading \in Seq(Entries) /\ IsInjective(Reading))'
      BY ReadingIs, PTL
    <3> QED BY <1>2, <1>3, <1>5, <3>1, <3>2
  <2>3. start \in Nat
    BY ListingAssumption DEF IInv, TypeOK
  <2>4. \A k \in 1 .. Len(Reading) : k > start => Reading[k] \notin ToSet(seen)
    BY DEF IInv, Walked, Ahead
  <2>5. \A k \in 1 .. Len(Reading') : k > start => Reading'[k] \notin ToSet(seen)
    BY <1>7, <2>1, <2>2, <2>3, <2>4, AheadKept
  <2> QED BY <1>1, <2>5 DEF Ahead
<1>9. Behind' /\ Prefix'
  BY <1>1, <1>4, <1>6 DEF IInv, Walked, Behind, Prefix
<1>10. NoneMissed' /\ NoneTwice'
  BY <1>1, <1>4 DEF IInv, NoneMissed, NoneTwice, Done
<1>11. WalkIsList'
  <2> SUFFICES ASSUME Done, ~ grown, ~ shrunk' PROVE WalkIsList'
    BY <1>1 DEF WalkIsList, Done
  <2>1. ~ shrunk /\ exists' \intersect W = exists \intersect W /\ lasting' = lasting
    BY <1>4
  <2>2. CASE op = "ListVolumes"
    <3>1. W = Blocks \union Files
      BY <2>2, WantedIs
    <3>2. Blocks \intersect exists' = Blocks \intersect exists
          /\ Files \intersect exists' = Files \intersect exists
      BY <2>1, <3>1
    <3> QED BY <1>1, <2>1, <2>2, <3>2 DEF IInv, WalkIsList, Listed
  <2>3. CASE op # "ListVolumes"
    <3>1. lasting' \intersect exists' = lasting \intersect exists
      BY <1>1, <2>1
    <3> QED BY <1>1, <2>1, <2>3, <3>1 DEF IInv, WalkIsList, Listed
  <2> QED BY <2>2, <2>3
<1> QED BY <1>2, <1>3, <1>5, <1>8, <1>9, <1>10, <1>11 DEF IInv, Walked

LEMMA NextStep == IInv /\ [Next]_vars => IInv'
<1> SUFFICES ASSUME IInv, [Next]_vars PROVE IInv'
  OBVIOUS
<1>1. CASE \E n \in PageSizes : \/ Begin("ListVolumes", AnySource, n)
                                \/ \E v \in Blocks \union {AnySource} :
                                      Begin("ListSnapshots", v, n)
  BY <1>1, BeginStep
<1>2. CASE Walk
  BY <1>2, NextPageStep, ListBlockStorageStep, GetFileStoragesStep,
     ListBlockStorageBackupsStep DEF Walk
<1>3. CASE ListFails
  BY <1>3, ListFailsStep
<1>4. CASE \E u \in Blocks \union Backups : GetSnapshot(u)
  BY <1>4, GetSnapshotStep
<1>5. CASE \E u \in Entries : Appears(u) \/ Disappears(u)
  BY <1>5, AppearsStep, DisappearsStep
<1>6. CASE UNCHANGED vars
  BY <1>6 DEF vars, IInv, TypeOK, WalkState, BlocksAsRead, Walked, Behind, Ahead, Prefix,
     Reading, Current, Listed, NoneMissed, NoneTwice, WalkIsList, Done
<1> QED BY <1>1, <1>2, <1>3, <1>4, <1>5, <1>6 DEF Next

LEMMA Invariance == Spec => []IInv
  BY InitOK, NextStep, PTL DEF Spec

-----------------------------------------------------------------------------
(***************************************************************************)
(* Theorems.                                                               *)
(***************************************************************************)

\* Every reachable state of a walk is well typed; no token is past the end of
\* the list of everything there is.
THEOREM TypeCorrect == Spec => []TypeOK
<1>1. IInv => TypeOK
  BY DEF IInv
<1> QED BY Invariance, <1>1, PTL

\* A walk with tokens misses nothing that was there all the time, for any list
\* and any size of its pages, unless something disappears meanwhile.
THEOREM MissesNothing == Spec => []NoneMissed
<1>1. IInv => NoneMissed
  BY DEF IInv
<1> QED BY Invariance, <1>1, PTL

\* It lists nothing twice unless something appears meanwhile.
THEOREM RepeatsNothing == Spec => []NoneTwice
<1>1. IInv => NoneTwice
  BY DEF IInv
<1> QED BY Invariance, <1>1, PTL

\* The pages of a list that does not change are the list.
THEOREM PagesAreTheList == Spec => []WalkIsList
<1>1. IInv => WalkIsList
  BY DEF IInv
<1> QED BY Invariance, <1>1, PTL

=============================================================================
