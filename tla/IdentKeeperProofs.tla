------------------------- MODULE IdentKeeperProofs -------------------------
(***************************************************************************)
(* IdentKeeper implements IdentPool, whatever the range.                   *)
(***************************************************************************)
EXTENDS IdentKeeper, TLAPS, SequenceTheorems, WellFoundedInduction

Ascending(s) == \A i, j \in DOMAIN s : i < j => s[i] < s[j]

(* The CHOOSEs of IdentKeeper pick the first of some places in the list. *)
LEMMA FirstPlace ==
    ASSUME NEW S \in SUBSET Nat, S # {}
    PROVE  \E m \in S : \A k \in S : m <= k
<1>1. \E m \in S : \A k \in S : ~ (<<k, m>> \in OpToRel(<, Nat))
  BY NatLessThanWellFounded, WFMin
<1>2. \A m, k \in S : ~ (<<k, m>> \in OpToRel(<, Nat)) => m <= k
  BY DEF OpToRel
<1>3. QED
  BY <1>1, <1>2

-----------------------------------------------------------------------------
(* The two changes of the list, element by element. *)

(* InsertAt moves what was at i and behind up by one place. *)
LEMMA InsertAtElements ==
    ASSUME NEW s \in Seq(Int), NEW i \in 1 .. Len(s) + 1, NEW x \in Int
    PROVE  /\ InsertAt(s, i, x) \in Seq(Int)
           /\ Len(InsertAt(s, i, x)) = Len(s) + 1
           /\ \A k \in 1 .. Len(s) + 1 :
                InsertAt(s, i, x)[k] = IF k < i THEN s[k]
                                       ELSE IF k = i THEN x ELSE s[k - 1]
<1> DEFINE a == SubSeq(s, 1, i - 1)
           b == SubSeq(s, i, Len(s))
<1>1. a \in Seq(Int) /\ Len(a) = i - 1 /\ \A k \in 1 .. i - 1 : a[k] = s[k]
  BY SubSeqProperties
<1>2. /\ b \in Seq(Int) /\ Len(b) = Len(s) - i + 1
      /\ \A k \in 1 .. Len(s) - i + 1 : b[k] = s[i + k - 1]
  BY SubSeqProperties
<1>3. InsertAt(s, i, x) = a \o <<x>> \o b
  BY DEF InsertAt
<1> HIDE DEF a, b
<1>4. /\ a \o <<x>> \in Seq(Int) /\ Len(a \o <<x>>) = i
      /\ \A k \in 1 .. i : (a \o <<x>>)[k] = IF k < i THEN s[k] ELSE x
  BY <1>1
<1>5. InsertAt(s, i, x) \in Seq(Int) /\ Len(InsertAt(s, i, x)) = Len(s) + 1
  BY <1>2, <1>3, <1>4, ConcatProperties
<1>6. ASSUME NEW k \in 1 .. Len(s) + 1
      PROVE  InsertAt(s, i, x)[k] = IF k < i THEN s[k]
                                    ELSE IF k = i THEN x ELSE s[k - 1]
  <2> DEFINE c == a \o <<x>>
  <2>0. \A n \in 1 .. Len(c) + Len(b) :
          (c \o b)[n] = IF n <= Len(c) THEN c[n] ELSE b[n - Len(c)]
    <3>1. c \in Seq(Int) /\ b \in Seq(Int)
      BY <1>2, <1>4
    <3> HIDE DEF c
    <3>2. QED
      BY <3>1, ConcatProperties, Zenon
  <2>a. Len(c) = i /\ Len(c) + Len(b) = Len(s) + 1
    <3>1. Len(c) = i
      BY <1>4
    <3>2. Len(b) = Len(s) - i + 1
      BY <1>2
    <3> HIDE DEF c
    <3>3. QED
      BY <3>1, <3>2
  <2>b. InsertAt(s, i, x) = c \o b
    BY <1>3
  <2> HIDE DEF c
  <2>c. InsertAt(s, i, x)[k] = IF k <= i THEN c[k] ELSE b[k - i]
    BY <2>0, <2>a, <2>b
  <2>1. InsertAt(s, i, x)[k] =
          IF k <= i THEN (a \o <<x>>)[k] ELSE b[k - i]
    BY <2>c DEF c
  <2>2. CASE k <= i
    BY <1>4, <2>1, <2>2
  <2>3. CASE k > i
    <3>1. k - i \in 1 .. Len(s) - i + 1 /\ i + (k - i) - 1 = k - 1
      BY <2>3
    <3>2. b[k - i] = s[k - 1]
      BY <1>2, <3>1
    <3>3. QED
      BY <2>1, <2>3, <3>2
  <2>4. QED
    BY <2>2, <2>3
<1>7. QED
  BY <1>5, <1>6

(* RemoveAt moves what was behind i down by one place. *)
LEMMA RemoveAtElements ==
    ASSUME NEW s \in Seq(Int), NEW i \in 1 .. Len(s)
    PROVE  /\ RemoveAt(s, i) \in Seq(Int)
           /\ Len(RemoveAt(s, i)) = Len(s) - 1
           /\ \A k \in 1 .. Len(s) - 1 :
                RemoveAt(s, i)[k] = IF k < i THEN s[k] ELSE s[k + 1]
<1> DEFINE a == SubSeq(s, 1, i - 1)
           b == SubSeq(s, i + 1, Len(s))
<1>1. a \in Seq(Int) /\ Len(a) = i - 1 /\ \A k \in 1 .. i - 1 : a[k] = s[k]
  BY SubSeqProperties
<1>2. /\ b \in Seq(Int) /\ Len(b) = Len(s) - i
      /\ \A k \in 1 .. Len(s) - i : b[k] = s[i + k]
  BY SubSeqProperties
<1>3. RemoveAt(s, i) = a \o b
  BY DEF RemoveAt
<1> HIDE DEF a, b
<1>4. RemoveAt(s, i) \in Seq(Int) /\ Len(RemoveAt(s, i)) = Len(s) - 1
  <2>1. a \in Seq(Int) /\ b \in Seq(Int)
    BY <1>1, <1>2
  <2>2. a \o b \in Seq(Int) /\ Len(a \o b) = Len(a) + Len(b)
    BY <2>1, ConcatProperties, Zenon
  <2>3. Len(a) = i - 1 /\ Len(b) = Len(s) - i /\ Len(s) \in Nat
    BY <1>1, <1>2
  <2>4. QED
    BY <1>3, <2>2, <2>3
<1>5. ASSUME NEW k \in 1 .. Len(s) - 1
      PROVE  RemoveAt(s, i)[k] = IF k < i THEN s[k] ELSE s[k + 1]
  <2>0. \A n \in 1 .. Len(a) + Len(b) :
          (a \o b)[n] = IF n <= Len(a) THEN a[n] ELSE b[n - Len(a)]
    BY <1>1, <1>2, ConcatProperties, Zenon
  <2>a. Len(a) + Len(b) = Len(s) - 1
    BY <1>1, <1>2
  <2>1. RemoveAt(s, i)[k] = IF k <= i - 1 THEN a[k] ELSE b[k - (i - 1)]
    BY <1>1, <1>3, <2>0, <2>a
  <2>2. CASE k < i
    BY <1>1, <2>1, <2>2
  <2>3. CASE k >= i
    <3>1. k - (i - 1) \in 1 .. Len(s) - i /\ i + (k - (i - 1)) = k + 1
      BY <2>3
    <3>2. b[k - (i - 1)] = s[k + 1]
      BY <1>2, <3>1
    <3>3. QED
      BY <2>1, <2>3, <3>2
  <2>4. QED
    BY <2>2, <2>3
<1>6. QED
  BY <1>4, <1>5

-----------------------------------------------------------------------------
(* The two changes of the list, as changes of a set of identifiers. *)

LEMMA InsertedFacts ==
    ASSUME NEW s \in Seq(Int), Ascending(s), NEW x \in Int, x \notin ToSet(s)
    PROVE  /\ Inserted(s, x) \in Seq(Int)
           /\ Ascending(Inserted(s, x))
           /\ Len(Inserted(s, x)) = Len(s) + 1
           /\ ToSet(Inserted(s, x)) = ToSet(s) \cup {x}
<1> DEFINE larger == {i \in DOMAIN s : s[i] > x}
<1>1. PICK i \in 1 .. Len(s) + 1 :
        /\ Inserted(s, x) = InsertAt(s, i, x)
        /\ \A k \in DOMAIN s : k < i => s[k] < x
        /\ \A k \in DOMAIN s : k >= i => s[k] > x
  <2>1. \A k \in DOMAIN s : s[k] # x /\ s[k] \in Int
    BY DEF ToSet
  <2>2. CASE larger = {}
    <3>1. \A k \in DOMAIN s : s[k] < x
      BY <2>1, <2>2
    <3>2. Inserted(s, x) = Append(s, x)
      BY <2>2 DEF Inserted
    <3>3. InsertAt(s, Len(s) + 1, x) = Append(s, x)
      <4>1. /\ InsertAt(s, Len(s) + 1, x) \in Seq(Int)
            /\ Len(InsertAt(s, Len(s) + 1, x)) = Len(s) + 1
            /\ \A k \in 1 .. Len(s) + 1 :
                 InsertAt(s, Len(s) + 1, x)[k] =
                    IF k < Len(s) + 1 THEN s[k]
                    ELSE IF k = Len(s) + 1 THEN x ELSE s[k - 1]
        <5>1. Len(s) + 1 \in 1 .. Len(s) + 1
          OBVIOUS
        <5> HIDE DEF larger
        <5>2. QED
          BY <5>1, InsertAtElements, ZenonT(40)
      <4>2. /\ Append(s, x) \in Seq(Int) /\ Len(Append(s, x)) = Len(s) + 1
            /\ \A k \in 1 .. Len(s) + 1 :
                 Append(s, x)[k] = IF k < Len(s) + 1 THEN s[k] ELSE x
        OBVIOUS
      <4> HIDE DEF larger
      <4>3. QED
        BY <4>1, <4>2, SeqEqual
    <3>4. QED
      BY <3>1, <3>2, <3>3
  <2>3. CASE larger # {}
    <3> DEFINE m == CHOOSE i \in larger : \A j \in larger : i <= j
    <3>1. m \in larger /\ \A j \in larger : m <= j
      <4>1. larger \subseteq Nat /\ larger # {}
        BY <2>3
      <4> HIDE DEF larger
      <4>2. \E i \in larger : \A j \in larger : i <= j
        BY <4>1, FirstPlace
      <4>3. QED
        BY <4>2
    <3>2. Inserted(s, x) = InsertAt(s, m, x)
      BY <2>3 DEF Inserted
    <3> HIDE DEF m
    <3>3. m \in DOMAIN s /\ s[m] > x
      BY <3>1
    <3>4. \A k \in DOMAIN s : k < m => s[k] < x
      BY <2>1, <3>1
    <3>5. \A k \in DOMAIN s : k >= m => s[k] > x
      BY <2>1, <3>3 DEF Ascending
    <3>6. QED
      BY <3>2, <3>3, <3>4, <3>5
  <2>4. QED
    BY <2>2, <2>3
<1> HIDE DEF larger
<1> DEFINE t == InsertAt(s, i, x)
<1>2. /\ t \in Seq(Int) /\ Len(t) = Len(s) + 1
      /\ \A k \in 1 .. Len(s) + 1 :
           t[k] = IF k < i THEN s[k] ELSE IF k = i THEN x ELSE s[k - 1]
  BY InsertAtElements
<1>3. DOMAIN s = 1 .. Len(s) /\ DOMAIN t = 1 .. Len(s) + 1
  BY <1>2
<1> HIDE DEF t
<1>a. ASSUME NEW k \in 1 .. Len(s) + 1, k < i
      PROVE  t[k] = s[k] /\ k \in DOMAIN s
  BY <1>2, <1>a
<1>b. t[i] = x
  BY <1>2
<1>c. ASSUME NEW k \in 1 .. Len(s) + 1, k > i
      PROVE  t[k] = s[k - 1] /\ k - 1 \in DOMAIN s
  <2>1. ~(k < i) /\ k # i /\ k - 1 \in DOMAIN s
    BY <1>c
  <2>2. QED
    BY <1>2, <2>1
<1>d. \A k \in DOMAIN s : s[k] \in Int
  OBVIOUS
<1>4. Ascending(t)
  <2>1. SUFFICES ASSUME NEW j \in 1 .. Len(s) + 1, NEW k \in 1 .. Len(s) + 1,
                        j < k
                 PROVE  t[j] < t[k]
    BY <1>3 DEF Ascending
  <2>2. CASE k < i
    BY <1>a, <2>1, <2>2 DEF Ascending
  <2>3. CASE k = i
    BY <1>1, <1>a, <1>b, <2>1, <2>3
  <2>4. CASE j = i
    <3>1. t[k] = s[k - 1] /\ k - 1 \in DOMAIN s /\ k - 1 >= i
      BY <1>c, <2>1, <2>4
    <3>2. QED
      BY <1>1, <1>b, <1>d, <2>4, <3>1
  <2>5. CASE j < i /\ k > i
    <3>1. t[j] = s[j] /\ t[k] = s[k - 1] /\ j < k - 1
          /\ j \in DOMAIN s /\ k - 1 \in DOMAIN s
      BY <1>a, <1>c, <2>5
    <3>2. QED
      BY <3>1 DEF Ascending
  <2>6. CASE j > i
    <3>1. t[j] = s[j - 1] /\ t[k] = s[k - 1] /\ j - 1 < k - 1
          /\ j - 1 \in DOMAIN s /\ k - 1 \in DOMAIN s
      BY <1>c, <2>1, <2>6
    <3>2. QED
      BY <3>1 DEF Ascending
  <2>7. QED
    BY <2>1, <2>2, <2>3, <2>4, <2>5, <2>6
<1>5. ToSet(t) = ToSet(s) \cup {x}
  <2>1. ToSet(t) \subseteq ToSet(s) \cup {x}
    <3>1. SUFFICES ASSUME NEW k \in 1 .. Len(s) + 1
                   PROVE  t[k] \in ToSet(s) \cup {x}
      BY <1>3 DEF ToSet
    <3>2. CASE k < i
      BY <1>a, <3>2 DEF ToSet
    <3>3. CASE k = i
      BY <1>b, <3>3
    <3>4. CASE k > i
      BY <1>c, <3>4 DEF ToSet
    <3>5. QED
      BY <3>2, <3>3, <3>4
  <2>2. x \in ToSet(t)
    BY <1>b, <1>3 DEF ToSet
  <2>3. ASSUME NEW k \in 1 .. Len(s) PROVE s[k] \in ToSet(t)
    <3>1. CASE k < i
      BY <1>a, <1>3, <3>1 DEF ToSet
    <3>2. CASE k >= i
      <4>1. t[k + 1] = s[(k + 1) - 1] /\ k + 1 \in 1 .. Len(s) + 1
        BY <1>c, <3>2
      <4>2. QED
        BY <4>1, <1>3 DEF ToSet
    <3>3. QED
      BY <3>1, <3>2
  <2>4. QED
    BY <2>1, <2>2, <2>3, <1>3 DEF ToSet
<1>6. QED
  BY <1>1, <1>2, <1>4, <1>5 DEF t

LEMMA RemovedFacts ==
    ASSUME NEW s \in Seq(Int), Ascending(s), NEW i \in DOMAIN s
    PROVE  /\ RemoveAt(s, i) \in Seq(Int)
           /\ Ascending(RemoveAt(s, i))
           /\ Len(RemoveAt(s, i)) = Len(s) - 1
           /\ ToSet(RemoveAt(s, i)) = ToSet(s) \ {s[i]}
<1> DEFINE t == RemoveAt(s, i)
<1>1. i \in 1 .. Len(s)
  OBVIOUS
<1>2. /\ t \in Seq(Int) /\ Len(t) = Len(s) - 1
      /\ \A k \in 1 .. Len(s) - 1 : t[k] = IF k < i THEN s[k] ELSE s[k + 1]
  BY <1>1, RemoveAtElements
<1>3. DOMAIN s = 1 .. Len(s) /\ DOMAIN t = 1 .. Len(s) - 1
  BY <1>2
<1> HIDE DEF t
<1>4. ASSUME NEW k \in 1 .. Len(s) - 1
      PROVE  \E n \in 1 .. Len(s) : n # i /\ t[k] = s[n] /\ k <= n /\ n <= k + 1
                                   /\ (n = k + 1 <=> k >= i)
  <2>1. CASE k < i
    <3>1. t[k] = s[k] /\ k \in 1 .. Len(s)
      BY <1>2, <2>1
    <3>2. QED
      BY <2>1, <3>1, SMTT(30)
  <2>2. CASE k >= i
    <3>1. t[k] = s[k + 1] /\ k + 1 \in 1 .. Len(s) /\ k + 1 # i
      BY <1>1, <1>2, <2>2
    <3>2. QED
      BY <2>2, <3>1
  <2>3. QED
    BY <1>1, <2>1, <2>2
<1>5. Ascending(t)
  <2>1. SUFFICES ASSUME NEW j \in 1 .. Len(s) - 1, NEW k \in 1 .. Len(s) - 1,
                        j < k
                 PROVE  t[j] < t[k]
    BY <1>3 DEF Ascending
  <2>2. PICK m \in 1 .. Len(s) :
          t[j] = s[m] /\ j <= m /\ m <= j + 1 /\ (m = j + 1 <=> j >= i)
    BY <1>4
  <2>3. PICK n \in 1 .. Len(s) :
          t[k] = s[n] /\ k <= n /\ n <= k + 1 /\ (n = k + 1 <=> k >= i)
    BY <1>4
  <2>4. m < n
    BY <1>1, <2>1, <2>2, <2>3
  <2>5. QED
    BY <1>3, <2>2, <2>3, <2>4 DEF Ascending
<1>6. \A n \in 1 .. Len(s) : s[n] = s[i] => n = i
  <2>1. \A n \in DOMAIN s : s[n] \in Int
    OBVIOUS
  <2>2. QED
    BY <1>1, <1>3, <2>1 DEF Ascending
<1>7. ToSet(t) \subseteq ToSet(s) \ {s[i]}
  <2>1. SUFFICES ASSUME NEW k \in 1 .. Len(s) - 1
                 PROVE  t[k] \in ToSet(s) \ {s[i]}
    BY <1>3 DEF ToSet
  <2>2. QED
    BY <1>3, <1>4, <1>6 DEF ToSet
<1>8. ASSUME NEW n \in 1 .. Len(s), n # i PROVE s[n] \in ToSet(t)
  <2>1. CASE n < i
    <3>1. n \in 1 .. Len(s) - 1 /\ t[n] = s[n]
      BY <1>1, <1>2, <2>1
    <3>2. QED
      BY <1>3, <3>1 DEF ToSet
  <2>2. CASE n > i
    <3>1. n - 1 \in 1 .. Len(s) - 1 /\ t[n - 1] = s[n]
      BY <1>1, <1>2, <2>2
    <3>2. QED
      BY <1>3, <3>1 DEF ToSet
  <2>3. QED
    BY <1>1, <1>8, <2>1, <2>2
<1>9. ToSet(t) = ToSet(s) \ {s[i]}
  BY <1>3, <1>7, <1>8 DEF ToSet
<1>10. QED
  BY <1>2, <1>5, <1>9 DEF t

-----------------------------------------------------------------------------
(* The inductive invariant. *)

NextInRange == ident_next \in IdentMin .. IdentMax + 1

KeeperInv == TypeOK /\ ListSound /\ NextInRange

USE RangeAssumption DEF Idents, NoIdent

(* A list of reservations as ik_next_ident_locked finds it. *)
Searchable(s) ==
    /\ s \in Seq(Idents)
    /\ Ascending(s)
    /\ \A i \in DOMAIN s : s[i] < ident_next
    /\ NextInRange

LEMMA GapIsFree ==
    ASSUME NEW s \in Seq(Idents), Ascending(s), Mismatches(s) # {}
    PROVE  FirstGap(s) \in Idents \ ToSet(s)
<1> DEFINE m == CHOOSE i \in Mismatches(s) : \A j \in Mismatches(s) : i <= j
<1>1. m \in Mismatches(s) /\ \A j \in Mismatches(s) : m <= j
  <2>1. Mismatches(s) \subseteq Nat
    BY DEF Mismatches
  <2>2. \E i \in Mismatches(s) : \A j \in Mismatches(s) : i <= j
    BY <2>1, FirstPlace
  <2>3. QED
    BY <2>2
<1>2. FirstGap(s) = IdentMin + m - 1
  BY DEF FirstGap
<1> HIDE DEF m
<1>3. m \in 1 .. Len(s) /\ s[m] # IdentMin + m - 1
  BY <1>1 DEF Mismatches
<1>4. ASSUME NEW k \in 1 .. Len(s), k < m PROVE s[k] = IdentMin + k - 1
  <2>1. k \notin Mismatches(s)
    BY <1>1, <1>3, <1>4
  <2>2. k \in DOMAIN s
    OBVIOUS
  <2>3. QED
    BY <2>1, <2>2 DEF Mismatches
<1>5. \A k \in 1 .. Len(s) : s[k] \in Idents
  OBVIOUS
<1>6. s[m] > IdentMin + m - 1
  <2>1. CASE m = 1
    BY <1>3, <1>5, <2>1
  <2>2. CASE m > 1
    <3>1. m - 1 \in 1 .. Len(s) /\ m - 1 < m
      BY <1>3, <2>2
    <3>2. s[m - 1] = IdentMin + (m - 1) - 1 /\ s[m - 1] < s[m]
      BY <1>3, <1>4, <3>1 DEF Ascending
    <3>3. m \in Int /\ s[m] \in Int /\ IdentMin \in Int
      BY <1>3, <1>5
    <3>4. ASSUME NEW a \in Int, NEW b \in Int, NEW c \in Int, NEW n \in Int,
                 a < b, a = c + (n - 1) - 1, b # c + n - 1
          PROVE  b > c + n - 1
      BY <3>4
    <3>5. s[m - 1] \in Int
      BY <1>5, <3>1
    <3>6. QED
      BY <1>3, <3>2, <3>3, <3>4, <3>5
  <2>3. QED
    BY <1>3, <2>1, <2>2
<1>7. IdentMin + m - 1 \in Idents
  BY <1>3, <1>5, <1>6
<1>8. ASSUME NEW k \in 1 .. Len(s) PROVE s[k] # IdentMin + m - 1
  <2>1. CASE k < m
    BY <1>3, <1>4, <2>1
  <2>2. CASE k = m
    BY <1>3, <2>2
  <2>3. CASE k > m
    BY <1>3, <1>5, <1>6, <2>3, SMTT(30) DEF Ascending
  <2>4. QED
    BY <1>3, <2>1, <2>2, <2>3
<1>9. QED
  BY <1>2, <1>7, <1>8 DEF ToSet

(* What ik_next_ident_locked returns is free, and the counter gets past it. *)
LEMMA FreshIdent ==
    ASSUME NEW s, Searchable(s), NextIdent(s) # NoIdent, AdvanceNext
    PROVE  /\ NextIdent(s) \in Idents \ ToSet(s)
           /\ NextIdent(s) < ident_next'
           /\ ident_next <= ident_next'
           /\ ident_next' \in IdentMin .. IdentMax + 1
<1>1. CASE ident_next <= IdentMax
  <2>1. NextIdent(s) = ident_next /\ ident_next' = ident_next + 1
    BY <1>1 DEF NextIdent, AdvanceNext
  <2>2. \A i \in DOMAIN s : s[i] # ident_next
    BY DEF Searchable, NextInRange
  <2>3. QED
    BY <1>1, <2>1, <2>2 DEF Searchable, NextInRange, ToSet
<1>2. CASE ident_next > IdentMax
  <2>1. ident_next' = ident_next /\ NextIdent(s) = FirstGap(s)
    BY <1>2 DEF NextIdent, AdvanceNext, Searchable, NextInRange
  <2>2. Mismatches(s) # {}
    BY <2>1 DEF FirstGap
  <2>3. FirstGap(s) \in Idents \ ToSet(s)
    BY <2>2, GapIsFree DEF Searchable
  <2>4. QED
    BY <1>2, <2>1, <2>3 DEF Searchable, NextInRange
<1>3. QED
  BY <1>1, <1>2 DEF Searchable, NextInRange

(* Inserting a fresh identifier keeps the list in order. *)
LEMMA InsertFresh ==
    ASSUME NEW s, Searchable(s), NextIdent(s) # NoIdent, AdvanceNext
    PROVE  LET t == Inserted(s, NextIdent(s))
           IN  /\ t \in Seq(Idents) /\ Ascending(t) /\ Len(t) = Len(s) + 1
               /\ \A i \in DOMAIN t : t[i] < ident_next'
               /\ ToSet(t) = ToSet(s) \cup {NextIdent(s)}
               /\ NextIdent(s) \in Idents \ ToSet(s)
               /\ ident_next' \in IdentMin .. IdentMax + 1
<1> DEFINE x == NextIdent(s)
           t == Inserted(s, x)
<1>1. /\ x \in Idents \ ToSet(s) /\ x < ident_next' /\ ident_next <= ident_next'
      /\ ident_next' \in IdentMin .. IdentMax + 1
  BY FreshIdent
<1>2. s \in Seq(Int) /\ Ascending(s) /\ x \in Int
  BY <1>1 DEF Searchable
<1>3. /\ t \in Seq(Int) /\ Ascending(t) /\ Len(t) = Len(s) + 1
      /\ ToSet(t) = ToSet(s) \cup {x}
  BY <1>1, <1>2, InsertedFacts
<1> HIDE DEF x, t
<1>4. ASSUME NEW i \in DOMAIN t PROVE t[i] \in Idents /\ t[i] < ident_next'
  <2>1. t[i] \in ToSet(s) \cup {x}
    BY <1>3 DEF ToSet
  <2>2. CASE t[i] = x
    BY <1>1, <2>2
  <2>3. CASE t[i] \in ToSet(s)
    BY <1>1, <2>3 DEF Searchable, ToSet, NextInRange
  <2>4. QED
    BY <2>1, <2>2, <2>3
<1>5. t \in Seq(Idents)
  BY <1>3, <1>4
<1>6. QED
  BY <1>1, <1>3, <1>4, <1>5 DEF x, t

(* Taking a reservation off the list keeps it in order. *)
LEMMA RemoveOne ==
    ASSUME KeeperInv, NEW i \in DOMAIN reservations
    PROVE  /\ Searchable(RemoveAt(reservations, i))
           /\ Len(RemoveAt(reservations, i)) = Len(reservations) - 1
           /\ ToSet(RemoveAt(reservations, i))
                = ToSet(reservations) \ {reservations[i]}
<1> DEFINE s == reservations
           t == RemoveAt(s, i)
<1>1. s \in Seq(Int) /\ Ascending(s)
  BY DEF KeeperInv, TypeOK, ListSound, Ascending
<1>2. /\ t \in Seq(Int) /\ Ascending(t) /\ Len(t) = Len(s) - 1
      /\ ToSet(t) = ToSet(s) \ {s[i]}
  BY <1>1, RemovedFacts
<1>3. \A n \in DOMAIN s : s[n] \in Idents /\ s[n] < ident_next
  BY DEF KeeperInv, TypeOK, ListSound
<1> HIDE DEF s, t
<1>4. \A k \in DOMAIN t : t[k] \in Idents /\ t[k] < ident_next
  BY <1>2, <1>3 DEF ToSet
<1>5. t \in Seq(Idents)
  BY <1>2, <1>4
<1>6. QED
  BY <1>2, <1>4, <1>5 DEF s, t, Searchable, KeeperInv

LEMMA ListIsSearchable == KeeperInv => Searchable(reservations)
  BY DEF KeeperInv, TypeOK, ListSound, Searchable, Ascending

-----------------------------------------------------------------------------

LEMMA InvInit == Init => KeeperInv
<1> SUFFICES ASSUME Init PROVE KeeperInv
  OBVIOUS
<1>1. ident_next \in 0 .. Modulus - 1 /\ NextInRange
  BY DEF Init, NextInRange
<1>2. reservations \in Seq(Idents) /\ locked \in BOOLEAN
  <2>1. reservations \in Seq(Idents)
    BY EmptySeq DEF Init
  <2>2. locked \in BOOLEAN
    BY DEF Init
  <2>3. QED
    BY <2>1, <2>2
<1>3. DOMAIN reservations = {}
  BY DEF Init
<1>4. QED
  BY <1>1, <1>2, <1>3 DEF KeeperInv, TypeOK, ListSound

LEMMA InvReserve == KeeperInv /\ Reserve => KeeperInv'
<1> SUFFICES ASSUME KeeperInv, Reserve PROVE KeeperInv'
  OBVIOUS
<1>1. Searchable(reservations)
  BY ListIsSearchable
<1>2. /\ reservations' \in Seq(Idents) /\ Ascending(reservations')
      /\ \A i \in DOMAIN reservations' : reservations'[i] < ident_next'
      /\ ident_next' \in IdentMin .. IdentMax + 1
  BY <1>1, InsertFresh DEF Reserve
<1>3. QED
  BY <1>2 DEF KeeperInv, TypeOK, ListSound, NextInRange, Ascending, Reserve

LEMMA InvReserveNoMemory == KeeperInv /\ ReserveNoMemory => KeeperInv'
<1> SUFFICES ASSUME KeeperInv, ReserveNoMemory PROVE KeeperInv'
  OBVIOUS
<1>1. Searchable(reservations)
  BY ListIsSearchable
<1>2. ident_next <= ident_next' /\ ident_next' \in IdentMin .. IdentMax + 1
  BY <1>1, FreshIdent DEF ReserveNoMemory
<1>3. \A i \in DOMAIN reservations : reservations[i] \in Int
  BY DEF KeeperInv, TypeOK
<1>4. QED
  BY <1>2, <1>3 DEF KeeperInv, TypeOK, ListSound, NextInRange, ReserveNoMemory

(* When the invalid reservation is freed, the counter has run out and      *)
(* stays where it is.                                                      *)
LEMMA InvValidate ==
    ASSUME KeeperInv, NEW i \in DOMAIN reservations, Validate(i)
    PROVE  KeeperInv'
<1> DEFINE rest == RemoveAt(reservations, i)
<1>1. Searchable(rest)
  BY RemoveOne
<1> HIDE DEF rest
<1>2. CASE NextIdent(rest) = NoIdent
  <2>1. reservations' = rest
    BY <1>2 DEF Validate, rest
  <2>2. ident_next' = ident_next
    <3>1. ident_next > IdentMax
      BY <1>1, <1>2 DEF NextIdent, Searchable, NextInRange
    <3>2. QED
      BY <1>1, <3>1 DEF Validate, AdvanceNext, Searchable, NextInRange
  <2>3. QED
    BY <1>1, <2>1, <2>2
       DEF KeeperInv, TypeOK, ListSound, NextInRange, Searchable, Ascending,
           Validate
<1>3. CASE NextIdent(rest) # NoIdent
  <2>1. reservations' = Inserted(rest, NextIdent(rest))
    BY <1>3 DEF Validate, rest
  <2>2. /\ reservations' \in Seq(Idents) /\ Ascending(reservations')
        /\ \A k \in DOMAIN reservations' : reservations'[k] < ident_next'
        /\ ident_next' \in IdentMin .. IdentMax + 1
    BY <1>1, <1>3, <2>1, InsertFresh DEF Validate
  <2>3. QED
    BY <2>2 DEF KeeperInv, TypeOK, ListSound, NextInRange, Ascending, Validate
<1>4. QED
  BY <1>2, <1>3

LEMMA InvDispose ==
    ASSUME KeeperInv, NEW i \in DOMAIN reservations, Dispose(i)
    PROVE  KeeperInv'
<1> DEFINE s == reservations
           rest == RemoveAt(reservations, i)
<1>1. Searchable(rest) /\ ToSet(rest) = ToSet(s) \ {s[i]}
  BY RemoveOne
<1>2. s[i] \in Idents /\ \A k \in DOMAIN rest : rest[k] \in Idents
  BY <1>1 DEF KeeperInv, TypeOK, Searchable
<1>3. reservations' = rest
  BY DEF Dispose
<1> HIDE DEF s, rest
<1>4. CASE ident_next - 1 = s[i]
  <2>1. ident_next' = ident_next - 1
    BY <1>4 DEF Dispose, s
  <2>2. ASSUME NEW k \in DOMAIN rest PROVE rest[k] < ident_next'
    <3>1. rest[k] # s[i] /\ rest[k] < ident_next
      BY <1>1 DEF ToSet, Searchable
    <3>2. QED
      BY <1>1, <1>2, <1>4, <2>1, <3>1 DEF Searchable, NextInRange
  <2>3. ident_next' \in IdentMin .. IdentMax + 1
    BY <1>1, <1>2, <1>4, <2>1 DEF Searchable, NextInRange
  <2>4. QED
    BY <1>1, <1>3, <2>2, <2>3
       DEF KeeperInv, TypeOK, ListSound, NextInRange, Searchable, Ascending,
           Dispose
<1>5. CASE ident_next - 1 # s[i]
  <2>1. ident_next' = ident_next
    BY <1>5 DEF Dispose, s
  <2>2. QED
    BY <1>1, <1>3, <2>1
       DEF KeeperInv, TypeOK, ListSound, NextInRange, Searchable, Ascending,
           Dispose
<1>6. QED
  BY <1>4, <1>5

LEMMA InvNext == KeeperInv /\ [Next]_vars => KeeperInv'
<1> SUFFICES ASSUME KeeperInv, [Next]_vars PROVE KeeperInv'
  OBVIOUS
<1>1. CASE Reserve
  BY <1>1, InvReserve
<1>2. CASE ReserveNoMemory
  BY <1>2, InvReserveNoMemory
<1>3. ASSUME NEW i \in DOMAIN reservations, Validate(i) PROVE KeeperInv'
  BY <1>3, InvValidate
<1>4. ASSUME NEW i \in DOMAIN reservations, Dispose(i) PROVE KeeperInv'
  BY <1>4, InvDispose
<1>5. CASE UNCHANGED vars
  BY <1>5 DEF KeeperInv, TypeOK, ListSound, NextInRange, vars
<1>6. QED
  BY <1>1, <1>2, <1>3, <1>4, <1>5 DEF Next

LEMMA InvHolds == Spec => []KeeperInv
  BY InvInit, InvNext, PTL DEF Spec

(***************************************************************************)
(* Whatever is reserved, validated and disposed, the list holds            *)
(* identifiers of the range only, never the -1 of a search that failed,    *)
(* and the counter stays within the width of an identifier.                *)
(***************************************************************************)
THEOREM TypesHold == Spec => []TypeOK
<1>1. KeeperInv => TypeOK
  BY DEF KeeperInv
<1>2. QED
  BY <1>1, InvHolds, PTL

(***************************************************************************)
(* The list of reservations stays strictly ascending, without duplicates,  *)
(* and below ident_next, whatever ik_reserve, ik_validate_reservation and  *)
(* ik_dispose are called with and whenever malloc fails.                   *)
(***************************************************************************)
THEOREM ListStaysSound == Spec => []ListSound
<1>1. KeeperInv => ListSound
  BY DEF KeeperInv
<1>2. QED
  BY <1>1, InvHolds, PTL

(***************************************************************************)
(* As long as the largest identifier is reserved or was not handed out,    *)
(* ik_reserve fails exactly when all identifiers are reserved.             *)
(***************************************************************************)
THEOREM FreeIdentIsFound == Spec => []FreeOneFound
<1>1. KeeperInv => FreeOneFound
  <2> SUFFICES ASSUME KeeperInv,
                      ident_next <= IdentMax \/ IdentMax \in ToSet(reservations)
               PROVE  NextIdent(reservations) = NoIdent
                        <=> ToSet(reservations) = Idents
    BY DEF FreeOneFound
  <2> DEFINE s == reservations
  <2>1. /\ s \in Seq(Idents) /\ Ascending(s) /\ NextInRange
        /\ \A i \in DOMAIN s : s[i] < ident_next
    BY ListIsSearchable DEF Searchable
  <2>2. CASE ident_next <= IdentMax
    <3>1. NextIdent(s) = ident_next /\ ident_next \in Idents
      BY <2>1, <2>2 DEF NextIdent, NextInRange
    <3>2. \A i \in DOMAIN s : s[i] # ident_next
      BY <2>1, <3>1
    <3>3. ident_next \notin ToSet(s) /\ ident_next # NoIdent
      BY <3>1, <3>2 DEF ToSet
    <3>4. QED
      BY <3>1, <3>3
  <2>3. CASE ident_next > IdentMax /\ Mismatches(s) # {}
    <3>1. NextIdent(s) = FirstGap(s)
      BY <2>1, <2>3 DEF NextIdent, NextInRange
    <3>2. FirstGap(s) \in Idents \ ToSet(s)
      BY <2>1, <2>3, GapIsFree
    <3>3. QED
      BY <3>1, <3>2
  <2>4. CASE ident_next > IdentMax /\ Mismatches(s) = {}
    <3>1. NextIdent(s) = NoIdent
      BY <2>1, <2>4 DEF NextIdent, FirstGap, NextInRange
    <3>2. \A i \in 1 .. Len(s) : s[i] = IdentMin + i - 1
      BY <2>1, <2>4 DEF Mismatches
    <3>3. IdentMax \in ToSet(s)
      BY <2>1, <2>4 DEF NextInRange
    <3>4. PICK n \in 1 .. Len(s) : s[n] = IdentMax
      BY <2>1, <3>3 DEF ToSet
    <3>5. n = IdentMax - IdentMin + 1
      BY <2>1, <3>2, <3>4
    <3>6. ASSUME NEW x \in Idents PROVE x \in ToSet(s)
      <4>1. x - IdentMin + 1 \in 1 .. Len(s)
        BY <2>1, <3>4, <3>5
      <4>2. s[x - IdentMin + 1] = x
        BY <3>2, <4>1
      <4>3. QED
        BY <2>1, <4>1, <4>2 DEF ToSet
    <3>7. ToSet(s) \subseteq Idents
      BY <2>1 DEF ToSet
    <3>8. QED
      BY <3>1, <3>6, <3>7
  <2>5. QED
    BY <2>1, <2>2, <2>3, <2>4 DEF NextInRange
<1>2. QED
  BY <1>1, InvHolds, PTL

-----------------------------------------------------------------------------

(***************************************************************************)
(* ident_keeper implements a pool of identifiers: nobody is given one that *)
(* is reserved already.  Each step of the keeper is a step of the pool, or *)
(* none: ik_reserve grants, ik_dispose releases, ik_validate_reservation   *)
(* exchanges or releases, and a failing malloc changes the counter only.   *)
(***************************************************************************)
THEOREM KeeperIsAPool == Spec => PoolSpec
<1> DEFINE s == reservations
<1>1. Init => Pool!PoolInit
  BY DEF Init, Pool!PoolInit, ToSet
<1>2. ASSUME KeeperInv, Reserve PROVE Pool!Grant
  <2>1. Searchable(s)
    BY <1>2, ListIsSearchable
  <2>2. /\ Len(s') = Len(s) + 1 /\ ToSet(s') = ToSet(s) \cup {NextIdent(s)}
        /\ NextIdent(s) \in Idents \ ToSet(s)
    BY <1>2, <2>1, InsertFresh DEF Reserve
  <2>3. QED
    BY <2>2 DEF Pool!Grant
<1>3. ASSUME KeeperInv, NEW i \in DOMAIN s, Dispose(i) PROVE Pool!Release
  <2>1. Len(s') = Len(s) - 1 /\ ToSet(s') = ToSet(s) \ {s[i]}
    BY <1>3, RemoveOne DEF Dispose
  <2>2. s[i] \in ToSet(s)
    BY DEF ToSet
  <2>3. QED
    BY <2>1, <2>2 DEF Pool!Release
<1>4. ASSUME KeeperInv, NEW i \in DOMAIN s, Validate(i)
      PROVE  Pool!Release \/ Pool!Exchange
  <2> DEFINE rest == RemoveAt(s, i)
  <2>1. /\ Searchable(rest) /\ Len(rest) = Len(s) - 1
        /\ ToSet(rest) = ToSet(s) \ {s[i]}
    BY <1>4, RemoveOne
  <2>2. s[i] \in ToSet(s) /\ Len(s) \in Int
    BY <1>4 DEF ToSet, KeeperInv, TypeOK
  <2>3. CASE NextIdent(rest) = NoIdent
    <3>1. s' = rest
      BY <1>4, <2>3 DEF Validate
    <3>2. QED
      BY <2>1, <2>2, <3>1 DEF Pool!Release
  <2>4. CASE NextIdent(rest) # NoIdent
    <3>1. s' = Inserted(rest, NextIdent(rest)) /\ AdvanceNext
      BY <1>4, <2>4 DEF Validate
    <3>2. /\ Len(s') = Len(rest) + 1
          /\ ToSet(s') = ToSet(rest) \cup {NextIdent(rest)}
          /\ NextIdent(rest) \in Idents \ ToSet(rest)
      BY <2>1, <2>4, <3>1, InsertFresh
    <3> HIDE DEF rest
    <3>3. Len(s') = Len(s)
      BY <2>1, <2>2, <3>2
    <3>4. /\ ToSet(s') = (ToSet(s) \ {s[i]}) \cup {NextIdent(rest)}
          /\ NextIdent(rest) \in Idents \ (ToSet(s) \ {s[i]})
      BY <2>1, <3>2
    <3>5. QED
      BY <2>2, <3>3, <3>4 DEF Pool!Exchange
  <2>5. QED
    BY <2>3, <2>4
<1>5. KeeperInv /\ [Next]_vars
        => [Pool!PoolNext]_<<ToSet(reservations), Len(reservations)>>
  <2> SUFFICES ASSUME KeeperInv, [Next]_vars
               PROVE  [Pool!PoolNext]_<<ToSet(reservations), Len(reservations)>>
    OBVIOUS
  <2>1. CASE ReserveNoMemory \/ UNCHANGED vars
    BY <2>1 DEF ReserveNoMemory, vars
  <2>2. CASE Reserve
    BY <1>2, <2>2 DEF Pool!PoolNext
  <2>3. CASE \E i \in DOMAIN reservations : Validate(i) \/ Dispose(i)
    BY <1>3, <1>4, <2>3 DEF Pool!PoolNext
  <2>4. QED
    BY <2>1, <2>2, <2>3 DEF Next
<1>6. QED
  BY <1>1, <1>5, InvHolds, PTL DEF Spec, PoolSpec, Pool!PoolSpec

=============================================================================
