---------------------------- MODULE OrderKeysProofs ----------------------------
(***************************************************************************)
(* Sort keys do not run out, for every alphabet of at least three digits,  *)
(* every number of rows, migrated or not, and every length of keys.        *)
(*                                                                         *)
(* No key that is made ends with the first digit, and between two keys     *)
(* there is a gap at the latest one digit after the end of both.  A key    *)
(* made at the first gap is above the lower neighbour because it begins    *)
(* with its digits.  It is below the upper one if the two neighbours, the  *)
(* lower one padded with first digits, differ somewhere: they first do     *)
(* there or before.  They do not differ only if the upper key ends with    *)
(* the first digit, so that its row was migrated and never moved, and the  *)
(* lower key is shorter, so that its row was not.                          *)
(***************************************************************************)
EXTENDS OrderKeys, WellFoundedInduction, TLAPS

LEMMA LeastElement ==
    ASSUME NEW T, T \subseteq Nat, T # {}
    PROVE  \E x \in T : \A y \in T : x <= y
<1>1. PICK x \in T : \A y \in T : ~ (<<y, x>> \in OpToRel(<, Nat))
  BY NatLessThanWellFounded, WFMin
<1>2. \A y \in T : ~ (y < x)
  BY <1>1 DEF OpToRel
<1> QED  BY <1>2

-----------------------------------------------------------------------------
(* One key between two.                                                    *)

LEMMA Middle ==
    ASSUME NEW a \in Nat, NEW b \in Nat, b - a > 1
    PROVE  (a + b) \div 2 \in Nat /\ a < (a + b) \div 2 /\ (a + b) \div 2 < b
OBVIOUS

\* The digits that are compared.
LEMMA Digits ==
    ASSUME NEW s \in String, NEW i \in Nat \ {0}
    PROVE  /\ Low(s, i) \in Digit /\ High(s, i) \in Digit
           /\ i <= Len(s) => Low(s, i) = s[i] /\ High(s, i) = s[i]
           /\ i > Len(s) => Low(s, i) = 0 /\ High(s, i) = Base - 1
           /\ Low(s, i) \in Nat /\ High(s, i) \in Nat
<1>1. Len(s) \in Nat /\ (i <= Len(s) => s[i] \in Digit)
  BY DEF String
<1>2. 0 \in Digit /\ Base - 1 \in Digit
  BY BaseAssumption DEF Digit
<1>3. Low(s, i) \in Digit /\ High(s, i) \in Digit
  BY <1>1, <1>2 DEF Low, High, DigitAt
<1>4. Low(s, i) \in Nat /\ High(s, i) \in Nat
  BY <1>3, BaseAssumption DEF Digit
<1> QED  BY <1>1, <1>3, <1>4 DEF Low, High, DigitAt

\* One digit after the longer of the two there is a gap, hence a first one.
LEMMA GapExists ==
    ASSUME NEW p \in String, NEW n \in String
    PROVE  \E k \in 1 .. (Longer(p, n) + 1) : IsFirstGap(p, n, k)
<1> DEFINE end == Longer(p, n) + 1
           T == {k \in 1 .. end : High(n, k) - Low(p, k) > 1}
<1>1. /\ end \in Nat \ {0} /\ end > Len(p) /\ end > Len(n)
  BY DEF Longer, String
<1>2. Low(p, end) = 0 /\ High(n, end) = Base - 1
  BY <1>1, Digits
<1>3. end \in T
  BY <1>1, <1>2, BaseAssumption
<1>4. PICK k \in T : \A y \in T : k <= y
  <2>1. T \subseteq Nat
    BY <1>1
  <2> HIDE DEF T
  <2> QED  BY <1>3, <2>1, LeastElement
<1>5. ASSUME NEW i \in 1 .. (k - 1) PROVE High(n, i) - Low(p, i) <= 1
  <2>1. i \in 1 .. end /\ i \notin T /\ i \in Nat \ {0}
    BY <1>1, <1>4
  <2>2. High(n, i) \in Int /\ Low(p, i) \in Int
    BY <2>1, Digits, BaseAssumption DEF Digit
  <2> QED  BY <2>1, <2>2
<1> QED  BY <1>4, <1>5 DEF IsFirstGap

\* A key at the first gap, digit by digit.
LEMMA KeyAtDigits ==
    ASSUME NEW p \in String, NEW n \in String, NEW k \in Nat \ {0}, IsFirstGap(p, n, k)
    PROVE  /\ KeyAt(p, n, k) \in Key /\ Len(KeyAt(p, n, k)) = k
           /\ \A i \in 1 .. (k - 1) : KeyAt(p, n, k)[i] = Low(p, i)
           /\ Low(p, k) < KeyAt(p, n, k)[k] /\ KeyAt(p, n, k)[k] < High(n, k)
<1> DEFINE c == KeyAt(p, n, k)
           mid == (Low(p, k) + High(n, k)) \div 2
<1>1. Low(p, k) \in Nat /\ High(n, k) \in Nat /\ High(n, k) < Base /\ High(n, k) - Low(p, k) > 1
  BY Digits, BaseAssumption DEF Digit, IsFirstGap
<1>2. mid \in Nat /\ Low(p, k) < mid /\ mid < High(n, k)
  BY <1>1, Middle
<1>3. mid \in Digit
  BY <1>1, <1>2, BaseAssumption DEF Digit
<1>4. \A i \in 1 .. (k - 1) : c[i] = Low(p, i) /\ c[i] \in Digit
  BY Digits DEF KeyAt
<1>5. c[k] = mid
  BY DEF KeyAt
<1>6. c \in [1 .. k -> Digit]
  <2>1. \A i \in 1 .. k : c[i] \in Digit
    BY <1>3, <1>4, <1>5
  <2>2. c = [i \in 1 .. k |-> c[i]]
    BY DEF KeyAt
  <2> QED  BY <2>1, <2>2
<1>7. c \in String /\ Len(c) = k
  BY <1>6 DEF String
<1>8. c # <<>> /\ c[Len(c)] # 0
  BY <1>1, <1>2, <1>5, <1>7
<1> QED  BY <1>2, <1>4, <1>5, <1>7, <1>8 DEF Key

\* The key is above the lower neighbour: it has its digits, and then a higher one or more.
LEMMA AboveLower ==
    ASSUME NEW p \in String, NEW n \in String, NEW k \in Nat \ {0}, IsFirstGap(p, n, k)
    PROVE  Less(p, KeyAt(p, n, k))
<1> DEFINE c == KeyAt(p, n, k)
<1>1. /\ Len(c) = k /\ Len(p) \in Nat /\ Low(p, k) < c[k]
      /\ \A i \in 1 .. (k - 1) : c[i] = Low(p, i)
  BY KeyAtDigits DEF String
<1>2. ASSUME NEW i \in 1 .. (k - 1), i <= Len(p) PROVE c[i] = p[i]
  <2>1. c[i] = Low(p, i)
    BY <1>1
  <2>2. i \in Nat \ {0}
    OBVIOUS
  <2>3. Low(p, i) = p[i]
    BY <1>2, <2>2, Digits
  <2> QED  BY <2>1, <2>3
<1>3. CASE k <= Len(p)
  <2>1. p[k] < c[k]
    BY <1>1, <1>3, Digits
  <2> QED  BY <1>1, <1>2, <1>3, <2>1 DEF Less
<1>4. CASE k > Len(p)
  <2>1. Len(p) + 1 \in 1 .. Len(c)
    BY <1>1, <1>4
  <2>2. \A j \in 1 .. Len(p) : p[j] = c[j]
    BY <1>1, <1>2, <1>4
  <2> QED  BY <1>1, <2>1, <2>2 DEF Less
<1> QED  BY <1>1, <1>3, <1>4

\* Where the upper neighbour first differs from the lower one, padded with first
\* digits, it is higher.
LEMMA FirstDifference ==
    ASSUME NEW p \in String, NEW n \in String, Less(p, n), ~Flush(p, n)
    PROVE  \E e \in 1 .. Len(n) : Low(p, e) < n[e] /\ \A j \in 1 .. (e - 1) : Low(p, j) = n[j]
<1> DEFINE T == {i \in 1 .. Len(n) : Low(p, i) # n[i]}
<1>1. /\ Len(n) \in Nat /\ Len(p) \in Nat
      /\ \A i \in 1 .. Len(n) : n[i] \in Nat
  BY BaseAssumption DEF String, Digit
<1>2. PICK d \in 1 .. Len(n) : /\ d <= Len(p) => p[d] < n[d]
                               /\ \A j \in 1 .. (d - 1) : j <= Len(p) /\ p[j] = n[j]
  BY DEF Less
<1>3. ASSUME NEW i \in 1 .. Len(n), i <= Len(p) PROVE Low(p, i) = p[i] /\ p[i] \in Nat
  <2>1. i \in Nat \ {0}
    BY <1>1
  <2> QED  BY <1>3, <2>1, Digits
<1>4. \A i \in 1 .. Len(n) : i > Len(p) => Low(p, i) = 0
  BY <1>1, Digits
<1>5. T # {}
  <2>1. CASE d <= Len(p)
    BY <1>1, <1>2, <1>3, <2>1
  <2>2. CASE d > Len(p)
    <3>1. Len(p) < Len(n)
      BY <1>1, <2>2
    <3>2. PICK i \in 1 .. Len(n) : n[i] # IF i <= Len(p) THEN p[i] ELSE 0
      BY <3>1 DEF Flush
    <3>3. Low(p, i) # n[i]
      BY <1>1, <1>3, <1>4, <3>2
    <3> QED  BY <3>3
  <2> QED  BY <1>1, <2>1, <2>2
<1>6. PICK e \in T : \A y \in T : e <= y
  <2>1. T \subseteq Nat
    BY <1>1
  <2> HIDE DEF T
  <2> QED  BY <1>5, <2>1, LeastElement
<1>7. \A j \in 1 .. (e - 1) : Low(p, j) = n[j]
  BY <1>1, <1>6
<1>8. e >= d
  BY <1>1, <1>2, <1>3, <1>6
<1>9. Low(p, e) < n[e]
  <2>1. CASE d <= Len(p)
    <3>1. d \in T
      BY <1>1, <1>2, <1>3, <2>1
    <3>2. e = d
      BY <1>1, <1>6, <1>8, <3>1
    <3> QED  BY <1>2, <1>3, <2>1, <3>2
  <2>2. CASE d > Len(p)
    <3>1. Low(p, e) = 0 /\ n[e] # 0 /\ n[e] \in Nat
      BY <1>1, <1>4, <1>6, <1>8, <2>2
    <3> QED  BY <3>1
  <2> QED  BY <1>1, <2>1, <2>2
<1> QED  BY <1>6, <1>7, <1>9

\* The key is below the upper neighbour.
LEMMA BelowUpper ==
    ASSUME NEW p \in String, NEW n \in String, Less(p, n), ~Flush(p, n),
           NEW k \in Nat \ {0}, IsFirstGap(p, n, k)
    PROVE  Less(KeyAt(p, n, k), n)
<1> DEFINE c == KeyAt(p, n, k)
<1>1. /\ Len(c) = k /\ c[k] < High(n, k) /\ c \in String
      /\ \A i \in 1 .. (k - 1) : c[i] = Low(p, i)
  BY KeyAtDigits DEF Key
<1>2. PICK e \in 1 .. Len(n) : Low(p, e) < n[e] /\ \A j \in 1 .. (e - 1) : Low(p, j) = n[j]
  BY FirstDifference
<1>3. Len(n) \in Nat /\ e \in Nat \ {0}
  BY <1>2 DEF String
<1>4. ASSUME NEW j \in 1 .. Len(n) PROVE High(n, j) = n[j] /\ n[j] \in Nat
  <2>1. j \in Nat \ {0} /\ j <= Len(n)
    BY <1>3
  <2> QED  BY <1>3, <2>1, Digits
<1>5. k >= e
  <2> SUFFICES ASSUME k < e PROVE FALSE
    BY <1>3
  <2>1. High(n, k) = Low(p, k)
    BY <1>2, <1>3, <1>4
  <2> QED  BY <1>3, <1>4, <2>1 DEF IsFirstGap
<1>6. c[e] < n[e]
  BY <1>1, <1>2, <1>3, <1>4, <1>5
<1>7. \A j \in 1 .. (e - 1) : j <= Len(c) /\ c[j] = n[j]
  BY <1>1, <1>2, <1>3, <1>5
<1> QED  BY <1>1, <1>2, <1>6, <1>7 DEF Less

\* Between a key and the same key followed by first digits there is none.
LEMMA NothingBetween ==
    ASSUME NEW p \in String, NEW n \in String, Flush(p, n),
           NEW k \in Nat \ {0}, IsFirstGap(p, n, k)
    PROVE  ~Less(KeyAt(p, n, k), n)
<1> DEFINE c == KeyAt(p, n, k)
<1>1. Len(c) = k /\ \A i \in 1 .. (k - 1) : c[i] = Low(p, i)
  BY KeyAtDigits
<1>2. Len(p) \in Nat /\ Len(n) \in Nat /\ \A i \in 1 .. Len(n) : n[i] \in Nat
  BY BaseAssumption DEF String, Digit
<1>3. ASSUME NEW i \in 1 .. Len(n) PROVE Low(p, i) = n[i] /\ High(n, i) = n[i]
  <2>1. i \in Nat \ {0} /\ i <= Len(n)
    BY <1>2
  <2>2. n[i] = IF i <= Len(p) THEN p[i] ELSE 0
    BY DEF Flush
  <2>3. High(n, i) = n[i] /\ (i <= Len(p) => Low(p, i) = p[i]) /\ (i > Len(p) => Low(p, i) = 0)
    BY <2>1, Digits
  <2> QED  BY <1>2, <2>1, <2>2, <2>3
<1>4. k > Len(n)
  <2> SUFFICES ASSUME k <= Len(n) PROVE FALSE
    BY <1>2
  <2> QED  BY <1>2, <1>3 DEF IsFirstGap
<1>5. \A i \in 1 .. Len(n) : i <= Len(c) /\ c[i] = n[i]
  BY <1>1, <1>2, <1>3, <1>4
<1> QED  BY <1>2, <1>5 DEF Less

\* createOrderKeyBetween: a key at most one digit longer than its neighbours, which fits
\* unless nothing does.
LEMMA BetweenFits ==
    ASSUME NEW p \in String, NEW n \in String, n # <<>> => Less(p, n)
    PROVE  /\ Between(p, n) \in Key
           /\ Len(Between(p, n)) <= Longer(p, n) + 1
           /\ Fits(Between(p, n), p, n) <=> ~Flush(p, n)
<1>1. Longer(p, n) \in Nat
  BY DEF Longer, String
<1>2. PICK k \in 1 .. (Longer(p, n) + 1) : IsFirstGap(p, n, k) /\ Between(p, n) = KeyAt(p, n, k)
  <2> DEFINE g == CHOOSE k \in 1 .. (Longer(p, n) + 1) : IsFirstGap(p, n, k)
  <2>1. g \in 1 .. (Longer(p, n) + 1) /\ IsFirstGap(p, n, g)
    BY GapExists
  <2> QED  BY <2>1 DEF Between
<1>3. k \in Nat \ {0}
  BY <1>1, <1>2
<1>4. Between(p, n) \in Key /\ Len(Between(p, n)) <= Longer(p, n) + 1
  BY <1>1, <1>2, <1>3, KeyAtDigits
<1>5. Less(p, Between(p, n))
  BY <1>2, <1>3, AboveLower
<1>6. ASSUME ~Flush(p, n), n # <<>> PROVE Less(Between(p, n), n)
  BY <1>2, <1>3, <1>6, BelowUpper
<1>7. ASSUME Flush(p, n) PROVE n # <<>> /\ ~Less(Between(p, n), n)
  <2>1. n # <<>>
    BY <1>7 DEF Flush, String
  <2> QED  BY <1>2, <1>3, <1>7, <2>1, NothingBetween
<1> QED  BY <1>4, <1>5, <1>6, <1>7 DEF Fits

-----------------------------------------------------------------------------
(* The list.                                                               *)

\* Every key there is, or none.
LEMMA KeysOfRows ==
    ASSUME TypeOK, NEW r \in Row \union {None}
    PROVE  KeyOf(r) \in String /\ (r \in Rows => KeyOf(r) = key[r] /\ key[r] # <<>>)
<1>1. <<>> \in String
  BY DEF String
<1>2. r \in Row => r # None
  BY RowAssumption DEF None
<1> QED  BY <1>1, <1>2 DEF TypeOK, KeyOf, Rows

LEMMA PlaceType ==
    ASSUME TypeOK, NEW r \in Row, NEW p \in String, NEW n \in String,
           n # <<>> => Less(p, n), Place(r, p, n), hidden' = hidden
    PROVE  TypeOK'
<1>1. Between(p, n) \in Key
  BY BetweenFits
<1>2. key' = [key EXCEPT ![r] = Between(p, n)]
  BY DEF Place
<1>3. Between(p, n) # <<>> /\ Between(p, n) \in String
  BY <1>1 DEF Key
<1>4. key' \in [Row -> String] /\ key'[r] = Between(p, n)
  BY <1>2, <1>3 DEF TypeOK
<1>5. Rows \subseteq Rows'
  BY <1>2, <1>3 DEF Rows, TypeOK
<1>6. ASSUME NEW q \in (Rows \ Kept)' PROVE key'[q] \in Key
  <2>1. CASE q = r
    BY <1>1, <1>4, <2>1
  <2>2. CASE q # r
    <3>1. key'[q] = key[q] /\ q \in Row
      BY <1>2, <2>2 DEF Rows, TypeOK
    <3>2. q \in Rows \ Kept
      BY <1>6, <3>1 DEF Rows, Kept
    <3> QED  BY <3>1, <3>2 DEF TypeOK
  <2> QED  BY <2>1, <2>2
<1> QED  BY <1>4, <1>5, <1>6 DEF TypeOK

LEMMA TypeStep ==
    ASSUME TypeOK, [Next]_vars
    PROVE  TypeOK'
<1>0. <<>> \in String /\ \A n \in String : n # <<>> => Less(<<>>, n)
  BY DEF String, Less
<1>1. ASSUME NEW r \in Row, AddLast(r) PROVE TypeOK'
  <2>1. CASE Place(r, <<>>, <<>>)
    BY <1>0, <1>1, <2>1, PlaceType DEF AddLast
  <2>2. ASSUME NEW l \in Last, Place(r, key[l], <<>>) PROVE TypeOK'
    <3>1. key[l] \in String
      BY DEF Last, Rows, TypeOK
    <3> QED  BY <1>0, <1>1, <2>2, <3>1, PlaceType DEF AddLast
  <2> QED  BY <1>1, <2>1, <2>2 DEF AddLast
<1>2. ASSUME NEW r \in Row, AddFirst(r) PROVE TypeOK'
  <2>1. CASE Place(r, <<>>, <<>>)
    BY <1>0, <1>2, <2>1, PlaceType DEF AddFirst
  <2>2. ASSUME NEW f \in First, Place(r, <<>>, key[f]) PROVE TypeOK'
    <3>1. key[f] \in String
      BY DEF First, Rows, TypeOK
    <3> QED  BY <1>0, <1>2, <2>2, <3>1, PlaceType DEF AddFirst
  <2> QED  BY <1>2, <2>1, <2>2 DEF AddFirst
<1>3. ASSUME NEW r \in Row, NEW p \in Row \union {None}, NEW n \in Row \union {None}, Move(r, p, n)
      PROVE  TypeOK'
  <2>1. KeyOf(p) \in String /\ KeyOf(n) \in String
    BY KeysOfRows
  <2>2. KeyOf(n) # <<>> => Less(KeyOf(p), KeyOf(n))
    BY <1>0, <1>3, <2>1 DEF Move, KeyOf
  <2> QED  BY <1>3, <2>1, <2>2, PlaceType DEF Move
<1>4. ASSUME NEW r \in Row, Remove(r) PROVE TypeOK'
  <2>1. key' = [key EXCEPT ![r] = <<>>] /\ hidden' = hidden \ {r}
    BY <1>4 DEF Remove
  <2>2. key' \in [Row -> String] /\ Rows' = Rows \ {r}
    BY <1>0, <2>1 DEF TypeOK, Rows
  <2>3. \A q \in Rows' : key'[q] = key[q]
    BY <2>1, <2>2 DEF TypeOK, Rows
  <2>4. (Rows \ Kept)' \subseteq Rows \ Kept
    BY <2>2, <2>3 DEF Kept
  <2> QED  BY <2>1, <2>2, <2>3, <2>4 DEF TypeOK
<1>5. ASSUME NEW r \in Row, Hide(r) \/ Show(r) PROVE TypeOK'
  BY <1>5 DEF Hide, Show, Shown, TypeOK, Rows, Kept
<1>6. CASE UNCHANGED vars
  BY <1>6 DEF vars, TypeOK, Rows, Kept
<1> QED  BY <1>1, <1>2, <1>3, <1>4, <1>5, <1>6 DEF Next

\* Every key consists of digits, and only a row that kept its migrated key has one that
\* may end with the first digit.
THEOREM KeysEndWell == Spec => []TypeOK
<1>1. Init => TypeOK
  <2> SUFFICES ASSUME Init PROVE TypeOK
    OBVIOUS
  <2>1. <<>> \in String
    BY DEF String
  <2>2. key \in [Row -> String] /\ hidden = {}
    BY <2>1, MigratedAssumption DEF Init
  <2>3. Rows \ Kept = {}
    BY MigratedAssumption DEF Init, Rows, Kept
  <2> QED  BY <2>2, <2>3 DEF TypeOK
<1>2. TypeOK /\ [Next]_vars => TypeOK'
  BY TypeStep
<1> QED  BY <1>1, <1>2, PTL DEF Spec

\* A key that nothing fits below is one of the migration, and the key under it is not.
LEMMA FlushIsRare ==
    ASSUME TypeOK, NEW p \in Rows \union {None}, NEW n \in Rows \union {None},
           Flush(KeyOf(p), KeyOf(n))
    PROVE  n \in Kept /\ p \notin Kept \union {None}
<1> DEFINE l == Len(KeyOf(p))
           m == Len(KeyOf(n))
<1>1. /\ KeyOf(p) \in String /\ KeyOf(n) \in String
      /\ l \in Nat /\ m \in Nat
  <2>1. p \in Row \union {None} /\ n \in Row \union {None}
    BY DEF Rows
  <2> QED  BY <2>1, KeysOfRows DEF String
<1>2. l < m /\ m \in 1 .. m /\ KeyOf(n)[m] = 0
  BY <1>1 DEF Flush
<1>3. n # None
  BY <1>2, <1>1 DEF KeyOf
<1>4. n \in Rows /\ KeyOf(n) = key[n]
  BY <1>3 DEF KeyOf
<1>5. n \in Kept
  BY <1>2, <1>4 DEF TypeOK, Key
<1>6. p # None
  <2> SUFFICES ASSUME p = None PROVE FALSE
    OBVIOUS
  <2>1. KeyOf(p) = <<>> /\ l = 0
    BY DEF KeyOf
  <2>2. \A i \in 1 .. m : KeyOf(n)[i] = 0
    BY <1>1, <2>1 DEF Flush
  <2> QED  BY <1>4, <1>5, <2>2, MigratedAssumption DEF Kept
<1>7. p \notin Kept
  <2> SUFFICES ASSUME p \in Kept PROVE FALSE
    OBVIOUS
  <2>1. l = m
    BY <1>4, <1>5, <1>6, MigratedAssumption DEF Kept, KeyOf
  <2> QED  BY <1>1, <1>2, <2>1
<1> QED  BY <1>5, <1>6, <1>7

\* There is always room for a row between any two rows of different keys, and before and
\* after every row, but for a migrated row above one that was moved to its numeral cut short.
THEOREM ThereIsAlwaysRoom == Spec => []HasRoom
<1>1. TypeOK => HasRoom
  <2> SUFFICES ASSUME TypeOK, NEW p \in Rows \union {None}, NEW n \in Rows \union {None},
                      p # None /\ n # None => Less(key[p], key[n])
               PROVE  LET k == Between(KeyOf(p), KeyOf(n)) IN
                      /\ Len(k) <= Longer(KeyOf(p), KeyOf(n)) + 1
                      /\ Fits(k, KeyOf(p), KeyOf(n)) <=> ~Flush(KeyOf(p), KeyOf(n))
                      /\ Flush(KeyOf(p), KeyOf(n)) => n \in Kept /\ p \notin Kept \union {None}
    BY DEF HasRoom
  <2>1. KeyOf(p) \in String /\ KeyOf(n) \in String
    <3>1. p \in Row \union {None} /\ n \in Row \union {None}
      BY DEF Rows
    <3> QED  BY <3>1, KeysOfRows
  <2>2. KeyOf(n) # <<>> => Less(KeyOf(p), KeyOf(n))
    <3>1. \A s \in String : s # <<>> => Less(<<>>, s)
      BY DEF String, Less
    <3> QED  BY <2>1, <3>1 DEF KeyOf
  <2> QED  BY <2>1, <2>2, BetweenFits, FlushIsRare
<1> QED  BY <1>1, KeysEndWell, PTL
=============================================================================
