------------------------- MODULE StableStoresProofs -------------------------
(***************************************************************************)
(* Proofs about StableStores, for any keys, values, sizes and limits.      *)
(***************************************************************************)
EXTENDS StableStores, CommonLemmas

---------------------------------------------------------------------------
(* Offsets into a leaf.                                                    *)

\* What the recursive definition in OffsetOf asks of its function.
IsOffsets(f, leaf, n) ==
  f = [ j \in 1..n |-> IF j = 1 THEN 11 ELSE f[j - 1] + entry_size(leaf[j - 1]) ]

LEMMA EntryTyped ==
  ASSUME NEW e \in Entries
  PROVE  /\ e.key \in Keys /\ e.val \in Values
         /\ Len(e.key) \in Nat /\ Len(e.val) \in Nat
         /\ entry_size(e) \in Nat /\ entry_size(e) >= 4
<1>1. e.key \in Seq(Nat) /\ e.val \in Seq(Nat)
  BY StoresAssumption DEF Entries
<1>2. Len(e.key) \in Nat /\ Len(e.val) \in Nat
  BY <1>1
<1> QED BY <1>2 DEF Entries, entry_size

LEMMA OffsetsExist ==
  ASSUME NEW leaf \in Seq(Entries), NEW n \in 0..(Len(leaf) + 1)
  PROVE  \E f \in [1..n -> Nat] : IsOffsets(f, leaf, n)
<1> DEFINE Bad == { k \in 0..n : ~ \E f \in [1..k -> Nat] : IsOffsets(f, leaf, k) }
<1>1. Len(leaf) \in Nat /\ n \in Nat /\ n <= Len(leaf) + 1
  OBVIOUS
<1>2. SUFFICES ASSUME Bad # {} PROVE FALSE
  <2>1. n \in 0..n
    BY <1>1
  <2>2. CASE Bad = {}
    BY <2>1, <2>2, Zenon
  <2> QED BY <2>2
<1>3. PICK m \in Bad : \A k \in Bad : m <= k
  <2>1. Bad \in SUBSET Nat
    BY <1>1
  <2> HIDE DEF Bad
  <2> QED BY <1>2, <2>1, MinProperties
<1>4. m \in 0..n /\ m \in Nat
  BY <1>1
<1>5. CASE m = 0
  <2> DEFINE f == [j \in 1..0 |-> 0]
  <2>1. f \in [1..0 -> Nat] /\ IsOffsets(f, leaf, 0)
    BY DEF IsOffsets
  <2> QED BY <1>3, <1>5, <2>1
<1>6. CASE m # 0
  <2>1. m - 1 \in 0..n /\ m - 1 < m
    BY <1>1, <1>4, <1>6
  <2>2. PICK f \in [1..(m - 1) -> Nat] : IsOffsets(f, leaf, m - 1)
    <3>1. m - 1 \notin Bad
      <4> HIDE DEF Bad
      <4> QED BY <1>3, <1>4, <2>1
    <3> QED BY <2>1, <3>1, Zenon
  <2> DEFINE g == [ j \in 1..m |-> IF j = 1 THEN 11 ELSE f[j - 1] + entry_size(leaf[j - 1]) ]
  <2>3. ASSUME NEW j \in 1..m, j # 1
        PROVE  /\ j - 1 \in 1..(m - 1) /\ j - 1 \in 1..m
               /\ f[j - 1] \in Nat /\ entry_size(leaf[j - 1]) \in Nat
               /\ f[j - 1] + entry_size(leaf[j - 1]) \in Nat
               /\ g[j - 1] = f[j - 1]
    <3>1. j - 1 \in 1..(m - 1) /\ j - 1 \in 1..m /\ j - 1 \in 1..Len(leaf)
      BY <1>1, <1>4, <2>3
    <3>2. f[j - 1] \in Nat /\ leaf[j - 1] \in Entries
      BY <3>1
    <3>3. g[j - 1] = f[j - 1]
      BY <2>2, <3>1 DEF IsOffsets
    <3>4. entry_size(leaf[j - 1]) \in Nat
      BY <3>2, EntryTyped
    <3> HIDE DEF g
    <3> QED BY <3>1, <3>2, <3>3, <3>4
  <2>4. g \in [1..m -> Nat]
    BY <2>3
  <2>5. g = [ j \in 1..m |-> IF j = 1 THEN 11 ELSE g[j - 1] + entry_size(leaf[j - 1]) ]
    BY <2>3
  <2> HIDE DEF g
  <2> QED BY <1>3, <2>4, <2>5 DEF IsOffsets
<1> QED BY <1>5, <1>6

LEMMA OffsetsUnique ==
  ASSUME NEW leaf, NEW m \in Nat, NEW n \in Nat,
         NEW f, IsOffsets(f, leaf, m), NEW g, IsOffsets(g, leaf, n),
         NEW k \in 1..m, k \in 1..n
  PROVE  f[k] = g[k]
<1> DEFINE Bad == { i \in 1..m : i \in 1..n /\ f[i] # g[i] }
<1>1. SUFFICES ASSUME Bad # {} PROVE FALSE
  OBVIOUS
<1>2. PICK i \in Bad : \A j \in Bad : i <= j
  <2>1. Bad \in SUBSET Nat
    OBVIOUS
  <2> HIDE DEF Bad
  <2> QED BY <1>1, <2>1, MinProperties
<1>3. /\ i \in 1..m /\ i \in 1..n /\ i \in Nat
      /\ f[i] = IF i = 1 THEN 11 ELSE f[i - 1] + entry_size(leaf[i - 1])
      /\ g[i] = IF i = 1 THEN 11 ELSE g[i - 1] + entry_size(leaf[i - 1])
  BY DEF IsOffsets
<1>4. i # 1 /\ i - 1 \in 1..m /\ i - 1 \in 1..n /\ ~ (i <= i - 1)
  BY <1>3
<1>5. f[i - 1] = g[i - 1]
  BY <1>2, <1>4
<1> QED BY <1>3, <1>4, <1>5

\* The first entry begins behind the header, every other one where the entry
\* before it ends.
LEMMA OffsetProperties ==
  ASSUME NEW leaf \in Seq(Entries)
  PROVE  /\ OffsetOf(leaf, 1) = 11
         /\ \A i \in 1..(Len(leaf) + 1) : OffsetOf(leaf, i) \in Nat
         /\ \A i \in 1..Len(leaf) :
              OffsetOf(leaf, i + 1) = OffsetOf(leaf, i) + entry_size(leaf[i])
<1> DEFINE the(i) == CHOOSE f : IsOffsets(f, leaf, i)
<1>1. Len(leaf) \in Nat
  OBVIOUS
<1>2. ASSUME NEW i \in 1..(Len(leaf) + 1)
      PROVE  /\ OffsetOf(leaf, i) = the(i)[i]
             /\ IsOffsets(the(i), leaf, i)
             /\ i \in Nat /\ i \in 1..i
  <2>1. OffsetOf(leaf, i) = the(i)[i]
    BY DEF OffsetOf, IsOffsets
  <2>2. i \in 0..(Len(leaf) + 1) /\ i \in Nat
    BY <1>1
  <2>3. \E f : IsOffsets(f, leaf, i)
    BY <2>2, OffsetsExist
  <2> QED BY <2>1, <2>2, <2>3
<1>3. ASSUME NEW i \in 1..(Len(leaf) + 1)
      PROVE  OffsetOf(leaf, i) \in Nat
  <2>1. PICK f \in [1..i -> Nat] : IsOffsets(f, leaf, i)
    BY <1>1, OffsetsExist
  <2>2. the(i)[i] = f[i]
    <3> HIDE DEF the
    <3> QED BY <1>2, <2>1, OffsetsUnique
  <2>3. f[i] \in Nat
    BY <1>2, <2>1
  <2> HIDE DEF the
  <2> QED BY <1>2, <2>2, <2>3
<1> HIDE DEF the
<1>4. OffsetOf(leaf, 1) = 11
  <2>1. 1 \in 1..(Len(leaf) + 1)
    BY <1>1
  <2>2. IsOffsets(the(1), leaf, 1) /\ OffsetOf(leaf, 1) = the(1)[1]
    BY <1>2, <2>1
  <2>3. 1 \in 1..1
    OBVIOUS
  <2> QED BY <2>2, <2>3 DEF IsOffsets
<1>5. ASSUME NEW i \in 1..Len(leaf)
      PROVE  OffsetOf(leaf, i + 1) = OffsetOf(leaf, i) + entry_size(leaf[i])
  <2>1. /\ i \in 1..(Len(leaf) + 1) /\ i + 1 \in 1..(Len(leaf) + 1)
        /\ i \in Nat /\ i + 1 \in Nat
        /\ i \in 1..(i + 1) /\ i + 1 \in 1..(i + 1) /\ i + 1 # 1 /\ i \in 1..i
        /\ (i + 1) - 1 = i
    BY <1>1
  <2>2. /\ OffsetOf(leaf, i) = the(i)[i] /\ IsOffsets(the(i), leaf, i)
        /\ OffsetOf(leaf, i + 1) = the(i + 1)[i + 1] /\ IsOffsets(the(i + 1), leaf, i + 1)
    BY <1>2, <2>1
  <2>3. the(i + 1)[i] = the(i)[i]
    BY <2>1, <2>2, OffsetsUnique
  <2>4. the(i + 1)[i + 1] = the(i + 1)[i] + entry_size(leaf[i])
    BY <2>1, <2>2 DEF IsOffsets
  <2> QED BY <2>2, <2>3, <2>4
<1> QED BY <1>3, <1>4, <1>5

\* Entries of equal sizes take the same room, wherever they are.
LEMMA EqualRoom ==
  ASSUME NEW a \in Seq(Entries), NEW b \in Seq(Entries),
         NEW p \in 1..(Len(a) + 1), NEW q \in 1..(Len(b) + 1), NEW n \in Nat,
         p + n <= Len(a) + 1, q + n <= Len(b) + 1,
         \A k \in 0..(n - 1) : entry_size(a[p + k]) = entry_size(b[q + k])
  PROVE  OffsetOf(a, p + n) - OffsetOf(a, p) = OffsetOf(b, q + n) - OffsetOf(b, q)
<1> DEFINE Differ(k) == OffsetOf(a, p + k) - OffsetOf(a, p) # OffsetOf(b, q + k) - OffsetOf(b, q)
           Bad == { k \in 0..n : Differ(k) }
<1>1. /\ Len(a) \in Nat /\ Len(b) \in Nat /\ p \in Nat /\ q \in Nat
      /\ \A k \in 0..n : p + k \in 1..(Len(a) + 1) /\ q + k \in 1..(Len(b) + 1)
  OBVIOUS
<1>2. SUFFICES ASSUME Bad # {} PROVE FALSE
  <2>1. n \in 0..n
    BY <1>1
  <2>2. CASE Bad = {}
    BY <2>1, <2>2, Zenon
  <2> QED BY <2>2
<1>3. PICK m \in Bad : \A k \in Bad : m <= k
  <2>1. Bad \in SUBSET Nat
    OBVIOUS
  <2> HIDE DEF Bad
  <2> QED BY <1>2, <2>1, MinProperties
<1>4. m \in 0..n /\ m \in Nat /\ Differ(m)
  OBVIOUS
<1>5. OffsetOf(a, p) \in Nat /\ OffsetOf(b, q) \in Nat
  BY OffsetProperties
<1>6. CASE m = 0
  <2>1. p + m = p /\ q + m = q
    BY <1>1, <1>6
  <2> QED BY <1>4, <1>5, <2>1
<1>7. CASE m # 0
  <2>1. m - 1 \in 0..n /\ m - 1 \in 0..(n - 1) /\ ~ (m <= m - 1)
    BY <1>4, <1>7
  <2>2. ~ Differ(m - 1)
    BY <1>3, <2>1
  <2> DEFINE i == p + (m - 1)
             j == q + (m - 1)
  <2>3. /\ i \in 1..Len(a) /\ i + 1 = p + m /\ i \in 1..(Len(a) + 1)
        /\ j \in 1..Len(b) /\ j + 1 = q + m /\ j \in 1..(Len(b) + 1)
    BY <1>1, <1>4, <1>7
  <2>4. entry_size(a[i]) = entry_size(b[j])
    BY <2>1
  <2>5. OffsetOf(a, i) - OffsetOf(a, p) = OffsetOf(b, j) - OffsetOf(b, q)
    BY <2>2
  <2>6. OffsetOf(a, i + 1) - OffsetOf(a, p) # OffsetOf(b, j + 1) - OffsetOf(b, q)
    BY <1>4, <2>3
  <2> HIDE DEF i, j
  <2>7. /\ OffsetOf(a, i + 1) = OffsetOf(a, i) + entry_size(a[i])
        /\ OffsetOf(b, j + 1) = OffsetOf(b, j) + entry_size(b[j])
        /\ OffsetOf(a, i) \in Nat /\ OffsetOf(b, j) \in Nat
    BY <2>3, OffsetProperties
  <2>8. entry_size(a[i]) \in Nat
    <3>1. a[i] \in Entries
      BY <2>3
    <3> QED BY <3>1, EntryTyped
  <2>9. /\ OffsetOf(a, i + 1) - OffsetOf(a, p)
              = (OffsetOf(a, i) - OffsetOf(a, p)) + entry_size(a[i])
        /\ OffsetOf(b, j + 1) - OffsetOf(b, q)
              = (OffsetOf(b, j) - OffsetOf(b, q)) + entry_size(a[i])
    <3> DEFINE size == entry_size(a[i])
               x == OffsetOf(a, i)
               y == OffsetOf(b, j)
               x0 == OffsetOf(a, p)
               y0 == OffsetOf(b, q)
    <3>1. /\ size \in Nat /\ x \in Nat /\ y \in Nat /\ x0 \in Nat /\ y0 \in Nat
          /\ OffsetOf(a, i + 1) = x + size /\ OffsetOf(b, j + 1) = y + size
      BY <1>5, <2>4, <2>7, <2>8
    <3> HIDE DEF size, x, y, x0, y0
    <3>2. /\ OffsetOf(a, i + 1) - x0 = (x - x0) + size
          /\ OffsetOf(b, j + 1) - y0 = (y - y0) + size
      BY <3>1
    <3> QED BY <3>2 DEF size, x, y, x0, y0
  <2> QED BY <2>5, <2>6, <2>9
<1> QED BY <1>6, <1>7

---------------------------------------------------------------------------
(* The order of the keys.                                                  *)

LEMMA KeyOrderStrict ==
  ASSUME NEW a \in Seq(Nat)
  PROVE  ~ stbt_key_less(a, a)
<1>1. \A i \in DOMAIN a : a[i] \in Nat
  OBVIOUS
<1> QED BY <1>1 DEF stbt_key_less

LEMMA KeyOrderTransitive ==
  ASSUME NEW a \in Seq(Nat), NEW b \in Seq(Nat), NEW c \in Seq(Nat),
         stbt_key_less(a, b), stbt_key_less(b, c)
  PROVE  stbt_key_less(a, c)
<1>1. /\ DOMAIN a = 1..Len(a) /\ DOMAIN b = 1..Len(b) /\ DOMAIN c = 1..Len(c)
      /\ Len(a) \in Nat /\ Len(b) \in Nat /\ Len(c) \in Nat
      /\ \A i \in 1..Len(a) : a[i] \in Nat
      /\ \A i \in 1..Len(b) : b[i] \in Nat
      /\ \A i \in 1..Len(c) : c[i] \in Nat
  OBVIOUS
<1>2. PICK p \in 1..Len(b) : /\ \A j \in 1..(p - 1) : j \in 1..Len(a) /\ a[j] = b[j]
                             /\ p \in 1..Len(a) => a[p] < b[p]
  BY <1>1 DEF stbt_key_less
<1>3. PICK q \in 1..Len(c) : /\ \A j \in 1..(q - 1) : j \in 1..Len(b) /\ b[j] = c[j]
                             /\ q \in 1..Len(b) => b[q] < c[q]
  BY <1>1 DEF stbt_key_less
<1>4. CASE p < q
  <2>1. p \in 1..Len(c) /\ p \in 1..(q - 1)
    BY <1>1, <1>4
  <2>2. b[p] = c[p]
    BY <1>3, <2>1
  <2>3. \A j \in 1..(p - 1) : j \in 1..Len(a) /\ a[j] = c[j]
    <3>1. \A j \in 1..(p - 1) : j \in 1..(q - 1)
      BY <1>1, <1>4
    <3> QED BY <1>2, <1>3, <3>1
  <2>4. p \in 1..Len(a) => a[p] < c[p]
    BY <1>2, <2>2
  <2> QED BY <1>1, <2>1, <2>3, <2>4 DEF stbt_key_less
<1>5. CASE p = q
  <2>1. \A j \in 1..(p - 1) : j \in 1..Len(a) /\ a[j] = c[j]
    BY <1>2, <1>3, <1>5
  <2>2. p \in 1..Len(a) => a[p] < c[p]
    BY <1>1, <1>2, <1>3, <1>5
  <2> QED BY <1>1, <1>3, <1>5, <2>1, <2>2 DEF stbt_key_less
<1>6. CASE q < p
  <2>1. q \in 1..(p - 1) /\ q \in 1..Len(b)
    BY <1>1, <1>6
  <2>2. q \in 1..Len(a) /\ a[q] = b[q] /\ b[q] < c[q]
    BY <1>2, <1>3, <2>1
  <2>3. \A j \in 1..(q - 1) : j \in 1..Len(a) /\ a[j] = c[j]
    <3>1. \A j \in 1..(q - 1) : j \in 1..(p - 1)
      BY <1>1, <1>6
    <3> QED BY <1>2, <1>3, <3>1
  <2> QED BY <1>1, <1>3, <2>2, <2>3 DEF stbt_key_less
<1> QED BY <1>1, <1>4, <1>5, <1>6

LEMMA KeyOrderTotal ==
  ASSUME NEW a \in Seq(Nat), NEW b \in Seq(Nat), a # b
  PROVE  stbt_key_less(a, b) \/ stbt_key_less(b, a)
<1>1. /\ DOMAIN a = 1..Len(a) /\ DOMAIN b = 1..Len(b)
      /\ Len(a) \in Nat /\ Len(b) \in Nat
      /\ \A i \in 1..Len(a) : a[i] \in Nat
      /\ \A i \in 1..Len(b) : b[i] \in Nat
  OBVIOUS
<1> DEFINE Both(i) == i \in 1..Len(a) /\ i \in 1..Len(b) /\ a[i] = b[i]
           Apart == { i \in Nat \ {0} : (i \in 1..Len(a) \/ i \in 1..Len(b)) /\ ~Both(i) }
<1>2. Apart # {}
  <2>1. CASE Len(a) = Len(b)
    <3>1. PICK i \in 1..Len(a) : a[i] # b[i]
      BY <1>1, <2>1, SeqEqual
    <3>2. i \in Nat \ {0}
      BY <1>1
    <3> QED BY <3>1, <3>2
  <2>2. CASE Len(a) < Len(b)
    <3>1. Len(b) \in 1..Len(b) /\ ~ (Len(b) \in 1..Len(a)) /\ Len(b) \in Nat \ {0}
      BY <1>1, <2>2
    <3> QED BY <3>1
  <2>3. CASE Len(b) < Len(a)
    <3>1. Len(a) \in 1..Len(a) /\ ~ (Len(a) \in 1..Len(b)) /\ Len(a) \in Nat \ {0}
      BY <1>1, <2>3
    <3> QED BY <3>1
  <2>4. Len(a) = Len(b) \/ Len(a) < Len(b) \/ Len(b) < Len(a)
    <3>1. \A x, y \in Nat : x = y \/ x < y \/ y < x
      OBVIOUS
    <3> QED BY <1>1, <3>1, Zenon
  <2> QED BY <2>1, <2>2, <2>3, <2>4, Zenon
<1>3. PICK m \in Apart : \A i \in Apart : m <= i
  <2>1. Apart \in SUBSET Nat
    OBVIOUS
  <2> HIDE DEF Apart
  <2> QED BY <1>2, <2>1, MinProperties
<1>4. m \in Nat \ {0} /\ (m \in 1..Len(a) \/ m \in 1..Len(b)) /\ ~Both(m)
  OBVIOUS
<1>5. ASSUME NEW j \in 1..(m - 1)
      PROVE  Both(j)
  <2>1. j \in Nat \ {0} /\ ~ (m <= j) /\ (j \in 1..Len(a) \/ j \in 1..Len(b))
    BY <1>1, <1>4
  <2>2. j \notin Apart
    <3> HIDE DEF Apart
    <3> QED BY <1>3, <2>1
  <2> QED BY <2>1, <2>2
<1>6. \/ m \in 1..Len(b) /\ (m \in 1..Len(a) => a[m] < b[m])
      \/ m \in 1..Len(a) /\ (m \in 1..Len(b) => b[m] < a[m])
  BY <1>1, <1>4
<1> QED BY <1>1, <1>5, <1>6 DEF stbt_key_less

---------------------------------------------------------------------------
(* A leaf, and what a put makes of it.                                     *)

Sorted(leaf) ==
  \A i, j \in DOMAIN leaf : i < j => stbt_key_less(leaf[i].key, leaf[j].key)

Fits(leaf) == leaf # << >> => OffsetOf(leaf, Len(leaf) + 1) <= LeafLimit

LeafOK(leaf) == leaf \in Seq(Entries) /\ Sorted(leaf) /\ Fits(leaf)

\* The keys before the position found are less than the key; in a sorted leaf
\* those from there on are the key, at the position itself, or greater.
LEMMA LeafFindProperties ==
  ASSUME LeafOK(Leaf), NEW key \in Seq(Nat)
  PROVE  LET p == stbt_leaf_find(key)
         IN  /\ p \in 1..(Len(Leaf) + 1) /\ Len(Leaf) \in Nat
             /\ \A i \in 1..(p - 1) : stbt_key_less(Leaf[i].key, key)
             /\ found(key) => p \in 1..Len(Leaf) /\ Leaf[p].key = key
             /\ ~found(key) => /\ \A i \in p..Len(Leaf) : stbt_key_less(key, Leaf[i].key)
                               /\ \A i \in 1..Len(Leaf) : Leaf[i].key # key
<1> DEFINE n == Len(Leaf)
           p == stbt_leaf_find(key)
           I == { i \in 1..Len(Leaf) : ~stbt_key_less(Leaf[i].key, key) }
<1>1. /\ n \in Nat /\ DOMAIN Leaf = 1..n
      /\ \A i \in 1..n : Leaf[i] \in Entries
  BY DEF LeafOK
<1>2. \A i \in 1..n : Leaf[i].key \in Seq(Nat)
  BY <1>1, StoresAssumption DEF Entries
<1>3. p = IF I # {} THEN IF Min(I) > 0 THEN Min(I) ELSE n + 1 ELSE n + 1
  BY DEF stbt_leaf_find, SelectInSeq
<1>4. I \in SUBSET Nat /\ \A i \in I : i \in 1..n /\ i > 0
  BY <1>1
<1>5. /\ p \in 1..(n + 1)
      /\ \A i \in 1..(p - 1) : i \in 1..n /\ i \notin I
      /\ p \in 1..n => p \in I
  <2>1. CASE I = {}
    <3>1. p = n + 1
      BY <1>3, <2>1
    <3> HIDE DEF p, n
    <3> QED BY <1>1, <2>1, <3>1
  <2>2. CASE I # {}
    <3>1. Min(I) \in I /\ \A i \in I : Min(I) <= i
      BY <1>4, <2>2, MinProperties
    <3> HIDE DEF I, p, n
    <3>2. Min(I) \in 1..n /\ Min(I) > 0
      BY <1>4, <3>1
    <3>3. p = Min(I)
      BY <1>3, <2>2, <3>2
    <3>4. ASSUME NEW i \in 1..(p - 1)
          PROVE  i \in 1..n /\ i \notin I
      <4>1. i \in 1..n /\ ~ (Min(I) <= i)
        BY <1>1, <3>2, <3>3
      <4> QED BY <3>1, <4>1
    <3> QED BY <1>1, <3>1, <3>2, <3>3, <3>4
  <2> QED BY <2>1, <2>2
<1>6. \A i \in 1..(p - 1) : stbt_key_less(Leaf[i].key, key)
  BY <1>5
<1>7. found(key) <=> p <= n /\ Leaf[p].key = key
  BY DEF found
<1>8. p \in 1..n => ~ stbt_key_less(Leaf[p].key, key)
  BY <1>5
<1> HIDE DEF p, n, I
<1>9. ASSUME ~found(key), NEW i \in p..n
      PROVE  stbt_key_less(key, Leaf[i].key)
  <2>1. p \in 1..n /\ i \in 1..n /\ (i = p \/ p < i)
    BY <1>1, <1>5
  <2>2. stbt_key_less(key, Leaf[p].key)
    <3>1. Leaf[p].key # key
      BY <1>1, <1>7, <1>9, <2>1
    <3> QED BY <1>2, <1>8, <2>1, <3>1, KeyOrderTotal
  <2>3. CASE p < i
    <3>1. stbt_key_less(Leaf[p].key, Leaf[i].key)
      BY <1>1, <2>1, <2>3 DEF LeafOK, Sorted
    <3> QED BY <1>2, <2>1, <2>2, <3>1, KeyOrderTransitive
  <2> QED BY <2>1, <2>2, <2>3
<1>10. ASSUME ~found(key), NEW i \in 1..n
       PROVE  Leaf[i].key # key
  <2>1. i \in 1..(p - 1) \/ i \in p..n
    BY <1>1, <1>5
  <2>2. stbt_key_less(Leaf[i].key, key) \/ stbt_key_less(key, Leaf[i].key)
    BY <1>6, <1>9, <1>10, <2>1
  <2> QED BY <2>2, KeyOrderStrict
<1>11. found(key) => p \in 1..n /\ Leaf[p].key = key
  BY <1>1, <1>5, <1>7
<1> QED BY <1>1, <1>5, <1>6, <1>9, <1>10, <1>11 DEF p, n

\* An insertion moves what is behind it by one.
LEMMA InsertAtProperties ==
  ASSUME NEW S, NEW s \in Seq(S), NEW e \in S, NEW p \in 1..(Len(s) + 1)
  PROVE  LET t == InsertAt(s, p, e)
         IN  /\ t \in Seq(S) /\ Len(t) = Len(s) + 1
             /\ \A i \in 1..(p - 1) : t[i] = s[i]
             /\ t[p] = e
             /\ \A i \in p..Len(s) : t[i + 1] = s[i]
<1> DEFINE n == Len(s)
           front == SubSeq(s, 1, p - 1)
           back == SubSeq(s, p, n)
           t == InsertAt(s, p, e)
<1>1. n \in Nat /\ p \in 1..(n + 1) /\ p \in Nat
  OBVIOUS
<1>2. /\ front \in Seq(S) /\ Len(front) = p - 1
      /\ \A i \in 1..(p - 1) : front[i] = s[i]
  BY <1>1
<1>3. /\ back \in Seq(S) /\ Len(back) = n + 1 - p
      /\ \A i \in 1..(n + 1 - p) : back[i] = s[p + i - 1]
  BY <1>1
<1>4. t = (front \o <<e>>) \o back
  BY DEF InsertAt
<1>5. <<e>> \in Seq(S) /\ Len(<<e>>) = 1 /\ <<e>>[1] = e
  OBVIOUS
<1> HIDE DEF front, back, t, n
<1> DEFINE u == front \o <<e>>
<1>6. /\ u \in Seq(S) /\ Len(u) = p
      /\ \A i \in 1..(p - 1) : u[i] = s[i]
      /\ u[p] = e
  <2>1. /\ u \in Seq(S) /\ Len(u) = p
        /\ \A i \in 1..p : u[i] = IF i <= p - 1 THEN front[i] ELSE <<e>>[i - (p - 1)]
    BY <1>1, <1>2, <1>5, ConcatProperties
  <2>2. p \in 1..p /\ ~ (p <= p - 1) /\ p - (p - 1) = 1
    BY <1>1
  <2>3. \A i \in 1..(p - 1) : i \in 1..p /\ i <= p - 1
    BY <1>1
  <2> HIDE DEF u
  <2> QED BY <1>2, <1>5, <2>1, <2>2, <2>3
<1> HIDE DEF u
<1>7. /\ t \in Seq(S) /\ Len(t) = p + (n + 1 - p)
      /\ \A i \in 1..(p + (n + 1 - p)) : t[i] = IF i <= p THEN u[i] ELSE back[i - p]
  <2>1. t = u \o back
    BY <1>4 DEF u
  <2>2. /\ t \in Seq(S) /\ Len(t) = Len(u) + Len(back)
        /\ \A i \in 1..(Len(u) + Len(back)) :
             t[i] = IF i <= Len(u) THEN u[i] ELSE back[i - Len(u)]
    BY <1>3, <1>6, <2>1, ConcatProperties
  <2> QED BY <1>3, <1>6, <2>2
<1>8. Len(t) = n + 1 /\ p + (n + 1 - p) = n + 1
  BY <1>1, <1>7
<1>9. t[p] = e /\ \A i \in 1..(p - 1) : t[i] = s[i]
  <2>1. p \in 1..(n + 1) /\ p <= p /\ \A i \in 1..(p - 1) : i \in 1..(n + 1) /\ i <= p
    BY <1>1
  <2> QED BY <1>6, <1>7, <1>8, <2>1
<1>10. ASSUME NEW i \in p..n
       PROVE  t[i + 1] = s[i]
  <2>1. /\ i + 1 \in 1..(n + 1) /\ ~ (i + 1 <= p)
        /\ (i + 1) - p \in 1..(n + 1 - p) /\ p + ((i + 1) - p) - 1 = i
    BY <1>1
  <2>2. t[i + 1] = back[(i + 1) - p]
    BY <1>7, <1>8, <2>1
  <2>3. back[(i + 1) - p] = s[p + ((i + 1) - p) - 1]
    BY <1>3, <2>1
  <2> QED BY <2>1, <2>2, <2>3
<1> QED BY <1>7, <1>8, <1>9, <1>10 DEF t, n

\* A put leaves a leaf sorted and within its page, and longer by one entry or
\* as long as it was.
LEMMA LeafPutKeeps ==
  ASSUME LeafOK(Leaf), NEW key \in Keys, NEW val \in Values
  PROVE  LET leaf == stbt_leaf_put(key, val)
         IN  /\ LeafOK(leaf)
             /\ Len(leaf) = Len(Leaf) \/ Len(leaf) = Len(Leaf) + 1
<1> DEFINE n == Len(Leaf)
           p == stbt_leaf_find(key)
           e == Entry(key, val)
<1>1. /\ Leaf \in Seq(Entries) /\ n \in Nat /\ DOMAIN Leaf = 1..n
      /\ \A i \in 1..n : Leaf[i] \in Entries /\ Leaf[i].key \in Seq(Nat)
      /\ key \in Seq(Nat) /\ e \in Entries /\ e.key = key /\ e.val = val
      /\ LeafLimit \in Nat
  <2>1. Leaf \in Seq(Entries) /\ LeafLimit \in Nat /\ Keys \subseteq Seq(Nat)
    BY StoresAssumption DEF LeafOK
  <2>2. e \in Entries /\ e.key = key /\ e.val = val
    BY DEF Entries, Entry
  <2>3. n \in Nat /\ DOMAIN Leaf = 1..n /\ \A i \in 1..n : Leaf[i] \in Entries
    BY <2>1
  <2>4. \A i \in 1..n : Leaf[i].key \in Keys
    BY <2>3 DEF Entries
  <2> QED BY <2>1, <2>2, <2>3, <2>4
<1>2. /\ p \in 1..(n + 1)
      /\ \A i \in 1..(p - 1) : stbt_key_less(Leaf[i].key, key)
      /\ found(key) => p \in 1..n /\ Leaf[p].key = key
      /\ ~found(key) => \A i \in p..n : stbt_key_less(key, Leaf[i].key)
  BY <1>1, LeafFindProperties
<1>3. CASE stbt_leaf_put(key, val) = Leaf
  BY <1>3
<1>4. CASE /\ found(key) /\ Len(Leaf[p].val) = Len(val)
           /\ stbt_leaf_put(key, val) = [Leaf EXCEPT ![p].val = val]
  <2> DEFINE new == [Leaf[p] EXCEPT !.val = val]
             leaf == [Leaf EXCEPT ![p] = new]
  <2>1. stbt_leaf_put(key, val) = leaf
    BY <1>4
  <2>2. new \in Entries /\ new.key = Leaf[p].key /\ new.val = val
    BY <1>1, <1>2, <1>4 DEF Entries
  <2>3. entry_size(new) = entry_size(Leaf[p])
    BY <1>4, <2>2 DEF entry_size
  <2> HIDE DEF new, p, n
  <2>4. /\ leaf \in Seq(Entries) /\ Len(leaf) = n /\ DOMAIN leaf = 1..n
        /\ \A i \in 1..n : leaf[i] = IF i = p THEN new ELSE Leaf[i]
    BY <1>1, <1>2, <1>4, <2>2 DEF n
  <2> HIDE DEF leaf
  <2>5. \A i \in 1..n : /\ leaf[i].key = Leaf[i].key
                        /\ entry_size(leaf[i]) = entry_size(Leaf[i])
    BY <2>2, <2>3, <2>4
  <2>6. Sorted(leaf)
    BY <1>1, <2>4, <2>5 DEF Sorted, LeafOK
  <2>7. OffsetOf(leaf, n + 1) = OffsetOf(Leaf, n + 1)
    <3>1. \A k \in 0..(n - 1) : entry_size(leaf[1 + k]) = entry_size(Leaf[1 + k])
      <4>1. \A k \in 0..(n - 1) : 1 + k \in 1..n
        BY <1>1
      <4> QED BY <2>5, <4>1
    <3>2. OffsetOf(leaf, 1 + n) - OffsetOf(leaf, 1) = OffsetOf(Leaf, 1 + n) - OffsetOf(Leaf, 1)
      <4>1. /\ 1 \in 1..(Len(leaf) + 1) /\ 1 \in 1..(Len(Leaf) + 1) /\ n \in Nat
            /\ 1 + n <= Len(leaf) + 1 /\ 1 + n <= Len(Leaf) + 1
        BY <1>1, <2>4 DEF n
      <4>2. leaf \in Seq(Entries) /\ Leaf \in Seq(Entries)
        BY <1>1, <2>4
      <4> QED BY <3>1, <4>1, <4>2, EqualRoom
    <3>3. /\ n + 1 \in 1..(n + 1) /\ n + 1 = 1 + n
          /\ OffsetOf(leaf, 1) = 11 /\ OffsetOf(Leaf, 1) = 11
      BY <1>1, <2>4, OffsetProperties
    <3>4. OffsetOf(leaf, n + 1) \in Nat /\ OffsetOf(Leaf, n + 1) \in Nat
      BY <1>1, <2>4, <3>3, OffsetProperties DEF n
    <3>5. OffsetOf(leaf, n + 1) - 11 = OffsetOf(Leaf, n + 1) - 11
      BY <3>2, <3>3
    <3> QED BY <3>4, <3>5
  <2>8. Leaf # << >>
    BY <1>1, <1>2, <1>4 DEF n
  <2>9. Fits(leaf)
    BY <2>4, <2>7, <2>8 DEF Fits, LeafOK, n
  <2> QED BY <2>1, <2>4, <2>6, <2>9 DEF LeafOK, n
<1>5. CASE /\ ~found(key) /\ HasRoom(key, val)
           /\ stbt_leaf_put(key, val) = InsertAt(Leaf, p, e)
  <2> DEFINE leaf == InsertAt(Leaf, p, e)
  <2> HIDE DEF e, p
  <2>1. /\ leaf \in Seq(Entries) /\ Len(leaf) = n + 1
        /\ \A i \in 1..(p - 1) : leaf[i] = Leaf[i]
        /\ leaf[p] = e
        /\ \A i \in p..n : leaf[i + 1] = Leaf[i]
    <3>1. p \in 1..(Len(Leaf) + 1) /\ Leaf \in Seq(Entries) /\ e \in Entries
      BY <1>1, <1>2
    <3> QED BY <3>1, InsertAtProperties
  <2> HIDE DEF leaf, n
  <2>2. DOMAIN leaf = 1..(n + 1) /\ p \in Nat
    BY <1>1, <1>2, <2>1
  <2>3. ASSUME NEW i \in 1..(n + 1)
        PROVE  \/ i \in 1..(p - 1) /\ i \in 1..n /\ leaf[i] = Leaf[i]
               \/ i = p /\ leaf[i] = e
               \/ i - 1 \in p..n /\ i - 1 \in 1..n /\ leaf[i] = Leaf[i - 1]
    <3>1. \/ i \in 1..(p - 1) /\ i \in 1..n
          \/ i = p
          \/ i - 1 \in p..n /\ i - 1 \in 1..n /\ (i - 1) + 1 = i
      BY <1>1, <1>2, <2>2
    <3> QED BY <2>1, <3>1
  <2>4. ASSUME NEW i \in 1..(n + 1), NEW j \in 1..(n + 1), i < j
        PROVE  stbt_key_less(leaf[i].key, leaf[j].key)
    <3>0. \A k, l \in 1..n : k < l => stbt_key_less(Leaf[k].key, Leaf[l].key)
      BY <1>1 DEF LeafOK, Sorted
    <3>1. CASE i = p
      <4>1. j - 1 \in p..n /\ leaf[j] = Leaf[j - 1] /\ leaf[i] = e
        BY <1>1, <2>2, <2>3, <2>4, <3>1
      <4> QED BY <1>1, <1>2, <1>5, <4>1
    <3>2. CASE j = p
      <4>1. i \in 1..(p - 1) /\ leaf[i] = Leaf[i] /\ leaf[j] = e
        BY <1>1, <2>2, <2>3, <2>4, <3>2
      <4> QED BY <1>1, <1>2, <4>1
    <3>3. CASE i # p /\ j # p
      <4> DEFINE k == IF i < p THEN i ELSE i - 1
                 l == IF j < p THEN j ELSE j - 1
      <4>1. k \in 1..n /\ l \in 1..n /\ k < l
        BY <1>1, <1>2, <2>2, <2>4, <3>3
      <4>2. leaf[i] = Leaf[k] /\ leaf[j] = Leaf[l]
        <5>1. /\ i < p => ~ (i - 1 \in p..n)
              /\ ~ (i < p) => ~ (i \in 1..(p - 1))
              /\ j < p => ~ (j - 1 \in p..n)
              /\ ~ (j < p) => ~ (j \in 1..(p - 1))
          BY <1>1, <2>2
        <5> QED BY <2>3, <3>3, <5>1
      <4> HIDE DEF k, l
      <4> QED BY <3>0, <4>1, <4>2
    <3> QED BY <3>1, <3>2, <3>3
  <2>5. Sorted(leaf)
    BY <2>2, <2>4 DEF Sorted
  <2>6. OffsetOf(leaf, n + 2) = OffsetOf(Leaf, n + 1) + entry_size(e)
    <3> DEFINE m == n + 1 - p
    <3>0. /\ m \in Nat /\ p - 1 \in Nat /\ 1 \in 1..(n + 1) /\ 1 \in 1..(n + 2)
          /\ p \in 1..(n + 1) /\ p + 1 \in 1..(n + 2)
          /\ 1 + (p - 1) = p /\ p + m = n + 1 /\ (p + 1) + m = n + 2
          /\ p \in 1..Len(leaf) /\ Len(leaf) + 1 = n + 2 /\ Len(Leaf) + 1 = n + 1
          /\ p <= n + 1 /\ p <= n + 2 /\ n + 1 <= n + 1 /\ n + 2 <= n + 2
          /\ p \in 1..(n + 2) /\ n + 1 \in 1..(n + 1) /\ n + 2 \in 1..(n + 2)
      BY <1>1, <1>2, <2>1 DEF n
    <3>1. \A k \in 0..((p - 1) - 1) : entry_size(leaf[1 + k]) = entry_size(Leaf[1 + k])
      <4>1. \A k \in 0..((p - 1) - 1) : 1 + k \in 1..(p - 1)
        BY <2>2
      <4> QED BY <2>1, <4>1
    <3>2. OffsetOf(leaf, p) - OffsetOf(leaf, 1) = OffsetOf(Leaf, p) - OffsetOf(Leaf, 1)
      <4>1. /\ 1 \in 1..(Len(leaf) + 1) /\ 1 \in 1..(Len(Leaf) + 1)
            /\ 1 + (p - 1) <= Len(leaf) + 1 /\ 1 + (p - 1) <= Len(Leaf) + 1
        BY <3>0
      <4>2. OffsetOf(leaf, 1 + (p - 1)) - OffsetOf(leaf, 1)
              = OffsetOf(Leaf, 1 + (p - 1)) - OffsetOf(Leaf, 1)
        BY <1>1, <2>1, <3>0, <3>1, <4>1, EqualRoom
      <4> QED BY <3>0, <4>2
    <3>3. \A k \in 0..(m - 1) : entry_size(leaf[(p + 1) + k]) = entry_size(Leaf[p + k])
      <4>1. \A k \in 0..(m - 1) : p + k \in p..n /\ (p + k) + 1 = (p + 1) + k
        BY <1>1, <2>2
      <4> QED BY <2>1, <4>1
    <3>4. OffsetOf(leaf, n + 2) - OffsetOf(leaf, p + 1) = OffsetOf(Leaf, n + 1) - OffsetOf(Leaf, p)
      <4>1. /\ p + 1 \in 1..(Len(leaf) + 1) /\ p \in 1..(Len(Leaf) + 1)
            /\ (p + 1) + m <= Len(leaf) + 1 /\ p + m <= Len(Leaf) + 1
        BY <3>0
      <4>2. leaf \in Seq(Entries) /\ Leaf \in Seq(Entries) /\ m \in Nat
        BY <1>1, <2>1, <3>0
      <4> HIDE DEF m
      <4>3. OffsetOf(leaf, (p + 1) + m) - OffsetOf(leaf, p + 1)
              = OffsetOf(Leaf, p + m) - OffsetOf(Leaf, p)
        BY <3>3, <4>1, <4>2, EqualRoom
      <4> QED BY <3>0, <4>3
    <3>5. /\ OffsetOf(leaf, 1) = 11 /\ OffsetOf(Leaf, 1) = 11
          /\ OffsetOf(leaf, p + 1) = OffsetOf(leaf, p) + entry_size(leaf[p])
          /\ OffsetOf(leaf, p) \in Nat /\ OffsetOf(Leaf, p) \in Nat
          /\ OffsetOf(leaf, n + 2) \in Nat /\ OffsetOf(Leaf, n + 1) \in Nat
      BY <1>1, <2>1, <3>0, OffsetProperties
    <3>6. entry_size(e) \in Nat /\ leaf[p] = e
      BY <1>1, <2>1, EntryTyped
    <3> DEFINE a == OffsetOf(leaf, p)
               b == OffsetOf(Leaf, p)
               a2 == OffsetOf(leaf, n + 2)
               b1 == OffsetOf(Leaf, n + 1)
               size == entry_size(e)
    <3>7. /\ a \in Nat /\ b \in Nat /\ a2 \in Nat /\ b1 \in Nat /\ size \in Nat
          /\ a - 11 = b - 11 /\ a2 - (a + size) = b1 - b
      BY <3>2, <3>4, <3>5, <3>6
    <3> HIDE DEF a, b, a2, b1, size
    <3>8. a2 = b1 + size
      BY <3>7
    <3> QED BY <3>8 DEF a2, b1, size
  <2>7. OffsetOf(leaf, Len(leaf) + 1) <= LeafLimit
    <3>1. Len(leaf) + 1 = n + 2
      BY <1>1, <2>1
    <3>2. OffsetOf(Leaf, n + 1) + entry_size(e) <= LeafLimit
      BY <1>5 DEF HasRoom, n, e
    <3> QED BY <2>6, <3>1, <3>2
  <2> QED BY <1>5, <2>1, <2>5, <2>7 DEF LeafOK, Fits, leaf, n, p
<1> QED BY <1>3, <1>4, <1>5 DEF stbt_leaf_put

---------------------------------------------------------------------------
(* The invariant.                                                          *)

Memory ==
  [grown : BOOLEAN, magic : {"", "STKV", "STBT"}, count : Nat, entries : Seq(Entries)]
Statics == [initialized : BOOLEAN, count : Nat]
Scans   == [active : BOOLEAN, offset : Nat, prefix : ScanPrefixes \cup {<< >>}]
Readers == [seen : Seq(Keys), undisturbed : BOOLEAN, ended : BOOLEAN]

MemoryInv ==
  /\ stable \in Memory /\ stkv \in Statics /\ stbt \in Statics
  /\ stkv.initialized => stable.magic = "STKV"
  /\ stbt.initialized => stable.magic = "STBT"
  /\ stable.magic = "STBT" => LeafOK(stable.entries)
  /\ CountsAgree

ScanInv ==
  /\ scan \in Scans /\ reader \in Readers
  /\ scan.active => stbt.initialized
  /\ epoch \in BOOLEAN

StoresInv == MemoryInv /\ ScanInv

LEMMA FormattedProperties ==
  ASSUME NEW magic \in {"STKV", "STBT"}
  PROVE  /\ Formatted(magic) \in Memory /\ Formatted(magic).magic = magic
         /\ Formatted(magic).entries = << >> /\ Formatted(magic).count = 0
         /\ Formatted(magic).grown
<1>1. << >> \in Seq(Entries)
  OBVIOUS
<1> QED BY <1>1 DEF Formatted, Memory

LEMMA EmptyLeaf == LeafOK(<< >>)
  BY DEF LeafOK, Sorted, Fits

\* The memory a STKV operation works on: the header is there, its count is the
\* number of entries, and the search reads them all.
LEMMA StkvReady ==
  ASSUME MemoryInv, OwnsMemory("STKV")
  PROVE  /\ stkv_init_if_needed \in Memory /\ stkv_init_if_needed.magic = "STKV"
         /\ stkv_count = Len(stkv_init_if_needed.entries)
         /\ stkv_init_if_needed.count = Len(stkv_init_if_needed.entries)
         /\ stkv_entries = stkv_init_if_needed.entries
         /\ stbt.initialized = FALSE
         /\ stable.magic = "STKV" => stkv_init_if_needed = stable
         /\ stable.magic # "STKV" =>
              stable.magic = "" /\ stkv_init_if_needed.entries = << >>
<1>1. stable \in Memory /\ stkv \in Statics /\ stbt \in Statics
  BY DEF MemoryInv
<1>2. stbt.initialized = FALSE
  BY <1>1 DEF OwnsMemory, MemoryInv, Statics
<1>3. /\ stkv_init_if_needed \in Memory /\ stkv_init_if_needed.magic = "STKV"
      /\ stkv_init_if_needed.count = Len(stkv_init_if_needed.entries)
      /\ stable.magic = "STKV" => stkv_init_if_needed = stable
      /\ stable.magic # "STKV" =>
           stable.magic = "" /\ stkv_init_if_needed.entries = << >>
  <2>1. CASE stable.magic = "STKV"
    BY <1>1, <2>1 DEF stkv_init_if_needed, MemoryInv, CountsAgree
  <2>2. CASE stable.magic # "STKV"
    <3>1. stkv_init_if_needed = Formatted("STKV")
      BY <2>2 DEF stkv_init_if_needed, MemoryInv
    <3>2. stable.magic = ""
      BY <2>2 DEF OwnsMemory
    <3> QED BY <2>2, <3>1, <3>2, FormattedProperties
  <2> QED BY <2>1, <2>2
<1>4. stkv_count = Len(stkv_init_if_needed.entries)
  <2>1. CASE stkv.initialized
    BY <1>3, <2>1 DEF stkv_count, MemoryInv, CountsAgree
  <2>2. CASE ~stkv.initialized
    BY <1>3, <2>2 DEF stkv_count
  <2> QED BY <2>1, <2>2
<1>5. stkv_entries = stkv_init_if_needed.entries
  <2>1. stkv_init_if_needed.entries \in Seq(Entries)
    BY <1>3 DEF Memory
  <2> QED BY <1>4, <2>1, SubSeqFull DEF stkv_entries
<1> QED BY <1>2, <1>3, <1>4, <1>5

LEMMA StbtReady ==
  ASSUME MemoryInv, OwnsMemory("STBT")
  PROVE  /\ stbt_init_if_needed \in Memory /\ stbt_init_if_needed.magic = "STBT"
         /\ LeafOK(Leaf) /\ Leaf = stbt_init_if_needed.entries
         /\ stbt_count = Len(Leaf) /\ stbt_init_if_needed.count = Len(Leaf)
         /\ stkv.initialized = FALSE
         /\ stable.magic = "STBT" => stbt_init_if_needed = stable
         /\ stable.magic # "STBT" => stable.magic = "" /\ Leaf = << >>
<1>1. stable \in Memory /\ stkv \in Statics /\ stbt \in Statics
  BY DEF MemoryInv
<1>2. stkv.initialized = FALSE
  BY <1>1 DEF OwnsMemory, MemoryInv, Statics
<1>3. /\ stbt_init_if_needed \in Memory /\ stbt_init_if_needed.magic = "STBT"
      /\ LeafOK(Leaf) /\ Leaf = stbt_init_if_needed.entries
      /\ stbt_init_if_needed.count = Len(Leaf)
      /\ stable.magic = "STBT" => stbt_init_if_needed = stable
      /\ stable.magic # "STBT" => stable.magic = "" /\ Leaf = << >>
  <2>1. CASE stable.magic = "STBT"
    BY <1>1, <2>1 DEF Leaf, stbt_init_if_needed, MemoryInv, CountsAgree
  <2>2. CASE stable.magic # "STBT"
    <3>1. stbt_init_if_needed = Formatted("STBT")
      BY <2>2 DEF stbt_init_if_needed, MemoryInv
    <3>2. stable.magic = ""
      BY <2>2 DEF OwnsMemory
    <3> QED BY <2>2, <3>1, <3>2, FormattedProperties, EmptyLeaf DEF Leaf
  <2> QED BY <2>1, <2>2
<1>4. stbt_count = Len(Leaf)
  <2>1. CASE stbt.initialized
    BY <1>3, <2>1 DEF stbt_count, MemoryInv, CountsAgree
  <2>2. CASE ~stbt.initialized
    BY <1>3, <2>2 DEF stbt_count
  <2> QED BY <2>1, <2>2
<1> QED BY <1>2, <1>3, <1>4

\* A scan under way reads the leaf that is in the memory.
LEMMA ScanReady ==
  ASSUME StoresInv, scan.active
  PROVE  /\ stable.magic = "STBT" /\ Leaf = stable.entries /\ LeafOK(Leaf)
         /\ stbt.initialized
<1>1. stbt.initialized /\ stable.magic = "STBT"
  BY DEF StoresInv, ScanInv, MemoryInv
<1> QED BY <1>1 DEF StoresInv, MemoryInv, Leaf, stbt_init_if_needed

\* What a STKV put makes of the list.
StkvPutResult(key, val) ==
  LET i == stkv_find(key)
  IN  IF i > 0 /\ Len(stkv_entries[i].val) = Len(val)
        THEN [stkv_entries EXCEPT ![i].val = val]
        ELSE Append(stkv_entries, Entry(key, val))

\* The search of a STKV list, for any list.
FirstAt(list, key) ==
  IF Len(key) <= MaxKeySize THEN SelectInSeq(list, LAMBDA e : e.key = key) ELSE 0

LEMMA FindInList ==
  ASSUME NEW key
  PROVE  stkv_find(key) = FirstAt(stkv_entries, key)
  BY DEF stkv_find, FirstAt

LEMMA FirstAtProperties ==
  ASSUME NEW list \in Seq(Entries), NEW key
  PROVE  /\ FirstAt(list, key) \in 0..Len(list)
         /\ FirstAt(list, key) # 0 =>
              /\ list[FirstAt(list, key)].key = key
              /\ \A i \in 1..(FirstAt(list, key) - 1) : list[i].key # key
         /\ FirstAt(list, key) = 0 =>
              \/ ~ (Len(key) <= MaxKeySize)
              \/ \A i \in DOMAIN list : list[i].key # key
         /\ FirstAt(list, key) # 0 => Len(key) <= MaxKeySize
<1> DEFINE n == Len(list)
           I == { i \in 1..Len(list) : list[i].key = key }
<1>1. n \in Nat /\ DOMAIN list = 1..n
  OBVIOUS
<1>2. FirstAt(list, key) = IF Len(key) <= MaxKeySize THEN (IF I # {} THEN Min(I) ELSE 0) ELSE 0
  BY DEF FirstAt, SelectInSeq
<1>3. I # {} => /\ Min(I) \in I /\ Min(I) \in 1..n
                /\ \A i \in 1..(Min(I) - 1) : i \notin I /\ i \in 1..n
  <2> SUFFICES ASSUME I # {} PROVE /\ Min(I) \in I /\ Min(I) \in 1..n
                                   /\ \A i \in 1..(Min(I) - 1) : i \notin I /\ i \in 1..n
    OBVIOUS
  <2>1. I \in SUBSET Nat /\ \A i \in I : i \in 1..n
    BY <1>1
  <2>2. Min(I) \in I /\ \A y \in I : Min(I) <= y
    BY <2>1, MinProperties
  <2> HIDE DEF I, n
  <2>3. Min(I) \in 1..n
    BY <2>1, <2>2
  <2>4. \A i \in 1..(Min(I) - 1) : i \in 1..n /\ ~ (Min(I) <= i)
    BY <1>1, <2>3
  <2> QED BY <2>2, <2>3, <2>4
<1>4. CASE Len(key) <= MaxKeySize /\ I # {}
  <2>1. FirstAt(list, key) = Min(I)
    BY <1>2, <1>4
  <2>2. list[Min(I)].key = key /\ \A i \in 1..(Min(I) - 1) : list[i].key # key
    BY <1>3, <1>4
  <2> HIDE DEF I
  <2>3. Min(I) # 0 /\ Min(I) \in 0..n
    BY <1>1, <1>3, <1>4
  <2> QED BY <1>4, <2>1, <2>2, <2>3
<1>5. CASE Len(key) <= MaxKeySize /\ I = {}
  <2>1. FirstAt(list, key) = 0
    BY <1>2, <1>5
  <2> QED BY <1>1, <1>5, <2>1
<1>6. CASE ~ (Len(key) <= MaxKeySize)
  <2>1. FirstAt(list, key) = 0
    BY <1>2, <1>6
  <2> QED BY <1>1, <1>6, <2>1
<1> QED BY <1>4, <1>5, <1>6

---------------------------------------------------------------------------
(* The steps.                                                              *)

\* A memory that a STKV operation leaves behind.
LEMMA StkvMemory ==
  ASSUME MemoryInv, OwnsMemory("STKV"),
         stable' \in Memory, stable'.magic = "STKV",
         stable'.count = Len(stable'.entries),
         stkv' \in Statics, stkv'.initialized => stkv'.count = stable'.count,
         stbt' = stbt
  PROVE  MemoryInv'
<1>1. stbt.initialized = FALSE /\ stbt \in Statics
  BY StkvReady DEF MemoryInv
<1> QED BY <1>1 DEF MemoryInv, CountsAgree

LEMMA StbtMemory ==
  ASSUME MemoryInv, OwnsMemory("STBT"),
         stable' \in Memory, stable'.magic = "STBT", LeafOK(stable'.entries),
         stable'.count = Len(stable'.entries),
         stbt' = [initialized |-> TRUE, count |-> stable'.count],
         stkv' = stkv
  PROVE  MemoryInv' /\ stbt'.initialized
<1>1. stkv.initialized = FALSE /\ stkv \in Statics
  BY StbtReady DEF MemoryInv
<1>2. stable'.count \in Nat
  BY DEF Memory
<1>3. stbt' \in Statics /\ stbt'.initialized /\ stbt'.count = stable'.count
  BY <1>2 DEF Statics
<1> QED BY <1>1, <1>3 DEF MemoryInv, CountsAgree

LEMMA StkvPutKeeps ==
  ASSUME StoresInv, NEW key \in Keys, NEW val \in Values, stkv_put(key, val)
  PROVE  StoresInv'
<1> DEFINE entries == StkvPutResult(key, val)
           mem == stkv_init_if_needed
<1>1. /\ OwnsMemory("STKV")
      /\ stable' = [mem EXCEPT !.count = Len(entries), !.entries = entries]
      /\ stkv' = [initialized |-> TRUE, count |-> Len(entries)]
      /\ UNCHANGED <<stbt, scan, epoch, reader>>
  BY DEF stkv_put, StkvPutResult
<1>2. /\ mem \in Memory /\ mem.magic = "STKV" /\ stkv_entries = mem.entries
      /\ stkv_entries \in Seq(Entries)
  BY <1>1, StkvReady DEF StoresInv, Memory
<1>3. entries \in Seq(Entries)
  <2>1. Entry(key, val) \in Entries
    BY DEF Entry, Entries
  <2>2. stkv_find(key) \in 0..Len(stkv_entries)
    BY <1>2, FirstAtProperties, FindInList
  <2>3. CASE entries = Append(stkv_entries, Entry(key, val))
    BY <1>2, <2>1, <2>3
  <2>4. CASE stkv_find(key) > 0 /\ entries = [stkv_entries EXCEPT ![stkv_find(key)].val = val]
    <3> DEFINE i == stkv_find(key)
               new == [stkv_entries[i] EXCEPT !.val = val]
    <3>1. i \in 1..Len(stkv_entries)
      BY <2>2, <2>4
    <3>2. new \in Entries
      <4>1. stkv_entries[i] \in Entries
        BY <1>2, <3>1
      <4> QED BY <4>1 DEF Entries
    <3>3. entries = [stkv_entries EXCEPT ![i] = new]
      BY <2>4
    <3> HIDE DEF i, new, entries
    <3> QED BY <1>2, <3>1, <3>2, <3>3
  <2> QED BY <2>3, <2>4 DEF StkvPutResult
<1> HIDE DEF entries, mem
<1>4. /\ stable' \in Memory /\ stable'.magic = "STKV"
      /\ stable'.entries = entries /\ stable'.count = Len(entries)
  <2>1. Len(entries) \in Nat
    BY <1>3
  <2> QED BY <1>1, <1>2, <1>3, <2>1 DEF Memory
<1>5. stkv' \in Statics /\ stkv'.count = Len(entries)
  <2>1. Len(entries) \in Nat
    BY <1>3
  <2> QED BY <1>1, <2>1 DEF Statics
<1>6. MemoryInv'
  BY <1>1, <1>4, <1>5, StkvMemory DEF StoresInv
<1>7. ScanInv'
  BY <1>1 DEF StoresInv, ScanInv
<1> QED BY <1>6, <1>7 DEF StoresInv

LEMMA StkvOtherKeeps ==
  ASSUME StoresInv, stkv_get \/ stkv_clear
  PROVE  StoresInv'
<1>1. CASE stkv_get
  <2>1. /\ OwnsMemory("STKV") /\ stable' = stkv_init_if_needed
        /\ stkv' = [initialized |-> TRUE, count |-> stkv_count]
        /\ UNCHANGED <<stbt, scan, epoch, reader>>
    BY <1>1 DEF stkv_get
  <2>2. /\ stable' \in Memory /\ stable'.magic = "STKV"
        /\ stable'.count = Len(stable'.entries) /\ stkv_count = stable'.count
        /\ stable'.count \in Nat
    BY <2>1, StkvReady DEF StoresInv, Memory
  <2>3. stkv' \in Statics /\ stkv'.count = stable'.count
    BY <2>1, <2>2 DEF Statics
  <2>4. MemoryInv'
    BY <2>1, <2>2, <2>3, StkvMemory DEF StoresInv
  <2> QED BY <2>1, <2>4 DEF StoresInv, ScanInv
<1>2. CASE stkv_clear
  <2>1. /\ OwnsMemory("STKV") /\ stable' = Formatted("STKV")
        /\ stkv' = [stkv EXCEPT !.count = 0] /\ epoch' = ~epoch
        /\ UNCHANGED <<stbt, scan, reader>>
    BY <1>2 DEF stkv_clear
  <2>2. /\ stable' \in Memory /\ stable'.magic = "STKV"
        /\ stable'.count = 0 /\ stable'.entries = << >> /\ Len(stable'.entries) = 0
    BY <2>1, FormattedProperties
  <2>3. stkv' \in Statics /\ stkv'.count = 0
    BY <2>1 DEF StoresInv, MemoryInv, Statics
  <2>4. MemoryInv'
    BY <2>1, <2>2, <2>3, StkvMemory DEF StoresInv
  <2> QED BY <2>1, <2>4 DEF StoresInv, ScanInv
<1> QED BY <1>1, <1>2

\* A STBT operation that puts a leaf into the memory it has made ready.
LEMMA StbtPutKeeps ==
  ASSUME StoresInv, NEW key \in Keys, NEW val \in Values, stbt_put(key, val)
  PROVE  StoresInv'
<1> DEFINE leaf == stbt_leaf_put(key, val)
           count == stbt_count + (Len(leaf) - Len(Leaf))
           mem == stbt_init_if_needed
<1>1. /\ OwnsMemory("STBT")
      /\ stable' = [mem EXCEPT !.count = count, !.entries = leaf]
      /\ stbt' = [initialized |-> TRUE, count |-> count]
      /\ reader' \in {NoReader, reader}
      /\ UNCHANGED <<stkv, scan, epoch>>
  BY DEF stbt_put
<1>2. /\ mem \in Memory /\ mem.magic = "STBT" /\ LeafOK(Leaf) /\ stbt_count = Len(Leaf)
  BY <1>1, StbtReady DEF StoresInv
<1>3. LeafOK(leaf)
  BY <1>2, LeafPutKeeps
<1> HIDE DEF leaf, mem
<1>4. leaf \in Seq(Entries) /\ Len(leaf) \in Nat /\ count = Len(leaf)
  <2>1. leaf \in Seq(Entries) /\ Leaf \in Seq(Entries)
    BY <1>2, <1>3 DEF LeafOK
  <2>2. Len(leaf) \in Nat /\ Len(Leaf) \in Nat
    BY <2>1
  <2> QED BY <1>2, <2>1, <2>2
<1> HIDE DEF count
<1>5. /\ stable' \in Memory /\ stable'.magic = "STBT"
      /\ stable'.entries = leaf /\ stable'.count = Len(leaf)
  BY <1>1, <1>2, <1>4 DEF Memory
<1>6. MemoryInv' /\ stbt'.initialized
  BY <1>1, <1>3, <1>4, <1>5, StbtMemory DEF StoresInv
<1>7. NoReader \in Readers
  BY DEF NoReader, Readers
<1> QED BY <1>1, <1>6, <1>7 DEF StoresInv, ScanInv

LEMMA StbtReadKeeps ==
  ASSUME StoresInv, OwnsMemory("STBT"),
         stable' = stbt_init_if_needed,
         stbt' = [initialized |-> TRUE, count |-> stbt_count],
         stkv' = stkv
  PROVE  MemoryInv' /\ stbt'.initialized
<1>1. /\ stable' \in Memory /\ stable'.magic = "STBT" /\ LeafOK(stable'.entries)
      /\ stable'.count = Len(stable'.entries) /\ stbt_count = stable'.count
  BY StbtReady DEF StoresInv
<1> QED BY <1>1, StbtMemory DEF StoresInv

LEMMA StbtOtherKeeps ==
  ASSUME StoresInv, stbt_get \/ stbt_clear
  PROVE  StoresInv'
<1>1. CASE stbt_get
  <2>1. MemoryInv' /\ stbt'.initialized
    BY <1>1, StbtReadKeeps DEF stbt_get
  <2> QED BY <1>1, <2>1 DEF stbt_get, StoresInv, ScanInv
<1>2. CASE stbt_clear
  <2>1. /\ OwnsMemory("STBT") /\ stable' = Formatted("STBT")
        /\ stbt' = [initialized |-> TRUE, count |-> 0] /\ epoch' = ~epoch
        /\ reader' = NoReader
        /\ UNCHANGED <<stkv, scan>>
    BY <1>2 DEF stbt_clear
  <2>2. /\ stable' \in Memory /\ stable'.magic = "STBT" /\ LeafOK(stable'.entries)
        /\ stable'.count = 0 /\ Len(stable'.entries) = 0
    BY <2>1, FormattedProperties, EmptyLeaf
  <2>3. MemoryInv' /\ stbt'.initialized
    BY <2>1, <2>2, StbtMemory DEF StoresInv
  <2>4. NoReader \in Readers
    BY DEF NoReader, Readers
  <2> QED BY <2>1, <2>3, <2>4 DEF StoresInv, ScanInv
<1> QED BY <1>1, <1>2

LEMMA ScanStartKeeps ==
  ASSUME StoresInv, NEW prefix \in ScanPrefixes,
         stbt_scan_start(prefix) \/ stbt_scan_collect(prefix)
  PROVE  StoresInv'
<1>1. /\ OwnsMemory("STBT")
      /\ stable' = stbt_init_if_needed
      /\ stbt' = [initialized |-> TRUE, count |-> stbt_count]
      /\ UNCHANGED <<stkv, epoch>>
  BY DEF stbt_scan_start, stbt_scan_collect
<1>2. MemoryInv' /\ stbt'.initialized
  BY <1>1, StbtReadKeeps
<1>3. CASE stbt_scan_collect(prefix)
  <2>1. scan' \in Scans /\ reader' \in Readers
    BY <1>3 DEF stbt_scan_collect, Scans, NoReader, Readers
  <2> QED BY <1>1, <1>2, <2>1 DEF StoresInv, ScanInv
<1>4. CASE stbt_scan_start(prefix)
  <2> DEFINE i == FirstMatch(prefix)
  <2>1. /\ scan' = [ active |-> i > 0, prefix |-> prefix,
                     offset |-> IF i > 0 THEN OffsetOf(Leaf, i) ELSE 0 ]
        /\ reader' = [seen |-> << >>, undisturbed |-> TRUE, ended |-> i = 0]
    BY <1>4 DEF stbt_scan_start
  <2>2. i > 0 => OffsetOf(Leaf, i) \in Nat
    <3> DEFINE I == { j \in 1..Len(Leaf) : IsPrefix(prefix, Leaf[j].key) }
    <3>1. Leaf \in Seq(Entries) /\ Len(Leaf) \in Nat
      <4>1. Leaf \in Seq(Entries)
        BY <1>1, StbtReady DEF StoresInv, LeafOK
      <4> QED BY <4>1
    <3>2. i = IF I # {} THEN Min(I) ELSE 0
      BY DEF FirstMatch, SelectInSeq
    <3>3. I \in SUBSET Nat /\ \A j \in I : j \in 1..(Len(Leaf) + 1)
      BY <3>1
    <3> HIDE DEF I, i
    <3>4. i > 0 => i \in I
      BY <3>2, <3>3, MinProperties
    <3> QED BY <3>1, <3>3, <3>4, OffsetProperties
  <2> HIDE DEF i
  <2>3. scan' \in Scans /\ reader' \in Readers
    BY <2>1, <2>2 DEF Scans, Readers
  <2> QED BY <1>1, <1>2, <2>3 DEF StoresInv, ScanInv
<1> QED BY <1>3, <1>4

LEMMA ScanStepKeeps ==
  ASSUME StoresInv, stbt_scan_next \/ scan_ends \/ scan_misread \/ stbt_scan_stop
  PROVE  StoresInv'
<1>1. UNCHANGED <<stable, stkv, stbt, epoch>>
  BY DEF stbt_scan_next, scan_ends, scan_misread, stbt_scan_stop
<1>2. MemoryInv'
  BY <1>1 DEF StoresInv, MemoryInv, CountsAgree
<1>3. scan \in Scans /\ reader \in Readers /\ NoReader \in Readers
  BY DEF StoresInv, ScanInv, NoReader, Readers
<1>4. CASE scan' = [scan EXCEPT !.active = FALSE, !.offset = 0] /\ reader' \in Readers
  <2>1. scan' \in Scans /\ scan'.active = FALSE
    BY <1>3, <1>4 DEF Scans
  <2> QED BY <1>1, <1>2, <1>4, <2>1 DEF StoresInv, ScanInv
<1>5. ASSUME scan.active, NEW o \in Nat, scan' = [scan EXCEPT !.offset = o],
             reader' \in Readers
      PROVE  StoresInv'
  <2>1. scan' \in Scans
    BY <1>3, <1>5 DEF Scans
  <2>2. stbt.initialized
    BY <1>5, ScanReady
  <2> QED BY <1>1, <1>2, <1>5, <2>1, <2>2 DEF StoresInv, ScanInv
<1>6. CASE scan_ends
  <2>1. reader' \in Readers
    BY <1>3, <1>6 DEF scan_ends, Readers
  <2> QED BY <1>4, <1>6, <2>1 DEF scan_ends
<1>7. CASE stbt_scan_stop
  BY <1>3, <1>4, <1>7 DEF stbt_scan_stop
<1>8. CASE scan_misread
  <2>1. scan.active /\ Leaf \in Seq(Entries) /\ reader' = reader
    BY <1>8, ScanReady DEF scan_misread, LeafOK
  <2>2. CASE scan' = [scan EXCEPT !.active = FALSE, !.offset = 0]
    BY <1>3, <1>4, <2>1, <2>2
  <2>3. CASE \E i \in 1..(Len(Leaf) + 1) : scan' = [scan EXCEPT !.offset = OffsetOf(Leaf, i)]
    BY <1>3, <1>5, <2>1, <2>3, OffsetProperties
  <2> QED BY <1>8, <2>2, <2>3 DEF scan_misread
<1>9. CASE stbt_scan_next
  <2>1. scan.active /\ Leaf \in Seq(Entries)
    BY <1>9, ScanReady DEF stbt_scan_next, LeafOK
  <2>2. PICK i \in AtCursor :
          /\ scan' = [scan EXCEPT !.offset = @ + entry_size(Leaf[i])]
          /\ reader' = IF reader.undisturbed
                         THEN [reader EXCEPT !.seen = Append(@, Leaf[i].key)]
                         ELSE reader
    BY <1>9 DEF stbt_scan_next
  <2>3. Leaf[i] \in Entries
    BY <2>1 DEF AtCursor
  <2>4. Leaf[i].key \in Keys /\ entry_size(Leaf[i]) \in Nat
    BY <2>3, EntryTyped
  <2> DEFINE o == scan.offset + entry_size(Leaf[i])
             seen == Append(reader.seen, Leaf[i].key)
  <2>5. o \in Nat /\ scan' = [scan EXCEPT !.offset = o]
    <3>1. scan.offset \in Nat
      BY <1>3 DEF Scans
    <3> QED BY <2>2, <2>4, <3>1
  <2>6. seen \in Seq(Keys)
    <3>1. reader.seen \in Seq(Keys)
      BY <1>3 DEF Readers
    <3> QED BY <2>4, <3>1
  <2>7. reader' \in {reader, [reader EXCEPT !.seen = seen]}
    BY <2>2
  <2> HIDE DEF o, seen
  <2>8. reader' \in Readers
    BY <1>3, <2>6, <2>7 DEF Readers
  <2> QED BY <1>5, <2>1, <2>5, <2>8
<1> QED BY <1>6, <1>7, <1>8, <1>9

LEMMA UpgradeKeeps == ASSUME StoresInv, Upgrade PROVE StoresInv'
<1>1. /\ stkv' \in Statics /\ stkv'.initialized = FALSE
      /\ stbt' \in Statics /\ stbt'.initialized = FALSE
  BY DEF Upgrade, Statics
<1>2. /\ scan' \in Scans /\ scan'.active = FALSE /\ reader' \in Readers
      /\ UNCHANGED <<stable, epoch>>
  BY DEF Upgrade, NoScan, NoReader, Scans, Readers
<1>3. MemoryInv'
  BY <1>1, <1>2 DEF StoresInv, MemoryInv, CountsAgree
<1> QED BY <1>2, <1>3 DEF StoresInv, ScanInv

LEMMA StoresInitEstablishes == Init => StoresInv
<1> SUFFICES ASSUME Init PROVE StoresInv
  OBVIOUS
<1>1. /\ stable \in Memory /\ stable.magic = "" /\ stable.count = 0 /\ stable.entries = << >>
  <2>1. << >> \in Seq(Entries)
    OBVIOUS
  <2>2. PICK grown \in BOOLEAN :
          stable = [grown |-> grown, magic |-> "", count |-> 0, entries |-> << >>]
    BY DEF Init
  <2> QED BY <2>1, <2>2 DEF Memory
<1>2. /\ stkv \in Statics /\ stkv.initialized = FALSE
      /\ stbt \in Statics /\ stbt.initialized = FALSE
  BY DEF Init, Statics
<1>3. /\ scan \in Scans /\ scan.active = FALSE /\ reader \in Readers /\ epoch \in BOOLEAN
  <2>1. << >> \in Seq(Keys)
    OBVIOUS
  <2> QED BY <2>1 DEF Init, NoScan, NoReader, Scans, Readers
<1>4. MemoryInv
  BY <1>1, <1>2 DEF MemoryInv, CountsAgree
<1> QED BY <1>3, <1>4 DEF StoresInv, ScanInv

LEMMA StoresNextKeeps == StoresInv /\ [Next]_vars => StoresInv'
<1> SUFFICES ASSUME StoresInv, [Next]_vars PROVE StoresInv'
  OBVIOUS
<1>1. CASE \E key \in Keys, val \in Values : stkv_put(key, val) \/ stbt_put(key, val)
  BY <1>1, StkvPutKeeps, StbtPutKeeps
<1>2. CASE stkv_get \/ stkv_clear
  BY <1>2, StkvOtherKeeps
<1>3. CASE stbt_get \/ stbt_clear
  BY <1>3, StbtOtherKeeps
<1>4. CASE \E prefix \in ScanPrefixes : stbt_scan_start(prefix) \/ stbt_scan_collect(prefix)
  BY <1>4, ScanStartKeeps
<1>5. CASE stbt_scan_next \/ scan_ends \/ scan_misread \/ stbt_scan_stop
  BY <1>5, ScanStepKeeps
<1>6. CASE Upgrade
  BY <1>6, UpgradeKeeps
<1>7. CASE UNCHANGED vars
  BY <1>7 DEF vars, StoresInv, MemoryInv, ScanInv, CountsAgree
<1> QED BY <1>1, <1>2, <1>3, <1>4, <1>5, <1>6, <1>7 DEF Next

---------------------------------------------------------------------------
(* The stores as a map.  What a list or a leaf reads for each key is a     *)
(* function of its entries; puts are followed on that function.            *)

ListMap(list) ==
  [ k \in { key \in Keys : FirstAt(list, key) > 0 } |-> list[FirstAt(list, k)].val ]

\* The position of a key in a leaf that has it.
PositionOf(leaf, k) == CHOOSE i \in DOMAIN leaf : leaf[i].key = k

LeafMap(leaf) ==
  [ k \in { key \in Keys : \E i \in DOMAIN leaf : leaf[i].key = key } |->
      leaf[PositionOf(leaf, k)].val ]

View(mem) == CASE mem.magic = "STKV" -> ListMap(mem.entries)
               [] mem.magic = "STBT" -> LeafMap(mem.entries)
               [] OTHER              -> << >>

\* What SizedMap makes of a map when a key is put.
With(map, key, val) ==
  [ k \in DOMAIN map \cup {key} |-> IF k = key THEN val ELSE map[k] ]

LEMMA EmptyMaps == ListMap(<< >>) = << >> /\ LeafMap(<< >>) = << >>
<1>1. \A S, f : S = {} => [k \in S |-> f[k]] = << >>
  OBVIOUS
<1>2. << >> \in Seq(Entries) /\ Len(<< >>) = 0
  OBVIOUS
<1>3. ASSUME NEW key
      PROVE  FirstAt(<< >>, key) = 0
  <2>1. FirstAt(<< >>, key) \in 0..Len(<< >>)
    BY <1>2, FirstAtProperties
  <2> QED BY <1>2, <2>1
<1>4. DOMAIN ListMap(<< >>) = {} /\ DOMAIN LeafMap(<< >>) = {}
  BY <1>2, <1>3 DEF ListMap, LeafMap
<1>5. /\ ListMap(<< >>) = [k \in DOMAIN ListMap(<< >>) |-> ListMap(<< >>)[k]]
      /\ LeafMap(<< >>) = [k \in DOMAIN LeafMap(<< >>) |-> LeafMap(<< >>)[k]]
  BY DEF ListMap, LeafMap
<1> HIDE DEF ListMap, LeafMap
<1> QED BY <1>1, <1>4, <1>5

\* The first position of a key is the only one without an earlier one.
LEMMA FirstAtIs ==
  ASSUME NEW list \in Seq(Entries), NEW key, Len(key) <= MaxKeySize,
         NEW i \in 1..Len(list), list[i].key = key,
         \A j \in 1..(i - 1) : list[j].key # key
  PROVE  FirstAt(list, key) = i
<1> DEFINE f == FirstAt(list, key)
<1>1. /\ f \in 0..Len(list) /\ Len(list) \in Nat /\ DOMAIN list = 1..Len(list)
      /\ f # 0 => list[f].key = key /\ \A j \in 1..(f - 1) : list[j].key # key
      /\ f = 0 => \A j \in DOMAIN list : list[j].key # key
  BY FirstAtProperties
<1> HIDE DEF f
<1>2. f # 0
  BY <1>1
<1>3. ~ (f < i)
  <2>1. f < i => f \in 1..(i - 1)
    BY <1>1, <1>2
  <2> QED BY <1>1, <1>2, <2>1
<1>4. ~ (i < f)
  <2>1. i < f => i \in 1..(f - 1)
    BY <1>1
  <2> QED BY <1>1, <1>2, <2>1
<1>5. f = i
  BY <1>1, <1>3, <1>4
<1> QED BY <1>5 DEF f

\* A value that is overwritten, in a list.
LEMMA ListOverwritten ==
  ASSUME NEW list \in Seq(Entries), NEW key \in Keys, NEW val \in Values,
         FirstAt(list, key) > 0
  PROVE  LET i == FirstAt(list, key)
         IN  /\ ListMap([list EXCEPT ![i].val = val]) = With(ListMap(list), key, val)
             /\ key \in DOMAIN ListMap(list) /\ ListMap(list)[key] = list[i].val
<1> DEFINE i == FirstAt(list, key)
           n == Len(list)
           new == [list[i] EXCEPT !.val = val]
           after == [list EXCEPT ![i] = new]
<1>1. /\ i \in 1..n /\ n \in Nat /\ list[i].key = key /\ DOMAIN list = 1..n
      /\ \A j \in 1..n : list[j] \in Entries
  BY FirstAtProperties
<1>2. after = [list EXCEPT ![i].val = val]
  OBVIOUS
<1>3. new \in Entries /\ new.key = key /\ new.val = val
  <2>1. list[i] \in Entries /\ list[i].key = key
    BY <1>1
  <2> QED BY <2>1 DEF Entries
<1> HIDE DEF i, new, n
<1>4. /\ after \in Seq(Entries) /\ Len(after) = n
      /\ \A j \in 1..n : after[j] = IF j = i THEN new ELSE list[j]
  BY <1>1, <1>3 DEF n
<1> HIDE DEF after
<1>5. \A j \in 1..n : after[j].key = list[j].key
  BY <1>1, <1>3, <1>4
<1>6. ASSUME NEW k
      PROVE  FirstAt(after, k) = FirstAt(list, k)
  <2> DEFINE f == FirstAt(list, k)
  <2>1. /\ f \in 0..n
        /\ f # 0 => /\ list[f].key = k /\ Len(k) <= MaxKeySize
                    /\ \A j \in 1..(f - 1) : list[j].key # k
        /\ f = 0 => ~ (Len(k) <= MaxKeySize) \/ \A j \in 1..n : list[j].key # k
    BY <1>1, FirstAtProperties DEF n
  <2> HIDE DEF f
  <2>2. CASE f # 0
    <3>1. f \in 1..n /\ \A j \in 1..(f - 1) : j \in 1..n
      BY <1>1, <2>1, <2>2
    <3>2. /\ Len(k) <= MaxKeySize /\ f \in 1..Len(after) /\ after[f].key = k
          /\ \A j \in 1..(f - 1) : after[j].key # k
      BY <1>4, <1>5, <2>1, <2>2, <3>1
    <3>3. FirstAt(after, k) = f
      BY <1>4, <3>2, FirstAtIs
    <3> QED BY <3>3 DEF f
  <2>3. CASE f = 0
    <3> DEFINE g == FirstAt(after, k)
    <3>1. g \in 0..n /\ (g # 0 => after[g].key = k /\ Len(k) <= MaxKeySize)
      BY <1>4, FirstAtProperties
    <3> HIDE DEF g
    <3>2. g # 0 => g \in 1..n
      BY <1>1, <3>1
    <3>3. g = 0
      BY <1>5, <2>1, <2>3, <3>1, <3>2
    <3> QED BY <2>3, <3>3 DEF f, g
  <2> QED BY <2>2, <2>3
<1>7. key \in DOMAIN ListMap(list) /\ ListMap(list)[key] = list[i].val
  BY <1>1 DEF ListMap, i
<1>8. ListMap(after) = With(ListMap(list), key, val)
  <2> DEFINE D == { k \in Keys : FirstAt(list, k) > 0 }
  <2>1. DOMAIN ListMap(list) = D /\ D \cup {key} = D
    BY DEF ListMap
  <2>2. ASSUME NEW k \in D
        PROVE  after[FirstAt(list, k)].val = IF k = key THEN val ELSE ListMap(list)[k]
    <3>1. FirstAt(list, k) \in 1..n /\ list[FirstAt(list, k)].key = k
      BY <1>1, FirstAtProperties DEF n
    <3>2. CASE k = key
      BY <1>1, <1>3, <1>4, <3>2 DEF i
    <3>3. CASE k # key
      <4>1. FirstAt(list, k) # i
        BY <1>1, <3>1, <3>3
      <4>2. ListMap(list)[k] = list[FirstAt(list, k)].val
        BY DEF ListMap
      <4> QED BY <1>4, <3>1, <3>3, <4>1, <4>2
    <3> QED BY <3>2, <3>3
  <2>3. ListMap(after) = [k \in D |-> after[FirstAt(list, k)].val]
    BY <1>6 DEF ListMap
  <2>4. With(ListMap(list), key, val) = [k \in D |-> IF k = key THEN val ELSE ListMap(list)[k]]
    BY <2>1 DEF With
  <2> HIDE DEF D
  <2> QED BY <2>2, <2>3, <2>4
<1> QED BY <1>2, <1>7, <1>8 DEF i

\* An entry that is appended to a list: it is read if its key is found nowhere
\* before it and is not too long, and otherwise the map stays as it is.
LEMMA ListAppended ==
  ASSUME NEW list \in Seq(Entries), NEW key \in Keys, NEW val \in Values
  PROVE  LET after == Append(list, Entry(key, val))
         IN  \/ ListMap(after) = ListMap(list)
             \/ /\ ListMap(after) = With(ListMap(list), key, val)
                /\ key \notin DOMAIN ListMap(list)
<1> DEFINE e == Entry(key, val)
           n == Len(list)
           after == Append(list, e)
<1>1. /\ e \in Entries /\ e.key = key /\ e.val = val
      /\ n \in Nat /\ DOMAIN list = 1..n
  BY DEF Entry, Entries
<1> HIDE DEF e
<1>2. /\ after \in Seq(Entries) /\ Len(after) = n + 1 /\ after[n + 1] = e
      /\ \A j \in 1..n : after[j] = list[j]
  BY <1>1
<1> HIDE DEF after, n
<1>3. ASSUME NEW k
      PROVE  /\ FirstAt(list, k) # 0 => FirstAt(after, k) = FirstAt(list, k)
             /\ FirstAt(list, k) = 0 /\ (k # key \/ ~ (Len(key) <= MaxKeySize)) =>
                  FirstAt(after, k) = 0
             /\ FirstAt(list, k) = 0 /\ k = key /\ Len(key) <= MaxKeySize =>
                  FirstAt(after, k) = n + 1
  <2> DEFINE f == FirstAt(list, k)
             g == FirstAt(after, k)
  <2>1. /\ f \in 0..n
        /\ f # 0 => /\ list[f].key = k /\ Len(k) <= MaxKeySize
                    /\ \A j \in 1..(f - 1) : list[j].key # k
        /\ f = 0 => ~ (Len(k) <= MaxKeySize) \/ \A j \in 1..n : list[j].key # k
    BY <1>1, FirstAtProperties DEF n
  <2>2. g \in 0..(n + 1) /\ (g # 0 => after[g].key = k /\ Len(k) <= MaxKeySize)
    BY <1>2, FirstAtProperties
  <2> HIDE DEF f, g
  <2>3. ASSUME f # 0
        PROVE  g = f
    <3>1. f \in 1..Len(after) /\ f \in 1..n /\ \A j \in 1..(f - 1) : j \in 1..n
      BY <1>1, <1>2, <2>1, <2>3
    <3>2. /\ Len(k) <= MaxKeySize /\ after[f].key = k
          /\ \A j \in 1..(f - 1) : after[j].key # k
      BY <1>2, <2>1, <2>3, <3>1
    <3> QED BY <1>2, <3>1, <3>2, FirstAtIs DEF g
  <2>4. ASSUME f = 0, k # key \/ ~ (Len(key) <= MaxKeySize)
        PROVE  g = 0
    <3>1. g # 0 => g \in 1..n \/ g = n + 1
      BY <1>1, <2>2
    <3> QED BY <1>1, <1>2, <2>1, <2>2, <2>4, <3>1
  <2>5. ASSUME f = 0, k = key, Len(key) <= MaxKeySize
        PROVE  g = n + 1
    <3>1. n + 1 \in 1..Len(after) /\ (n + 1) - 1 = n
      BY <1>1, <1>2
    <3>2. after[n + 1].key = k /\ \A j \in 1..((n + 1) - 1) : after[j].key # k
      BY <1>1, <1>2, <2>1, <2>5, <3>1
    <3> QED BY <1>2, <2>5, <3>1, <3>2, FirstAtIs DEF g
  <2> QED BY <2>3, <2>4, <2>5 DEF f, g
<1> DEFINE D == { k \in Keys : FirstAt(list, k) > 0 }
           D2 == { k \in Keys : FirstAt(after, k) > 0 }
<1>4. \A k : FirstAt(list, k) \in 0..n
  BY FirstAtProperties DEF n
<1>5. ASSUME NEW k \in D
      PROVE  /\ FirstAt(after, k) = FirstAt(list, k)
             /\ after[FirstAt(after, k)].val = list[FirstAt(list, k)].val
  <2>1. FirstAt(list, k) \in 1..n /\ FirstAt(list, k) # 0
    BY <1>1, <1>4
  <2> QED BY <1>2, <1>3, <2>1
<1>6. CASE FirstAt(list, key) # 0 \/ ~ (Len(key) <= MaxKeySize)
  <2>1. D2 = D
    <3>1. ASSUME NEW k \in Keys
          PROVE  FirstAt(after, k) = FirstAt(list, k)
      BY <1>3, <1>6
    <3> QED BY <3>1
  <2>2. ListMap(after) = [k \in D2 |-> after[FirstAt(after, k)].val]
    BY DEF ListMap
  <2>3. ListMap(list) = [k \in D |-> list[FirstAt(list, k)].val]
    BY DEF ListMap
  <2> HIDE DEF D, D2
  <2>4. ListMap(after) = ListMap(list)
    BY <1>5, <2>1, <2>2, <2>3
  <2> QED BY <2>4 DEF after, e
<1>7. CASE FirstAt(list, key) = 0 /\ Len(key) <= MaxKeySize
  <2>1. FirstAt(after, key) = n + 1 /\ after[n + 1].val = val
    BY <1>1, <1>2, <1>3, <1>7
  <2>2. D2 = D \cup {key} /\ key \notin D
    <3>1. ASSUME NEW k \in Keys, k # key
          PROVE  FirstAt(after, k) = FirstAt(list, k)
      BY <1>3, <3>1
    <3>2. n + 1 > 0
      BY <1>1
    <3> QED BY <1>7, <2>1, <3>1, <3>2
  <2>3. ListMap(after) = [k \in D2 |-> after[FirstAt(after, k)].val]
    BY DEF ListMap
  <2>4. DOMAIN ListMap(list) = D /\ \A k \in D : ListMap(list)[k] = list[FirstAt(list, k)].val
    BY DEF ListMap
  <2>5. With(ListMap(list), key, val)
          = [k \in D \cup {key} |-> IF k = key THEN val ELSE ListMap(list)[k]]
    BY <2>4 DEF With
  <2> HIDE DEF D, D2
  <2>6. ASSUME NEW k \in D \cup {key}
        PROVE  after[FirstAt(after, k)].val = IF k = key THEN val ELSE ListMap(list)[k]
    BY <1>5, <2>1, <2>2, <2>4, <2>6
  <2>7. ListMap(after) = With(ListMap(list), key, val)
    BY <2>2, <2>3, <2>5, <2>6
  <2> QED BY <2>2, <2>4, <2>7 DEF after, e
<1> QED BY <1>6, <1>7

\* No key is in a leaf twice, so a leaf reads the value of whichever entry has
\* the key.
LEMMA LeafReads ==
  ASSUME NEW leaf, LeafOK(leaf)
  PROVE  /\ \A k : k \in DOMAIN LeafMap(leaf) <=> \E i \in DOMAIN leaf : leaf[i].key = k
         /\ \A i \in DOMAIN leaf : LeafMap(leaf)[leaf[i].key] = leaf[i].val
<1> DEFINE n == Len(leaf)
<1>1. n \in Nat /\ DOMAIN leaf = 1..n /\ \A i \in 1..n : leaf[i] \in Entries
  BY DEF LeafOK
<1>2. \A i \in 1..n : leaf[i].key \in Keys /\ leaf[i].key \in Seq(Nat)
  BY <1>1, StoresAssumption DEF Entries
<1>3. ASSUME NEW i \in 1..n, NEW j \in 1..n, leaf[i].key = leaf[j].key
      PROVE  i = j
  <2>1. ~ (i < j) /\ ~ (j < i)
    <3>1. \A k \in Seq(Nat) : ~stbt_key_less(k, k)
      BY KeyOrderStrict
    <3> QED BY <1>1, <1>2, <1>3, <3>1 DEF LeafOK, Sorted
  <2> QED BY <1>1, <2>1
<1> HIDE DEF n
<1>4. \A k : k \in DOMAIN LeafMap(leaf) <=> \E i \in DOMAIN leaf : leaf[i].key = k
  BY <1>1, <1>2 DEF LeafMap
<1>5. ASSUME NEW i \in DOMAIN leaf
      PROVE  LeafMap(leaf)[leaf[i].key] = leaf[i].val
  <2> DEFINE p == PositionOf(leaf, leaf[i].key)
  <2>1. p \in DOMAIN leaf /\ leaf[p].key = leaf[i].key
    BY DEF PositionOf
  <2>2. p = i
    <3> HIDE DEF p
    <3> QED BY <1>1, <1>3, <2>1
  <2>3. LeafMap(leaf)[leaf[i].key] = leaf[p].val
    BY <1>1, <1>2 DEF LeafMap
  <2> QED BY <2>2, <2>3
<1> QED BY <1>4, <1>5

\* A leaf that has the entry of a key and otherwise those of another leaf.
LEMMA LeafChanged ==
  ASSUME NEW a, NEW b, LeafOK(a), LeafOK(b), NEW key \in Keys, NEW val,
         \A i \in DOMAIN b :
           \/ b[i].key = key /\ b[i].val = val
           \/ \E j \in DOMAIN a : /\ a[j].key = b[i].key /\ a[j].val = b[i].val
                                  /\ a[j].key # key,
         \A j \in DOMAIN a : a[j].key # key => \E i \in DOMAIN b : b[i].key = a[j].key,
         \E i \in DOMAIN b : b[i].key = key
  PROVE  LeafMap(b) = With(LeafMap(a), key, val)
<1> DEFINE m == LeafMap(a)
           m2 == LeafMap(b)
<1>1. /\ \A k : k \in DOMAIN m <=> \E i \in DOMAIN a : a[i].key = k
      /\ \A i \in DOMAIN a : m[a[i].key] = a[i].val
  BY LeafReads
<1>2. /\ \A k : k \in DOMAIN m2 <=> \E i \in DOMAIN b : b[i].key = k
      /\ \A i \in DOMAIN b : m2[b[i].key] = b[i].val
  BY LeafReads
<1>3. m2 = [k \in DOMAIN m2 |-> m2[k]]
  BY DEF LeafMap
<1> HIDE DEF m, m2
<1>4. DOMAIN m2 = DOMAIN m \cup {key}
  <2>1. ASSUME NEW k \in DOMAIN m2
        PROVE  k \in DOMAIN m \cup {key}
    <3>1. PICK i \in DOMAIN b : b[i].key = k
      BY <1>2
    <3>2. k = key \/ \E j \in DOMAIN a : a[j].key = k
      BY <3>1
    <3> QED BY <1>1, <3>2
  <2>2. ASSUME NEW k \in DOMAIN m, k # key
        PROVE  k \in DOMAIN m2
    <3>1. PICK j \in DOMAIN a : a[j].key = k
      BY <1>1
    <3>2. \E i \in DOMAIN b : b[i].key = k
      BY <2>2, <3>1
    <3> QED BY <1>2, <3>2
  <2>3. key \in DOMAIN m2
    BY <1>2
  <2> QED BY <2>1, <2>2, <2>3
<1>5. ASSUME NEW k \in DOMAIN m2
      PROVE  m2[k] = IF k = key THEN val ELSE m[k]
  <2>1. PICK i \in DOMAIN b : b[i].key = k
    BY <1>2
  <2>2. CASE k = key
    BY <1>2, <2>1, <2>2
  <2>3. CASE k # key
    <3>1. PICK j \in DOMAIN a : a[j].key = b[i].key /\ a[j].val = b[i].val
      BY <2>1, <2>3
    <3> QED BY <1>1, <1>2, <2>1, <2>3, <3>1
  <2> QED BY <2>2, <2>3
<1>6. m2 = With(m, key, val)
  BY <1>3, <1>4, <1>5 DEF With
<1> QED BY <1>6 DEF m, m2

\* A put into a leaf is a put into the map, or changes nothing.
LEMMA LeafPutMap ==
  ASSUME LeafOK(Leaf), NEW key \in Keys, NEW val \in Values
  PROVE  LET leaf == stbt_leaf_put(key, val)
         IN  \/ leaf = Leaf
             \/ /\ LeafMap(leaf) = With(LeafMap(Leaf), key, val)
                /\ key \in DOMAIN LeafMap(Leaf) =>
                     Len(LeafMap(Leaf)[key]) = Len(val)
<1> DEFINE n == Len(Leaf)
           p == stbt_leaf_find(key)
           e == Entry(key, val)
           leaf == stbt_leaf_put(key, val)
<1>1. /\ Leaf \in Seq(Entries) /\ n \in Nat /\ DOMAIN Leaf = 1..n
      /\ \A i \in 1..n : Leaf[i] \in Entries
      /\ key \in Seq(Nat) /\ e.key = key /\ e.val = val /\ e \in Entries
  <2>1. Leaf \in Seq(Entries) /\ key \in Seq(Nat)
    BY StoresAssumption DEF LeafOK
  <2>2. e.key = key /\ e.val = val /\ e \in Entries
    BY DEF Entry, Entries
  <2> QED BY <2>1, <2>2
<1>2. /\ p \in 1..(n + 1)
      /\ found(key) => p \in 1..n /\ Leaf[p].key = key
      /\ ~found(key) => \A i \in 1..n : Leaf[i].key # key
  BY <1>1, LeafFindProperties
<1>3. LeafOK(leaf)
  BY LeafPutKeeps
<1>4. CASE /\ found(key) /\ Len(Leaf[p].val) = Len(val)
           /\ leaf = [Leaf EXCEPT ![p].val = val]
  <2> DEFINE new == [Leaf[p] EXCEPT !.val = val]
  <2>1. leaf = [Leaf EXCEPT ![p] = new]
    BY <1>4
  <2>2. new.key = key /\ new.val = val
    <3>1. Leaf[p] \in Entries /\ Leaf[p].key = key
      BY <1>1, <1>2, <1>4
    <3> QED BY <3>1 DEF Entries
  <2> HIDE DEF new, p, n, leaf
  <2>3. DOMAIN leaf = 1..n /\ \A i \in 1..n : leaf[i] = IF i = p THEN new ELSE Leaf[i]
    BY <1>1, <2>1
  <2>4. \A i, j \in 1..n : Leaf[i].key = Leaf[j].key => i = j
    <3>1. \A i \in 1..n : Leaf[i].key \in Seq(Nat)
      BY <1>1, StoresAssumption DEF Entries
    <3>2. \A k \in Seq(Nat) : ~stbt_key_less(k, k)
      BY KeyOrderStrict
    <3>3. \A i, j \in 1..n : i < j => stbt_key_less(Leaf[i].key, Leaf[j].key)
      BY <1>1 DEF LeafOK, Sorted
    <3>4. \A i, j \in 1..n : i = j \/ i < j \/ j < i
      BY <1>1
    <3> QED BY <3>1, <3>2, <3>3, <3>4
  <2>5. \A i \in DOMAIN leaf :
          \/ leaf[i].key = key /\ leaf[i].val = val
          \/ \E j \in DOMAIN Leaf : /\ Leaf[j].key = leaf[i].key
                                    /\ Leaf[j].val = leaf[i].val /\ Leaf[j].key # key
    BY <1>1, <1>2, <1>4, <2>2, <2>3, <2>4
  <2>6. /\ \A j \in DOMAIN Leaf :
             Leaf[j].key # key => \E i \in DOMAIN leaf : leaf[i].key = Leaf[j].key
        /\ \E i \in DOMAIN leaf : leaf[i].key = key
    BY <1>1, <1>2, <1>4, <2>2, <2>3
  <2>7. LeafMap(leaf) = With(LeafMap(Leaf), key, val)
    BY <1>3, <2>5, <2>6, LeafChanged DEF LeafOK
  <2>8. LeafMap(Leaf)[key] = Leaf[p].val
    <3>1. \A i \in DOMAIN Leaf : LeafMap(Leaf)[Leaf[i].key] = Leaf[i].val
      BY LeafReads
    <3>2. p \in DOMAIN Leaf /\ Leaf[p].key = key
      BY <1>1, <1>2, <1>4
    <3> QED BY <3>1, <3>2
  <2> QED BY <1>4, <2>7, <2>8 DEF p, leaf
<1>5. CASE ~found(key) /\ leaf = InsertAt(Leaf, p, e)
  <2> HIDE DEF p, e
  <2>1. p \in 1..(Len(Leaf) + 1)
    BY <1>2
  <2>2. /\ leaf \in Seq(Entries) /\ Len(leaf) = n + 1
        /\ \A i \in 1..(p - 1) : leaf[i] = Leaf[i]
        /\ leaf[p] = e
        /\ \A i \in p..n : leaf[i + 1] = Leaf[i]
    <3>1. Leaf \in Seq(Entries) /\ e \in Entries
      BY <1>1
    <3> DEFINE t == InsertAt(Leaf, p, e)
    <3>2. leaf = t
      BY <1>5
    <3>3. /\ t \in Seq(Entries) /\ Len(t) = n + 1
          /\ \A i \in 1..(p - 1) : t[i] = Leaf[i]
          /\ t[p] = e
          /\ \A i \in p..n : t[i + 1] = Leaf[i]
      BY <2>1, <3>1, InsertAtProperties
    <3> HIDE DEF leaf, t
    <3> QED BY <3>2, <3>3
  <2> HIDE DEF leaf, n
  <2>3. DOMAIN leaf = 1..(n + 1) /\ p \in 1..(n + 1)
    BY <1>1, <1>2, <2>2
  <2>4. ASSUME NEW i \in 1..(n + 1)
        PROVE  leaf[i] = e \/ \E j \in 1..n : Leaf[j] = leaf[i]
    <3>1. \/ i \in 1..(p - 1) /\ i \in 1..n
          \/ i = p
          \/ i - 1 \in p..n /\ i - 1 \in 1..n /\ (i - 1) + 1 = i
      BY <1>1, <2>3
    <3> QED BY <2>2, <3>1
  <2>5. ASSUME NEW j \in 1..n
        PROVE  \E i \in 1..(n + 1) : leaf[i] = Leaf[j]
    <3>1. \/ j \in 1..(p - 1) /\ j \in 1..(n + 1)
          \/ j \in p..n /\ j + 1 \in 1..(n + 1)
      BY <1>1, <2>3
    <3> QED BY <2>2, <3>1
  <2>6. \A i \in DOMAIN leaf :
          \/ leaf[i].key = key /\ leaf[i].val = val
          \/ \E j \in DOMAIN Leaf : /\ Leaf[j].key = leaf[i].key
                                    /\ Leaf[j].val = leaf[i].val /\ Leaf[j].key # key
    <3>1. ASSUME NEW i \in 1..(n + 1), leaf[i] # e
          PROVE  \E j \in 1..n : /\ Leaf[j].key = leaf[i].key
                                 /\ Leaf[j].val = leaf[i].val /\ Leaf[j].key # key
      <4>1. PICK j \in 1..n : Leaf[j] = leaf[i]
        BY <2>4, <3>1
      <4> QED BY <1>2, <1>5, <4>1
    <3> QED BY <1>1, <2>3, <3>1
  <2>7. /\ \A j \in DOMAIN Leaf :
             Leaf[j].key # key => \E i \in DOMAIN leaf : leaf[i].key = Leaf[j].key
        /\ \E i \in DOMAIN leaf : leaf[i].key = key
    <3>1. leaf[p].key = key
      BY <1>1, <2>2
    <3> QED BY <1>1, <2>3, <2>5, <3>1
  <2>8. LeafMap(leaf) = With(LeafMap(Leaf), key, val)
    BY <1>3, <2>6, <2>7, LeafChanged
  <2>9. key \notin DOMAIN LeafMap(Leaf)
    BY <1>1, <1>2, <1>5, LeafReads
  <2> QED BY <2>8, <2>9 DEF leaf
<1> QED BY <1>4, <1>5 DEF stbt_leaf_put

---------------------------------------------------------------------------
(* The refinement.                                                         *)

LEMMA ContentsSeen == StoresInv => Contents = View(stable)
<1> SUFFICES ASSUME StoresInv PROVE Contents = View(stable)
  OBVIOUS
<1>1. CASE stable.magic = "STKV"
  <2>1. OwnsMemory("STKV")
    BY <1>1 DEF OwnsMemory
  <2>2. stkv_entries = stable.entries
    BY <1>1, <2>1, StkvReady DEF StoresInv
  <2>3. \A k : stkv_find(k) = FirstAt(stable.entries, k)
    BY <2>2, FindInList
  <2>4. StkvContents = ListMap(stable.entries)
    BY <2>2, <2>3 DEF StkvContents, ListMap
  <2> QED BY <1>1, <2>4 DEF Contents, View
<1>2. CASE stable.magic = "STBT"
  <2>1. OwnsMemory("STBT")
    BY <1>2 DEF OwnsMemory
  <2>2. LeafOK(Leaf) /\ Leaf = stable.entries
    BY <1>2, <2>1, StbtReady DEF StoresInv
  <2>3. ASSUME NEW k \in Keys
        PROVE  /\ found(k) <=> \E i \in DOMAIN Leaf : Leaf[i].key = k
               /\ found(k) => Leaf[stbt_leaf_find(k)].val = LeafMap(Leaf)[k]
    <3>1. k \in Seq(Nat) /\ DOMAIN Leaf = 1..Len(Leaf)
      BY <2>2, StoresAssumption DEF LeafOK
    <3>2. /\ found(k) => stbt_leaf_find(k) \in 1..Len(Leaf) /\ Leaf[stbt_leaf_find(k)].key = k
          /\ ~found(k) => \A i \in 1..Len(Leaf) : Leaf[i].key # k
      BY <2>2, <3>1, LeafFindProperties
    <3>3. \A i \in DOMAIN Leaf : LeafMap(Leaf)[Leaf[i].key] = Leaf[i].val
      BY <2>2, LeafReads
    <3> QED BY <3>1, <3>2, <3>3
  <2> DEFINE D == { k \in Keys : found(k) }
  <2>4. D = { k \in Keys : \E i \in DOMAIN Leaf : Leaf[i].key = k }
    BY <2>3
  <2>5. StbtContents = [k \in D |-> Leaf[stbt_leaf_find(k)].val]
    BY DEF StbtContents
  <2>6. LeafMap(Leaf) = [k \in D |-> LeafMap(Leaf)[k]]
    BY <2>4 DEF LeafMap
  <2>7. \A k \in D : Leaf[stbt_leaf_find(k)].val = LeafMap(Leaf)[k]
    BY <2>3
  <2> HIDE DEF D
  <2>8. StbtContents = LeafMap(Leaf)
    BY <2>5, <2>6, <2>7
  <2> QED BY <1>2, <2>2, <2>8 DEF Contents, View
<1>3. CASE stable.magic # "STKV" /\ stable.magic # "STBT"
  BY <1>3 DEF Contents, View
<1> QED BY <1>1, <1>2, <1>3

\* Making the memory ready for a store does not change the map.
LEMMA ReadyKeepsMap ==
  ASSUME StoresInv
  PROVE  /\ OwnsMemory("STKV") => View(stkv_init_if_needed) = View(stable)
         /\ OwnsMemory("STBT") => View(stbt_init_if_needed) = View(stable)
<1>1. ASSUME OwnsMemory("STKV")
      PROVE  View(stkv_init_if_needed) = View(stable)
  <2>1. stkv_init_if_needed.magic = "STKV"
    BY <1>1, StkvReady DEF StoresInv
  <2>2. CASE stable.magic = "STKV"
    BY <1>1, <2>2, StkvReady DEF StoresInv
  <2>3. CASE stable.magic # "STKV"
    <3>1. stable.magic = "" /\ stkv_init_if_needed.entries = << >>
      BY <1>1, <2>3, StkvReady DEF StoresInv
    <3> QED BY <2>1, <3>1, EmptyMaps DEF View
  <2> QED BY <2>2, <2>3
<1>2. ASSUME OwnsMemory("STBT")
      PROVE  View(stbt_init_if_needed) = View(stable)
  <2>1. stbt_init_if_needed.magic = "STBT"
    BY <1>2, StbtReady DEF StoresInv
  <2>2. CASE stable.magic = "STBT"
    BY <1>2, <2>2, StbtReady DEF StoresInv
  <2>3. CASE stable.magic # "STBT"
    <3>1. stable.magic = "" /\ stbt_init_if_needed.entries = << >>
      BY <1>2, <2>3, StbtReady DEF StoresInv
    <3> QED BY <2>1, <3>1, EmptyMaps DEF View
  <2> QED BY <2>2, <2>3
<1> QED BY <1>1, <1>2

LEMMA StkvPutMaps ==
  ASSUME StoresInv, NEW key \in Keys, NEW val \in Values, stkv_put(key, val)
  PROVE  \/ View(stable') = View(stable)
         \/ /\ View(stable') = With(View(stable), key, val)
            /\ key \in DOMAIN View(stable) => Len(View(stable)[key]) = Len(val)
<1> DEFINE entries == StkvPutResult(key, val)
           list == stkv_init_if_needed.entries
<1>1. /\ OwnsMemory("STKV")
      /\ stable' = [stkv_init_if_needed EXCEPT !.count = Len(entries), !.entries = entries]
  BY DEF stkv_put, StkvPutResult
<1>2. /\ stkv_init_if_needed \in Memory /\ stkv_init_if_needed.magic = "STKV"
      /\ stkv_entries = list /\ list \in Seq(Entries)
  BY <1>1, StkvReady DEF StoresInv, Memory
<1>3. View(stable) = ListMap(list)
  BY <1>1, <1>2, ReadyKeepsMap DEF View
<1>4. View(stable') = ListMap(entries)
  <2> HIDE DEF entries
  <2>1. stable'.magic = "STKV" /\ stable'.entries = entries
    BY <1>1, <1>2 DEF Memory
  <2> QED BY <2>1 DEF View
<1>5. stkv_find(key) = FirstAt(list, key)
  BY <1>2, FindInList
<1> HIDE DEF list
<1>6. CASE FirstAt(list, key) > 0 /\ Len(list[FirstAt(list, key)].val) = Len(val)
  <2>1. entries = [list EXCEPT ![FirstAt(list, key)].val = val]
    BY <1>2, <1>5, <1>6 DEF StkvPutResult
  <2>2. /\ ListMap(entries) = With(ListMap(list), key, val)
        /\ ListMap(list)[key] = list[FirstAt(list, key)].val
    <3> HIDE DEF entries
    <3> QED BY <1>2, <1>6, <2>1, ListOverwritten
  <2> HIDE DEF entries
  <2> QED BY <1>3, <1>4, <1>6, <2>2
<1>7. CASE ~ (FirstAt(list, key) > 0 /\ Len(list[FirstAt(list, key)].val) = Len(val))
  <2>1. entries = Append(list, Entry(key, val))
    BY <1>2, <1>5, <1>7 DEF StkvPutResult
  <2> HIDE DEF entries
  <2>2. \/ ListMap(entries) = ListMap(list)
        \/ /\ ListMap(entries) = With(ListMap(list), key, val)
           /\ key \notin DOMAIN ListMap(list)
    BY <1>2, <2>1, ListAppended
  <2> QED BY <1>3, <1>4, <2>2
<1> QED BY <1>6, <1>7

LEMMA StbtPutMaps ==
  ASSUME StoresInv, NEW key \in Keys, NEW val \in Values, stbt_put(key, val)
  PROVE  \/ View(stable') = View(stable)
         \/ /\ View(stable') = With(View(stable), key, val)
            /\ key \in DOMAIN View(stable) => Len(View(stable)[key]) = Len(val)
<1> DEFINE leaf == stbt_leaf_put(key, val)
           count == stbt_count + (Len(leaf) - Len(Leaf))
<1>1. /\ OwnsMemory("STBT")
      /\ stable' = [stbt_init_if_needed EXCEPT !.count = count, !.entries = leaf]
  BY DEF stbt_put
<1>2. /\ stbt_init_if_needed \in Memory /\ stbt_init_if_needed.magic = "STBT"
      /\ Leaf = stbt_init_if_needed.entries /\ LeafOK(Leaf)
  BY <1>1, StbtReady DEF StoresInv
<1>3. View(stable) = LeafMap(Leaf)
  BY <1>1, <1>2, ReadyKeepsMap DEF View
<1>4. \/ leaf = Leaf
      \/ /\ LeafMap(leaf) = With(LeafMap(Leaf), key, val)
         /\ key \in DOMAIN LeafMap(Leaf) => Len(LeafMap(Leaf)[key]) = Len(val)
  BY <1>2, LeafPutMap
<1> HIDE DEF leaf, count
<1>5. View(stable') = LeafMap(leaf)
  <2>1. stable'.magic = "STBT" /\ stable'.entries = leaf
    BY <1>1, <1>2 DEF Memory
  <2> QED BY <2>1 DEF View
<1> QED BY <1>3, <1>4, <1>5

\* Every step is a put, a clear, or none for the map.
LEMMA NextMaps ==
  ASSUME StoresInv, [Next]_vars
  PROVE  \/ View(stable') = View(stable) /\ epoch' = epoch
         \/ \E key \in Keys, val \in Values :
              /\ View(stable') = With(View(stable), key, val) /\ epoch' = epoch
              /\ key \in DOMAIN View(stable) => Len(View(stable)[key]) = Len(val)
         \/ View(stable') = << >> /\ epoch' = ~epoch
<1>1. ASSUME NEW key \in Keys, NEW val \in Values, stkv_put(key, val) \/ stbt_put(key, val)
      PROVE  /\ \/ View(stable') = View(stable)
                \/ /\ View(stable') = With(View(stable), key, val)
                   /\ key \in DOMAIN View(stable) => Len(View(stable)[key]) = Len(val)
             /\ epoch' = epoch
  <2>1. CASE stkv_put(key, val)
    <3>1. epoch' = epoch
      BY <2>1 DEF stkv_put
    <3> QED BY <2>1, <3>1, StkvPutMaps
  <2>2. CASE stbt_put(key, val)
    <3>1. epoch' = epoch
      BY <2>2 DEF stbt_put
    <3> QED BY <2>2, <3>1, StbtPutMaps
  <2> QED BY <1>1, <2>1, <2>2
<1>2. CASE stkv_get
  BY <1>2, ReadyKeepsMap DEF stkv_get
<1>3. CASE stbt_get
  BY <1>3, ReadyKeepsMap DEF stbt_get
<1>4. CASE \E prefix \in ScanPrefixes : stbt_scan_start(prefix) \/ stbt_scan_collect(prefix)
  BY <1>4, ReadyKeepsMap DEF stbt_scan_start, stbt_scan_collect
<1>5. CASE stbt_scan_next \/ scan_ends \/ scan_misread \/ stbt_scan_stop \/ Upgrade
  BY <1>5 DEF stbt_scan_next, scan_ends, scan_misread, stbt_scan_stop, Upgrade
<1>6. CASE stkv_clear \/ stbt_clear
  <2>1. /\ stable' = Formatted("STKV") \/ stable' = Formatted("STBT")
        /\ epoch' = ~epoch
    BY <1>6 DEF stkv_clear, stbt_clear
  <2>2. View(Formatted("STKV")) = << >> /\ View(Formatted("STBT")) = << >>
    BY FormattedProperties, EmptyMaps DEF View
  <2> QED BY <2>1, <2>2
<1>7. CASE UNCHANGED vars
  BY <1>7 DEF vars
<1>8. CASE \E key \in Keys, val \in Values : stkv_put(key, val) \/ stbt_put(key, val)
  BY <1>1, <1>8
<1> QED BY <1>2, <1>3, <1>4, <1>5, <1>6, <1>7, <1>8 DEF Next

---------------------------------------------------------------------------
(* The scan.                                                               *)

\* What has a prefix is not interrupted in the order of the keys.
LEMMA PrefixConvex ==
  ASSUME NEW p \in Seq(Nat), NEW a \in Seq(Nat), NEW b \in Seq(Nat), NEW c \in Seq(Nat),
         IsPrefix(p, a), IsPrefix(p, c), stbt_key_less(a, b), stbt_key_less(b, c)
  PROVE  IsPrefix(p, b)
<1>1. /\ Len(p) \in Nat /\ Len(a) \in Nat /\ Len(b) \in Nat /\ Len(c) \in Nat
      /\ DOMAIN a = 1..Len(a) /\ DOMAIN b = 1..Len(b) /\ DOMAIN c = 1..Len(c)
      /\ \A i \in 1..Len(a) : a[i] \in Nat
      /\ \A i \in 1..Len(b) : b[i] \in Nat
      /\ \A i \in 1..Len(c) : c[i] \in Nat
  OBVIOUS
<1>2. /\ Len(p) <= Len(a) /\ \A i \in 1..Len(p) : p[i] = a[i]
      /\ Len(p) <= Len(c) /\ \A i \in 1..Len(p) : p[i] = c[i]
  BY PrefixMeaning
<1>3. PICK u \in 1..Len(b) : /\ \A j \in 1..(u - 1) : j \in 1..Len(a) /\ a[j] = b[j]
                             /\ u \in 1..Len(a) => a[u] < b[u]
  BY <1>1 DEF stbt_key_less
<1>4. PICK v \in 1..Len(c) : /\ \A j \in 1..(v - 1) : j \in 1..Len(b) /\ b[j] = c[j]
                             /\ v \in 1..Len(b) => b[v] < c[v]
  BY <1>1 DEF stbt_key_less
<1>5. CASE Len(p) < u
  <2>1. Len(p) <= Len(b) /\ \A i \in 1..Len(p) : i \in 1..(u - 1)
    BY <1>1, <1>5
  <2>2. \A i \in 1..Len(p) : p[i] = b[i]
    BY <1>2, <1>3, <2>1
  <2> QED BY <2>1, <2>2, PrefixMeaning
<1>6. CASE u <= Len(p)
  <2>1. u \in 1..Len(p) /\ u \in 1..Len(a) /\ u \in 1..Len(c)
    BY <1>1, <1>2, <1>6
  <2>2. a[u] < b[u] /\ c[u] = a[u] /\ a[u] \in Nat /\ b[u] \in Nat
    BY <1>1, <1>2, <1>3, <2>1
  <2>3. CASE u < v
    <3>1. u \in 1..(v - 1)
      BY <1>1, <2>3
    <3>2. b[u] = c[u]
      BY <1>4, <3>1
    <3> QED BY <2>2, <3>2
  <2>4. CASE v = u
    <3>1. b[u] < c[u]
      BY <1>4, <2>4
    <3> QED BY <2>2, <3>1
  <2>5. CASE v < u
    <3>0. v \in Nat /\ 1 <= v /\ u \in Nat /\ u <= Len(b) /\ u <= Len(p) /\ u <= Len(a)
      BY <1>1, <2>1
    <3>1. v \in 1..(u - 1) /\ v \in 1..Len(b) /\ v \in 1..Len(p) /\ v \in 1..Len(a)
      <4>1. \A x, y, z \in Nat : 1 <= x /\ x < y /\ y <= z => x \in 1..(y - 1) /\ x \in 1..z
        OBVIOUS
      <4>2. Len(b) \in Nat /\ Len(p) \in Nat /\ Len(a) \in Nat
        OBVIOUS
      <4> QED BY <2>5, <3>0, <4>1, <4>2, Zenon
    <3>2. a[v] = b[v] /\ b[v] < c[v] /\ a[v] = c[v] /\ a[v] \in Nat
      BY <1>1, <1>2, <1>3, <1>4, <3>1
    <3> QED BY <3>2
  <2>6. u < v \/ v = u \/ v < u
    BY <1>1
  <2> QED BY <2>3, <2>4, <2>5, <2>6
<1>7. Len(p) < u \/ u <= Len(p)
  BY <1>1
<1> QED BY <1>5, <1>6, <1>7

\* An entry further back begins further back: no two begin at one offset.
LEMMA OffsetsGrow ==
  ASSUME NEW leaf \in Seq(Entries),
         NEW i \in 1..(Len(leaf) + 1), NEW j \in 1..(Len(leaf) + 1), i < j
  PROVE  OffsetOf(leaf, i) < OffsetOf(leaf, j)
<1> DEFINE n == Len(leaf)
           Bad == { k \in 1..(n + 1) : i < k /\ ~ (OffsetOf(leaf, i) < OffsetOf(leaf, k)) }
<1>1. n \in Nat /\ i \in Nat /\ j \in Nat
  OBVIOUS
<1>2. SUFFICES ASSUME Bad # {} PROVE FALSE
  OBVIOUS
<1>3. PICK m \in Bad : \A k \in Bad : m <= k
  <2>1. Bad \in SUBSET Nat
    BY <1>1
  <2> HIDE DEF Bad
  <2> QED BY <1>2, <2>1, MinProperties
<1>4. m \in 1..(n + 1) /\ i < m /\ ~ (OffsetOf(leaf, i) < OffsetOf(leaf, m))
  OBVIOUS
<1> DEFINE k == m - 1
<1>5. k \in 1..n /\ k \in 1..(n + 1) /\ k + 1 = m /\ ~ (m <= k) /\ (k = i \/ i < k)
  BY <1>1, <1>4
<1>6. k \notin Bad
  <2> HIDE DEF Bad, k
  <2> QED BY <1>3, <1>5
<1>7. k = i \/ OffsetOf(leaf, i) < OffsetOf(leaf, k)
  <2> HIDE DEF k
  <2> QED BY <1>5, <1>6
<1> HIDE DEF k
<1>8. /\ OffsetOf(leaf, m) = OffsetOf(leaf, k) + entry_size(leaf[k])
      /\ OffsetOf(leaf, k) \in Nat /\ OffsetOf(leaf, i) \in Nat
  BY <1>5, OffsetProperties
<1>9. entry_size(leaf[k]) \in Nat /\ entry_size(leaf[k]) >= 4
  <2>1. leaf[k] \in Entries
    BY <1>5
  <2> QED BY <2>1, EntryTyped
<1> DEFINE x == OffsetOf(leaf, i)
           y == OffsetOf(leaf, k)
           z == OffsetOf(leaf, m)
           s == entry_size(leaf[k])
<1>10. /\ x \in Nat /\ y \in Nat /\ s \in Nat /\ s >= 4 /\ z = y + s
       /\ y = x \/ x < y
       /\ ~ (x < z)
  BY <1>4, <1>7, <1>8, <1>9
<1> HIDE DEF x, y, z, s
<1> QED BY <1>10

\* Positions of the keys with a prefix, and the keys at some positions.
Matching(leaf, prefix) == { i \in DOMAIN leaf : IsPrefix(prefix, leaf[i].key) }
KeysAt(leaf, S) == { leaf[i].key : i \in S }
DueIn(leaf, prefix) ==
  IF << >> \in KeysAt(leaf, Matching(leaf, prefix)) THEN {}
  ELSE KeysAt(leaf, Matching(leaf, prefix))

\* The keys with the prefix that are in front of a position.
KeysBefore(leaf, prefix, i) == KeysAt(leaf, { j \in Matching(leaf, prefix) : j < i })

LEMMA DueIsDueIn == ASSUME NEW prefix PROVE Due(prefix) = DueIn(Leaf, prefix)
  BY DEF Due, DueIn, KeysAt, Matching

\* The empty key can only be the first.
LEMMA EmptyKeyFirst ==
  ASSUME NEW leaf, LeafOK(leaf), NEW i \in DOMAIN leaf, leaf[i].key = << >>
  PROVE  i = 1
<1>1. i \in 1..Len(leaf) /\ DOMAIN leaf = 1..Len(leaf) /\ Len(leaf) \in Nat
  BY DEF LeafOK
<1>2. SUFFICES ASSUME 1 < i PROVE FALSE
  BY <1>1
<1>3. stbt_key_less(leaf[1].key, leaf[i].key)
  <2>1. 1 \in DOMAIN leaf
    BY <1>1
  <2> QED BY <1>2, <2>1 DEF LeafOK, Sorted
<1>4. DOMAIN << >> = {}
  OBVIOUS
<1> QED BY <1>3, <1>4 DEF stbt_key_less

\* When the key at a position does not have the prefix and one in front of it
\* does, none behind it does.
LEMMA MatchesTogether ==
  ASSUME NEW leaf, LeafOK(leaf), NEW prefix \in Seq(Nat),
         NEW i \in DOMAIN leaf, i \notin Matching(leaf, prefix),
         NEW j \in Matching(leaf, prefix), j <= i
  PROVE  \A k \in Matching(leaf, prefix) : k < i
<1>1. /\ DOMAIN leaf = 1..Len(leaf) /\ Len(leaf) \in Nat
      /\ \A k \in DOMAIN leaf : leaf[k].key \in Seq(Nat)
  <2>1. leaf \in Seq(Entries)
    BY DEF LeafOK
  <2>2. /\ DOMAIN leaf = 1..Len(leaf) /\ Len(leaf) \in Nat
        /\ \A k \in DOMAIN leaf : leaf[k] \in Entries
    BY <2>1
  <2>3. \A k \in DOMAIN leaf : leaf[k].key \in Keys
    BY <2>2 DEF Entries
  <2> QED BY <2>2, <2>3, StoresAssumption
<1>2. SUFFICES ASSUME NEW k \in Matching(leaf, prefix), ~ (k < i) PROVE FALSE
  OBVIOUS
<1>3. /\ j \in DOMAIN leaf /\ IsPrefix(prefix, leaf[j].key)
      /\ k \in DOMAIN leaf /\ IsPrefix(prefix, leaf[k].key)
      /\ ~ IsPrefix(prefix, leaf[i].key)
  BY DEF Matching
<1>4. j < i /\ i < k
  <2>1. j # i /\ k # i
    BY <1>3
  <2> QED BY <1>1, <1>2, <1>3, <2>1
<1>5. /\ stbt_key_less(leaf[j].key, leaf[i].key)
      /\ stbt_key_less(leaf[i].key, leaf[k].key)
  BY <1>3, <1>4 DEF LeafOK, Sorted
<1> QED BY <1>1, <1>3, <1>5, PrefixConvex

\* Where a scan begins.
LEMMA FirstMatchProperties ==
  ASSUME Leaf \in Seq(Entries), NEW prefix
  PROVE  LET i == FirstMatch(prefix)
         IN  /\ i \in 0..Len(Leaf)
             /\ i # 0 => /\ i \in Matching(Leaf, prefix)
                         /\ \A j \in Matching(Leaf, prefix) : i <= j
             /\ i = 0 => Matching(Leaf, prefix) = {}
<1> DEFINE I == { j \in 1..Len(Leaf) : IsPrefix(prefix, Leaf[j].key) }
           i == FirstMatch(prefix)
<1>1. Len(Leaf) \in Nat /\ DOMAIN Leaf = 1..Len(Leaf)
  OBVIOUS
<1>2. i = IF I # {} THEN Min(I) ELSE 0
  BY DEF FirstMatch, SelectInSeq
<1>3. I = Matching(Leaf, prefix)
  BY <1>1 DEF Matching
<1>4. I \in SUBSET Nat /\ \A j \in I : j \in 0..Len(Leaf) /\ j # 0
  BY <1>1
<1> HIDE DEF I, i
<1>5. I # {} => i \in I /\ \A j \in I : i <= j
  BY <1>2, <1>4, MinProperties
<1>6. I = {} => i = 0
  BY <1>2
<1>7. 0 \in 0..Len(Leaf)
  BY <1>1
<1>8. /\ i \in 0..Len(Leaf)
      /\ i # 0 => i \in I /\ \A j \in I : i <= j
      /\ i = 0 => I = {}
  BY <1>4, <1>5, <1>6, <1>7
<1> QED BY <1>3, <1>8 DEF i

\* Leaves with the same keys and values of the same sizes: a scan does not
\* tell one from the other.
SameShape(a, b) ==
  /\ Len(a) = Len(b)
  /\ \A i \in DOMAIN a : a[i].key = b[i].key /\ Len(a[i].val) = Len(b[i].val)

LEMMA SameShapeScans ==
  ASSUME NEW a \in Seq(Entries), NEW b \in Seq(Entries), SameShape(a, b)
  PROVE  /\ \A i \in 1..(Len(a) + 1) : OffsetOf(a, i) = OffsetOf(b, i)
         /\ \A prefix : DueIn(a, prefix) = DueIn(b, prefix)
         /\ \A prefix : Matching(a, prefix) = Matching(b, prefix)
         /\ \A prefix, i : KeysBefore(a, prefix, i) = KeysBefore(b, prefix, i)
<1>1. /\ Len(a) \in Nat /\ Len(b) = Len(a)
      /\ DOMAIN a = 1..Len(a) /\ DOMAIN b = 1..Len(a)
      /\ \A i \in 1..Len(a) : a[i].key = b[i].key /\ Len(a[i].val) = Len(b[i].val)
  BY DEF SameShape
<1>2. ASSUME NEW i \in 1..(Len(a) + 1)
      PROVE  OffsetOf(a, i) = OffsetOf(b, i)
  <2> DEFINE n == i - 1
  <2>1. /\ n \in Nat /\ 1 + n = i /\ 1 \in 1..(Len(a) + 1) /\ 1 \in 1..(Len(b) + 1)
        /\ 1 + n <= Len(a) + 1 /\ 1 + n <= Len(b) + 1
        /\ \A k \in 0..(n - 1) : 1 + k \in 1..Len(a)
    BY <1>1
  <2>2. \A k \in 0..(n - 1) : entry_size(a[1 + k]) = entry_size(b[1 + k])
    BY <1>1, <2>1 DEF entry_size
  <2> HIDE DEF n
  <2>3. OffsetOf(a, 1 + n) - OffsetOf(a, 1) = OffsetOf(b, 1 + n) - OffsetOf(b, 1)
    BY <2>1, <2>2, EqualRoom
  <2>4. /\ OffsetOf(a, 1) = 11 /\ OffsetOf(b, 1) = 11
        /\ OffsetOf(a, i) \in Nat /\ OffsetOf(b, i) \in Nat
    BY <1>1, OffsetProperties
  <2> QED BY <2>1, <2>3, <2>4
<1>3. ASSUME NEW prefix PROVE Matching(a, prefix) = Matching(b, prefix)
  BY <1>1 DEF Matching
<1>4. ASSUME NEW S \in SUBSET (1..Len(a)) PROVE KeysAt(a, S) = KeysAt(b, S)
  BY <1>1 DEF KeysAt
<1>5. ASSUME NEW prefix PROVE Matching(a, prefix) \subseteq 1..Len(a)
  BY <1>1 DEF Matching
<1>6. ASSUME NEW prefix PROVE DueIn(a, prefix) = DueIn(b, prefix)
  BY <1>3, <1>4, <1>5 DEF DueIn
<1>7. ASSUME NEW prefix, NEW i PROVE KeysBefore(a, prefix, i) = KeysBefore(b, prefix, i)
  <2> DEFINE S == { j \in Matching(a, prefix) : j < i }
  <2>1. S \subseteq 1..Len(a)
    BY <1>5
  <2>2. KeysAt(a, S) = KeysAt(b, S)
    BY <1>4, <2>1
  <2> QED BY <1>3, <2>2 DEF KeysBefore
<1> QED BY <1>2, <1>3, <1>6, <1>7

\* A put that does not insert leaves the shape of the leaf alone.
LEMMA PutKeepsShape ==
  ASSUME LeafOK(Leaf), NEW key \in Keys, NEW val \in Values,
         ~ (Len(stbt_leaf_put(key, val)) > Len(Leaf))
  PROVE  SameShape(Leaf, stbt_leaf_put(key, val))
<1> DEFINE n == Len(Leaf)
           p == stbt_leaf_find(key)
           leaf == stbt_leaf_put(key, val)
<1>1. /\ Leaf \in Seq(Entries) /\ n \in Nat /\ DOMAIN Leaf = 1..n
      /\ \A i \in 1..n : Leaf[i] \in Entries
      /\ key \in Seq(Nat) /\ Entry(key, val) \in Entries
  <2>1. Leaf \in Seq(Entries) /\ key \in Seq(Nat)
    BY StoresAssumption DEF LeafOK
  <2>2. Entry(key, val) \in Entries
    BY DEF Entries, Entry
  <2> QED BY <2>1, <2>2
<1>2. /\ p \in 1..(n + 1)
      /\ found(key) => p \in 1..n
  BY <1>1, LeafFindProperties
<1>3. CASE leaf = Leaf
  BY <1>3 DEF SameShape
<1>4. CASE found(key) /\ Len(Leaf[p].val) = Len(val) /\ leaf = [Leaf EXCEPT ![p].val = val]
  <2> DEFINE new == [Leaf[p] EXCEPT !.val = val]
  <2>1. leaf = [Leaf EXCEPT ![p] = new]
    BY <1>4
  <2>2. new.key = Leaf[p].key /\ new.val = val
    BY <1>1, <1>2, <1>4 DEF Entries
  <2>3. new \in Entries
    BY <1>1, <1>2, <1>4 DEF Entries
  <2> HIDE DEF new, leaf
  <2>4. /\ Len(leaf) = n /\ \A i \in 1..n : leaf[i] = IF i = p THEN new ELSE Leaf[i]
    BY <1>1, <1>2, <1>4, <2>1, <2>3
  <2>5. SameShape(Leaf, leaf)
    BY <1>1, <1>4, <2>2, <2>4 DEF SameShape
  <2> QED BY <2>5 DEF leaf
<1>5. CASE leaf = InsertAt(Leaf, p, Entry(key, val))
  <2> DEFINE t == InsertAt(Leaf, p, Entry(key, val))
  <2>1. Len(t) = n + 1
    <3> HIDE DEF p
    <3>1. p \in 1..(Len(Leaf) + 1)
      BY <1>2
    <3> QED BY <1>1, <3>1, InsertAtProperties
  <2>2. Len(leaf) = n + 1
    BY <1>5, <2>1
  <2>3. n + 1 > n
    BY <1>1
  <2> QED BY <2>2, <2>3
<1> QED BY <1>3, <1>4, <1>5 DEF stbt_leaf_put

---------------------------------------------------------------------------
(* The invariant of the scan.                                              *)

Increasing(seen) == \A i, j \in DOMAIN seen : i < j => stbt_key_less(seen[i], seen[j])

\* The cursor stands at entry i, the caller has the keys in front of it, and
\* the matches have begun there or before.
CursorAt(leaf, i) ==
  /\ scan.active /\ scan.offset = OffsetOf(leaf, i)
  /\ Range(reader.seen) = KeysBefore(leaf, scan.prefix, i)
  /\ \E j \in Matching(leaf, scan.prefix) : j <= i

AllGiven(leaf) == ~scan.active /\ Range(reader.seen) = DueIn(leaf, scan.prefix)

CursorInv ==
  reader.undisturbed =>
    /\ stable.magic = "STBT"
    /\ Increasing(reader.seen) /\ << >> \notin Range(reader.seen)
    /\ IF reader.ended THEN AllGiven(stable.entries)
       ELSE \E i \in 1..(Len(stable.entries) + 1) : CursorAt(stable.entries, i)

\* A step that neither moves an entry nor touches the scan.
LEMMA CursorUndisturbed ==
  ASSUME StoresInv, CursorInv, reader' = reader, scan' = scan,
         reader.undisturbed =>
           /\ stable'.magic = "STBT" /\ stable'.entries \in Seq(Entries)
           /\ SameShape(stable.entries, stable'.entries)
  PROVE  CursorInv'
<1> DEFINE a == stable.entries
           b == stable'.entries
<1>1. SUFFICES ASSUME reader.undisturbed PROVE CursorInv'
  BY DEF CursorInv
<1>2. a \in Seq(Entries) /\ b \in Seq(Entries) /\ SameShape(a, b) /\ stable'.magic = "STBT"
  BY <1>1 DEF StoresInv, MemoryInv, Memory
<1>3. /\ Increasing(reader.seen) /\ << >> \notin Range(reader.seen)
      /\ IF reader.ended THEN AllGiven(a) ELSE \E i \in 1..(Len(a) + 1) : CursorAt(a, i)
  BY <1>1 DEF CursorInv
<1> HIDE DEF a, b
<1>4. Len(a) = Len(b)
  BY <1>2 DEF SameShape
<1>5. /\ \A i \in 1..(Len(a) + 1) : OffsetOf(a, i) = OffsetOf(b, i)
      /\ DueIn(a, scan.prefix) = DueIn(b, scan.prefix)
      /\ Matching(a, scan.prefix) = Matching(b, scan.prefix)
      /\ \A i : KeysBefore(a, scan.prefix, i) = KeysBefore(b, scan.prefix, i)
  BY <1>2, SameShapeScans
<1>6. AllGiven(a) => ~scan'.active /\ Range(reader'.seen) = DueIn(b, scan'.prefix)
  BY <1>5 DEF AllGiven
<1>7. ASSUME NEW i \in 1..(Len(a) + 1), CursorAt(a, i)
      PROVE  /\ scan'.active /\ scan'.offset = OffsetOf(b, i)
             /\ Range(reader'.seen) = KeysBefore(b, scan'.prefix, i)
             /\ \E j \in Matching(b, scan'.prefix) : j <= i
             /\ i \in 1..(Len(b) + 1)
  BY <1>4, <1>5, <1>7 DEF CursorAt
<1> QED BY <1>2, <1>3, <1>6, <1>7 DEF CursorInv, CursorAt, AllGiven, b

\* A caller that something came between, or that has stopped.
LEMMA CursorLost == ASSUME reader' = NoReader PROVE CursorInv'
  BY DEF CursorInv, NoReader

LEMMA SameShapeSelf == ASSUME NEW leaf PROVE SameShape(leaf, leaf)
  BY DEF SameShape

LEMMA StkvCursor ==
  ASSUME StoresInv, CursorInv, OwnsMemory("STKV"), reader' = reader, scan' = scan
  PROVE  CursorInv'
<1>1. ~reader.undisturbed
  BY DEF CursorInv, OwnsMemory
<1> QED BY <1>1 DEF CursorInv

LEMMA StbtPutCursor ==
  ASSUME StoresInv, CursorInv, NEW key \in Keys, NEW val \in Values, stbt_put(key, val)
  PROVE  CursorInv'
<1> DEFINE leaf == stbt_leaf_put(key, val)
           count == stbt_count + (Len(leaf) - Len(Leaf))
<1>1. /\ OwnsMemory("STBT")
      /\ stable' = [stbt_init_if_needed EXCEPT !.count = count, !.entries = leaf]
      /\ reader' = IF Len(leaf) > Len(Leaf) THEN NoReader ELSE reader
      /\ scan' = scan
  BY DEF stbt_put
<1>2. /\ stbt_init_if_needed \in Memory /\ stbt_init_if_needed.magic = "STBT"
      /\ LeafOK(Leaf) /\ (stable.magic = "STBT" => stbt_init_if_needed = stable)
      /\ Leaf = stbt_init_if_needed.entries
  BY <1>1, StbtReady DEF StoresInv
<1>3. LeafOK(leaf)
  BY <1>2, LeafPutKeeps
<1>4. CASE Len(leaf) > Len(Leaf)
  BY <1>1, <1>4, CursorLost
<1>5. CASE ~ (Len(leaf) > Len(Leaf))
  <2>1. SameShape(Leaf, leaf)
    BY <1>2, <1>5, PutKeepsShape
  <2> HIDE DEF leaf, count
  <2>2. stable'.magic = "STBT" /\ stable'.entries = leaf /\ leaf \in Seq(Entries)
    BY <1>1, <1>2, <1>3 DEF Memory, LeafOK
  <2>3. reader.undisturbed => Leaf = stable.entries
    BY <1>2 DEF CursorInv
  <2> QED BY <1>1, <1>5, <2>1, <2>2, <2>3, CursorUndisturbed
<1> QED BY <1>4, <1>5

LEMMA StbtGetCursor ==
  ASSUME StoresInv, CursorInv, stbt_get
  PROVE  CursorInv'
<1>1. OwnsMemory("STBT") /\ stable' = stbt_init_if_needed /\ scan' = scan /\ reader' = reader
  BY DEF stbt_get
<1>2. reader.undisturbed => stable' = stable
  BY <1>1, StbtReady DEF CursorInv, StoresInv
<1>3. reader.undisturbed =>
        /\ stable'.magic = "STBT" /\ stable'.entries \in Seq(Entries)
        /\ SameShape(stable.entries, stable'.entries)
  BY <1>2, SameShapeSelf DEF CursorInv, StoresInv, MemoryInv, Memory
<1> QED BY <1>1, <1>3, CursorUndisturbed

LEMMA StartCursor ==
  ASSUME StoresInv, NEW prefix \in ScanPrefixes, stbt_scan_start(prefix)
  PROVE  CursorInv'
<1>0. PICK i : i = FirstMatch(prefix)
  OBVIOUS
<1>1. /\ OwnsMemory("STBT") /\ stable' = stbt_init_if_needed
      /\ scan' = [ active |-> i > 0, prefix |-> prefix,
                   offset |-> IF i > 0 THEN OffsetOf(Leaf, i) ELSE 0 ]
      /\ reader' = [seen |-> << >>, undisturbed |-> TRUE, ended |-> i = 0]
  BY <1>0 DEF stbt_scan_start
<1>2. stable'.magic = "STBT" /\ stable'.entries = Leaf /\ Leaf \in Seq(Entries)
  BY <1>1, StbtReady DEF StoresInv, LeafOK
<1>3. /\ i \in 0..Len(Leaf)
      /\ i # 0 => i \in Matching(Leaf, prefix) /\ \A j \in Matching(Leaf, prefix) : i <= j
      /\ i = 0 => Matching(Leaf, prefix) = {}
  BY <1>0, <1>2, FirstMatchProperties
<1>4. Len(Leaf) \in Nat
  BY <1>2
<1>5. Range(<< >>) = {} /\ Increasing(<< >>)
  BY DEF Range, Increasing
<1>6. CASE i = 0
  <2>1. DueIn(Leaf, prefix) = {}
    BY <1>3, <1>6 DEF DueIn, KeysAt
  <2>2. /\ ~scan'.active /\ scan'.prefix = prefix
        /\ reader'.seen = << >> /\ reader'.ended
    <3>1. ~ (i > 0)
      BY <1>6
    <3> QED BY <1>1, <1>6, <3>1
  <2> QED BY <1>2, <1>5, <2>1, <2>2 DEF CursorInv, AllGiven
<1>7. CASE i # 0
  <2>1. i \in 1..(Len(Leaf) + 1) /\ i > 0 /\ i <= i
    BY <1>3, <1>4, <1>7
  <2>2. KeysBefore(Leaf, prefix, i) = {}
    <3>1. \A j \in Matching(Leaf, prefix) : ~ (j < i)
      <4>1. Matching(Leaf, prefix) \subseteq 1..Len(Leaf)
        BY <1>2 DEF Matching
      <4> QED BY <1>3, <1>4, <1>7, <2>1, <4>1
    <3> QED BY <3>1 DEF KeysBefore, KeysAt
  <2>3. /\ scan'.active /\ scan'.prefix = prefix /\ scan'.offset = OffsetOf(Leaf, i)
        /\ reader'.seen = << >> /\ ~reader'.ended
    BY <1>1, <1>7, <2>1
  <2>4. CursorAt(stable.entries, i)'
    BY <1>2, <1>3, <1>5, <1>7, <2>1, <2>2, <2>3 DEF CursorAt
  <2> QED BY <1>2, <1>5, <2>1, <2>3, <2>4 DEF CursorInv
<1> QED BY <1>6, <1>7

\* The position of the cursor, which a scan under way finds from the offset.
LEMMA CursorPosition ==
  ASSUME StoresInv, CursorInv, reader.undisturbed, scan.active
  PROVE  /\ ~reader.ended
         /\ \E i \in 1..(Len(Leaf) + 1) :
              /\ CursorAt(Leaf, i)
              /\ \A k \in AtCursor : k = i /\ k \in 1..Len(Leaf)
              /\ scan.offset >= OffsetOf(Leaf, Len(Leaf) + 1) => i = Len(Leaf) + 1
              /\ AtCursor = {} => i = Len(Leaf) + 1
<1>1. Leaf = stable.entries /\ Leaf \in Seq(Entries) /\ stable.magic = "STBT"
  BY ScanReady DEF LeafOK
<1>2. ~reader.ended
  BY DEF CursorInv, AllGiven
<1>3. PICK i \in 1..(Len(Leaf) + 1) : CursorAt(Leaf, i)
  BY <1>1, <1>2 DEF CursorInv
<1>4. Len(Leaf) \in Nat /\ DOMAIN Leaf = 1..Len(Leaf)
  BY <1>1
<1>5. scan.offset = OffsetOf(Leaf, i)
  BY <1>3 DEF CursorAt
<1>6. ASSUME NEW k \in 1..(Len(Leaf) + 1), OffsetOf(Leaf, k) <= scan.offset,
             scan.offset <= OffsetOf(Leaf, k)
      PROVE  k = i
  <2>1. OffsetOf(Leaf, k) \in Nat /\ OffsetOf(Leaf, i) \in Nat
    BY <1>1, OffsetProperties
  <2>2. CASE k < i
    <3>1. OffsetOf(Leaf, k) < OffsetOf(Leaf, i)
      BY <1>1, <2>2, OffsetsGrow
    <3> QED BY <1>5, <1>6, <2>1, <3>1
  <2>3. CASE i < k
    <3>1. OffsetOf(Leaf, i) < OffsetOf(Leaf, k)
      BY <1>1, <2>3, OffsetsGrow
    <3> QED BY <1>5, <1>6, <2>1, <3>1
  <2> QED BY <1>4, <2>2, <2>3
<1>7. \A k \in AtCursor : k = i /\ k \in 1..Len(Leaf)
  <2> SUFFICES ASSUME NEW k \in AtCursor PROVE k = i /\ k \in 1..Len(Leaf)
    OBVIOUS
  <2>1. k \in 1..Len(Leaf) /\ k \in 1..(Len(Leaf) + 1) /\ OffsetOf(Leaf, k) = scan.offset
    BY <1>4 DEF AtCursor
  <2>2. OffsetOf(Leaf, k) \in Nat
    BY <1>1, <2>1, OffsetProperties
  <2>3. OffsetOf(Leaf, k) <= scan.offset /\ scan.offset <= OffsetOf(Leaf, k)
    BY <2>1, <2>2
  <2> QED BY <1>6, <2>1, <2>3
<1>8. scan.offset >= OffsetOf(Leaf, Len(Leaf) + 1) => i = Len(Leaf) + 1
  <2> SUFFICES ASSUME scan.offset >= OffsetOf(Leaf, Len(Leaf) + 1), i # Len(Leaf) + 1
               PROVE  FALSE
    OBVIOUS
  <2>1. Len(Leaf) + 1 \in 1..(Len(Leaf) + 1) /\ i < Len(Leaf) + 1
    BY <1>4
  <2>2. OffsetOf(Leaf, i) < OffsetOf(Leaf, Len(Leaf) + 1)
    BY <1>1, <2>1, OffsetsGrow
  <2>3. OffsetOf(Leaf, i) \in Nat /\ OffsetOf(Leaf, Len(Leaf) + 1) \in Nat
    BY <1>1, <2>1, OffsetProperties
  <2> QED BY <1>5, <2>2, <2>3
<1>9. AtCursor = {} => i = Len(Leaf) + 1
  <2>1. i \in 1..Len(Leaf) => i \in AtCursor
    BY <1>4, <1>5 DEF AtCursor
  <2> QED BY <1>4, <2>1
<1> QED BY <1>2, <1>3, <1>7, <1>8, <1>9

LEMMA NextCursor ==
  ASSUME StoresInv, CursorInv, stbt_scan_next
  PROVE  CursorInv'
<1>1. scan.active /\ UNCHANGED stable
  BY DEF stbt_scan_next
<1>2. PICK i \in AtCursor :
        /\ Leaf[i].key # << >> /\ IsPrefix(scan.prefix, Leaf[i].key)
        /\ scan' = [scan EXCEPT !.offset = @ + entry_size(Leaf[i])]
        /\ reader' = IF reader.undisturbed
                       THEN [reader EXCEPT !.seen = Append(@, Leaf[i].key)]
                       ELSE reader
  BY DEF stbt_scan_next
<1>3. /\ Leaf = stable.entries /\ LeafOK(Leaf) /\ Leaf \in Seq(Entries)
      /\ stable.magic = "STBT" /\ scan \in Scans /\ reader \in Readers
  BY <1>1, ScanReady DEF LeafOK, StoresInv, ScanInv
<1>4. CASE ~reader.undisturbed
  BY <1>2, <1>4 DEF CursorInv
<1>5. CASE reader.undisturbed
  <2> DEFINE key == Leaf[i].key
             seen == Append(reader.seen, key)
             n == Len(Leaf)
             m == Len(reader.seen)
  <2>1. /\ ~reader.ended /\ i \in 1..n /\ CursorAt(Leaf, i)
    BY <1>1, <1>5, CursorPosition
  <2>2. n \in Nat /\ DOMAIN Leaf = 1..n /\ i \in Nat /\ i + 1 \in 1..(n + 1)
    BY <1>3, <2>1
  <2>3. Leaf[i] \in Entries /\ key \in Keys /\ reader.seen \in Seq(Keys)
    <3>1. Leaf[i] \in Entries
      BY <1>3, <2>1
    <3> QED BY <1>3, <3>1 DEF Entries, Readers
  <2>4. /\ m \in Nat /\ seen \in Seq(Keys) /\ Len(seen) = m + 1
        /\ DOMAIN reader.seen = 1..m /\ DOMAIN seen = 1..(m + 1)
        /\ \A j \in 1..m : seen[j] = reader.seen[j]
        /\ seen[m + 1] = key
    BY <2>3
  <2>5. /\ scan'.active = scan.active /\ scan'.prefix = scan.prefix
        /\ scan'.offset = scan.offset + entry_size(Leaf[i])
        /\ reader'.seen = seen /\ reader'.ended = reader.ended
    BY <1>2, <1>3, <1>5 DEF Scans, Readers
  <2>6. /\ scan.offset = OffsetOf(Leaf, i)
        /\ Range(reader.seen) = KeysBefore(Leaf, scan.prefix, i)
        /\ Increasing(reader.seen) /\ << >> \notin Range(reader.seen)
    BY <1>5, <2>1 DEF CursorInv, CursorAt
  <2>7. i \in Matching(Leaf, scan.prefix)
    BY <1>2, <2>1, <2>2 DEF Matching
  <2> HIDE DEF seen, m
  <2>8. Range(seen) = Range(reader.seen) \cup {key}
    <3>1. m + 1 \in 1..(m + 1) /\ \A j \in 1..m : j \in 1..(m + 1)
      BY <2>4
    <3>2. \A j \in 1..(m + 1) : j = m + 1 \/ j \in 1..m
      BY <2>4
    <3> QED BY <2>4, <3>1, <3>2 DEF Range
  <2>9. Range(seen) = KeysBefore(Leaf, scan.prefix, i + 1)
    <3> DEFINE M == Matching(Leaf, scan.prefix)
    <3>1. \A j \in M : j \in Nat
      BY <2>2 DEF Matching
    <3>2. i \in M
      BY <2>7
    <3> HIDE DEF M
    <3>3. \A j \in M : j < i + 1 <=> (j = i \/ j < i)
      BY <2>2, <3>1
    <3>4. { j \in M : j < i + 1 } = { j \in M : j < i } \cup {i}
      BY <3>2, <3>3
    <3>5. KeysAt(Leaf, { j \in M : j < i + 1 }) = KeysAt(Leaf, { j \in M : j < i }) \cup {key}
      BY <3>4 DEF KeysAt
    <3> QED BY <2>6, <2>8, <3>5 DEF KeysBefore, M
  <2>10. \A g \in Range(reader.seen) : stbt_key_less(g, key)
    <3> SUFFICES ASSUME NEW g \in Range(reader.seen) PROVE stbt_key_less(g, key)
      OBVIOUS
    <3>1. PICK j \in DOMAIN Leaf : j < i /\ Leaf[j].key = g
      BY <2>6 DEF KeysBefore, KeysAt, Matching
    <3> QED BY <1>3, <2>1, <2>2, <3>1 DEF LeafOK, Sorted
  <2>11. Increasing(seen)
    <3> SUFFICES ASSUME NEW j \in 1..(m + 1), NEW k \in 1..(m + 1), j < k
                 PROVE  stbt_key_less(seen[j], seen[k])
      BY <2>4 DEF Increasing
    <3>1. j \in 1..m /\ (k = m + 1 \/ k \in 1..m)
      BY <2>4
    <3>2. CASE k = m + 1
      <4>1. reader.seen[j] \in Range(reader.seen)
        BY <2>4, <3>1 DEF Range
      <4> QED BY <2>4, <2>10, <3>1, <3>2, <4>1
    <3>3. CASE k \in 1..m
      BY <2>4, <2>6, <3>1, <3>3 DEF Increasing
    <3> QED BY <3>1, <3>2, <3>3
  <2>12. << >> \notin Range(seen)
    BY <1>2, <2>6, <2>8
  <2>13. OffsetOf(Leaf, i + 1) = scan.offset + entry_size(Leaf[i])
    BY <1>3, <2>1, <2>6, OffsetProperties
  <2>14. i \in Matching(Leaf, scan.prefix) /\ i <= i + 1
    BY <2>2, <2>7
  <2>15. CursorAt(stable.entries, i + 1)'
    BY <1>1, <1>3, <2>5, <2>9, <2>13, <2>14 DEF CursorAt
  <2> QED BY <1>1, <1>3, <2>1, <2>2, <2>5, <2>11, <2>12, <2>15 DEF CursorInv
<1> QED BY <1>4, <1>5

\* Where the scan ends there is nothing left to give.
LEMMA NothingLeft ==
  ASSUME NEW leaf, LeafOK(leaf), NEW prefix \in Seq(Nat),
         NEW i \in 1..(Len(leaf) + 1),
         \E j \in Matching(leaf, prefix) : j <= i,
         << >> \notin KeysBefore(leaf, prefix, i),
         \/ i = Len(leaf) + 1
         \/ leaf[i].key = << >>
         \/ ~ IsPrefix(prefix, leaf[i].key)
  PROVE  KeysBefore(leaf, prefix, i) = DueIn(leaf, prefix)
<1> DEFINE M == Matching(leaf, prefix)
<1>1. /\ leaf \in Seq(Entries) /\ Len(leaf) \in Nat /\ DOMAIN leaf = 1..Len(leaf)
      /\ i \in Nat
      /\ M \subseteq DOMAIN leaf
  BY DEF LeafOK, Matching
<1>2. CASE i # Len(leaf) + 1 /\ leaf[i].key = << >>
  <2>1. i \in DOMAIN leaf
    BY <1>1, <1>2
  <2>2. i = 1
    BY <1>2, <2>1, EmptyKeyFirst
  <2>3. \A j \in M : ~ (j < i)
    BY <1>1, <2>2
  <2>4. 1 \in M
    BY <1>1, <2>2
  <2>5. << >> \in KeysAt(leaf, M)
    BY <1>2, <2>2, <2>4 DEF KeysAt
  <2> QED BY <2>3, <2>5 DEF KeysBefore, KeysAt, DueIn
<1>3. CASE i = Len(leaf) + 1 \/ ~ IsPrefix(prefix, leaf[i].key)
  <2>1. \A k \in M : k < i
    <3>1. CASE i = Len(leaf) + 1
      BY <1>1, <3>1
    <3>2. CASE i # Len(leaf) + 1
      <4>1. i \in DOMAIN leaf /\ i \notin M
        BY <1>1, <1>3, <3>2 DEF Matching
      <4> QED BY <4>1, MatchesTogether
    <3> QED BY <3>1, <3>2
  <2>2. { j \in M : j < i } = M
    BY <2>1
  <2>3. KeysBefore(leaf, prefix, i) = KeysAt(leaf, M)
    BY <2>2 DEF KeysBefore
  <2> QED BY <2>3 DEF DueIn
<1> QED BY <1>2, <1>3

LEMMA EndsCursor ==
  ASSUME StoresInv, CursorInv, scan_ends
  PROVE  CursorInv'
<1>1. /\ scan.active /\ UNCHANGED stable
      /\ \/ scan.offset >= OffsetOf(Leaf, Len(Leaf) + 1)
         \/ \E i \in AtCursor : \/ Leaf[i].key = << >>
                                \/ ~IsPrefix(scan.prefix, Leaf[i].key)
      /\ scan' = [scan EXCEPT !.active = FALSE, !.offset = 0]
      /\ reader' = [reader EXCEPT !.ended = TRUE]
  BY DEF scan_ends
<1>2. /\ Leaf = stable.entries /\ LeafOK(Leaf) /\ stable.magic = "STBT"
      /\ scan \in Scans /\ reader \in Readers
  BY <1>1, ScanReady DEF StoresInv, ScanInv
<1>3. /\ scan'.active = FALSE /\ scan'.prefix = scan.prefix
      /\ reader'.seen = reader.seen /\ reader'.ended = TRUE
      /\ reader'.undisturbed = reader.undisturbed
  BY <1>1, <1>2 DEF Scans, Readers
<1>4. CASE ~reader.undisturbed
  BY <1>3, <1>4 DEF CursorInv
<1>5. CASE reader.undisturbed
  <2>1. PICK i \in 1..(Len(Leaf) + 1) :
          /\ CursorAt(Leaf, i)
          /\ \A k \in AtCursor : k = i
          /\ scan.offset >= OffsetOf(Leaf, Len(Leaf) + 1) => i = Len(Leaf) + 1
    BY <1>1, <1>5, CursorPosition
  <2>2. \/ i = Len(Leaf) + 1
        \/ Leaf[i].key = << >>
        \/ ~ IsPrefix(scan.prefix, Leaf[i].key)
    BY <1>1, <2>1
  <2>3. /\ \E j \in Matching(Leaf, scan.prefix) : j <= i
        /\ Range(reader.seen) = KeysBefore(Leaf, scan.prefix, i)
    BY <2>1 DEF CursorAt
  <2>4. Increasing(reader.seen) /\ << >> \notin Range(reader.seen)
    BY <1>5 DEF CursorInv
  <2>5. scan.prefix \in Seq(Nat)
    <3>1. << >> \in Seq(Nat)
      OBVIOUS
    <3> QED BY <1>2, <3>1, StoresAssumption DEF Scans
  <2>6. << >> \notin KeysBefore(Leaf, scan.prefix, i)
    BY <2>3, <2>4
  <2>7. Range(reader.seen) = DueIn(Leaf, scan.prefix)
    BY <1>2, <2>2, <2>3, <2>5, <2>6, NothingLeft
  <2>8. AllGiven(stable.entries)'
    BY <1>1, <1>2, <1>3, <2>7 DEF AllGiven
  <2> QED BY <1>1, <1>2, <1>3, <2>4, <2>8 DEF CursorInv
<1> QED BY <1>4, <1>5

\* A cursor in the middle of an entry is not that of an undisturbed scan.
LEMMA MisreadCursor ==
  ASSUME StoresInv, CursorInv, scan_misread
  PROVE  CursorInv'
<1>1. /\ scan.active /\ AtCursor = {} /\ scan.offset < OffsetOf(Leaf, Len(Leaf) + 1)
      /\ reader' = reader
  BY DEF scan_misread
<1>2. ~reader.undisturbed
  <2> SUFFICES ASSUME reader.undisturbed PROVE FALSE
    OBVIOUS
  <2>1. PICK i \in 1..(Len(Leaf) + 1) : CursorAt(Leaf, i) /\ i = Len(Leaf) + 1
    BY <1>1, CursorPosition
  <2>2. scan.offset = OffsetOf(Leaf, Len(Leaf) + 1)
    BY <2>1 DEF CursorAt
  <2>3. scan.offset \in Nat
    BY DEF StoresInv, ScanInv, Scans
  <2> QED BY <1>1, <2>2, <2>3
<1> QED BY <1>1, <1>2 DEF CursorInv

LEMMA CursorNextKeeps == StoresInv /\ CursorInv /\ [Next]_vars => CursorInv'
<1> SUFFICES ASSUME StoresInv, CursorInv, [Next]_vars PROVE CursorInv'
  OBVIOUS
<1>1. ASSUME NEW key \in Keys, NEW val \in Values, stkv_put(key, val) \/ stbt_put(key, val)
      PROVE  CursorInv'
  BY <1>1, StkvCursor, StbtPutCursor DEF stkv_put
<1>2. CASE stkv_get \/ stkv_clear
  <2>1. CASE OwnsMemory("STKV") /\ UNCHANGED <<reader, scan>>
    BY <2>1, StkvCursor
  <2> QED BY <1>2, <2>1 DEF stkv_get, stkv_clear
<1>3. CASE stbt_get
  BY <1>3, StbtGetCursor
<1>4. CASE stbt_clear \/ stbt_scan_stop \/ Upgrade
  BY <1>4, CursorLost DEF stbt_clear, stbt_scan_stop, Upgrade
<1>5. ASSUME NEW prefix \in ScanPrefixes, stbt_scan_start(prefix) \/ stbt_scan_collect(prefix)
      PROVE  CursorInv'
  BY <1>5, StartCursor, CursorLost DEF stbt_scan_collect
<1>6. CASE stbt_scan_next
  BY <1>6, NextCursor
<1>7. CASE scan_ends
  BY <1>7, EndsCursor
<1>8. CASE scan_misread
  BY <1>8, MisreadCursor
<1>9. CASE UNCHANGED vars
  BY <1>9 DEF vars, CursorInv, CursorAt, AllGiven
<1> QED BY <1>1, <1>2, <1>3, <1>4, <1>5, <1>6, <1>7, <1>8, <1>9 DEF Next

\* What the caller has been given so far, with the empty key in mind.
LEMMA GivenAreDue ==
  ASSUME NEW leaf, LeafOK(leaf), NEW prefix, NEW i \in 1..(Len(leaf) + 1),
         << >> \notin KeysBefore(leaf, prefix, i)
  PROVE  /\ KeysBefore(leaf, prefix, i) \subseteq DueIn(leaf, prefix)
         /\ \A g \in KeysBefore(leaf, prefix, i),
               key \in DueIn(leaf, prefix) \ KeysBefore(leaf, prefix, i) :
              stbt_key_less(g, key)
<1> DEFINE M == Matching(leaf, prefix)
<1>1. /\ leaf \in Seq(Entries) /\ Len(leaf) \in Nat /\ DOMAIN leaf = 1..Len(leaf)
      /\ i \in Nat /\ M \subseteq 1..Len(leaf)
  BY DEF LeafOK, Matching
<1>2. CASE << >> \in KeysAt(leaf, M)
  <2>1. PICK k \in M : leaf[k].key = << >>
    BY <1>2 DEF KeysAt
  <2>2. k = 1
    <3>1. k \in DOMAIN leaf
      BY <1>1
    <3> QED BY <2>1, <3>1, EmptyKeyFirst
  <2>3. ~ (k < i)
    BY <2>1 DEF KeysBefore, KeysAt
  <2>4. \A j \in M : ~ (j < i)
    BY <1>1, <2>2, <2>3
  <2>5. KeysBefore(leaf, prefix, i) = {}
    BY <2>4 DEF KeysBefore, KeysAt
  <2> QED BY <2>5
<1>3. CASE << >> \notin KeysAt(leaf, M)
  <2>1. DueIn(leaf, prefix) = KeysAt(leaf, M)
    BY <1>3 DEF DueIn
  <2>2. KeysBefore(leaf, prefix, i) \subseteq KeysAt(leaf, M)
    BY DEF KeysBefore, KeysAt
  <2>3. ASSUME NEW g \in KeysBefore(leaf, prefix, i),
               NEW key \in KeysAt(leaf, M), key \notin KeysBefore(leaf, prefix, i)
        PROVE  stbt_key_less(g, key)
    <3>1. PICK a \in M : a < i /\ g = leaf[a].key
      BY DEF KeysBefore, KeysAt
    <3>2. PICK b \in M : key = leaf[b].key
      BY DEF KeysAt
    <3>3. ~ (b < i)
      BY <2>3, <3>2 DEF KeysBefore, KeysAt
    <3>4. a \in DOMAIN leaf /\ b \in DOMAIN leaf /\ a < b
      BY <1>1, <3>1, <3>3
    <3> QED BY <3>1, <3>2, <3>4 DEF LeafOK, Sorted
  <2> QED BY <2>1, <2>2, <2>3
<1> QED BY <1>2, <1>3

---------------------------------------------------------------------------
(* The theorems.                                                           *)

\* The invariant of memory, statics and scan holds in every reachable state of
\* the two stores, through any number of upgrades.
THEOREM StoresInvariance == Spec => []StoresInv
<1> QED BY StoresInitEstablishes, StoresNextKeeps, PTL DEF Spec

\* Memory and statics keep their types, a store whose statics are initialized
\* owns the memory, and the leaf never outgrows its page.
THEOREM StoresTypeCorrect == Spec => []StoresTypeOK
<1>1. StoresInv => StoresTypeOK
  <2> SUFFICES ASSUME StoresInv PROVE StoresTypeOK
    OBVIOUS
  <2>1. /\ stable.grown \in BOOLEAN /\ stable.magic \in {"", "STKV", "STBT"}
        /\ stable.count \in Nat /\ stable.entries \in Seq(Entries)
    BY DEF StoresInv, MemoryInv, Memory
  <2>2. /\ reader.seen \in Seq(Keys)
        /\ reader.undisturbed \in BOOLEAN /\ reader.ended \in BOOLEAN
    BY DEF StoresInv, ScanInv, Readers
  <2>3. stable.magic = "STBT" /\ stable.entries # << >> =>
          OffsetOf(stable.entries, Len(stable.entries) + 1) <= LeafLimit
    BY DEF StoresInv, MemoryInv, LeafOK, Fits
  <2> QED BY <2>1, <2>2, <2>3
          DEF StoresInv, MemoryInv, ScanInv, StoresTypeOK, Statics, Scans
<1> QED BY StoresInvariance, <1>1, PTL

\* The header in memory, its copy in the statics and the entries that are
\* there agree on the count, before and after every upgrade.
THEOREM CountsAlwaysAgree == Spec => []CountsAgree
<1>1. StoresInv => CountsAgree
  BY DEF StoresInv, MemoryInv
<1> QED BY StoresInvariance, <1>1, PTL

\* The leaf stays sorted without a key in it twice, so that stbt_leaf_find,
\* which stops at the first key that is not less, misses none.
THEOREM LeafAlwaysSorted == Spec => []LeafSorted
<1>1. StoresInv => LeafSorted
  BY DEF StoresInv, MemoryInv, LeafOK, Sorted, LeafSorted
<1> QED BY StoresInvariance, <1>1, PTL

\* A scan that nothing interfered with gives its caller every key that is due
\* and no other, in order, for any keys, values, prefixes and sizes.
THEOREM ScansAlwaysExact == Spec => []ScanExact
<1>1. Init => CursorInv
  <2> SUFFICES ASSUME Init PROVE CursorInv
    OBVIOUS
  <2>1. ~reader.undisturbed
    BY DEF Init, NoReader
  <2> QED BY <2>1 DEF CursorInv
<1>2. StoresInv /\ CursorInv => ScanExact
  <2> SUFFICES ASSUME StoresInv, CursorInv, reader.undisturbed PROVE ScanExact
    BY DEF ScanExact
  <2> DEFINE leaf == stable.entries
  <2>1. /\ Leaf = leaf /\ LeafOK(leaf)
    BY DEF CursorInv, StoresInv, MemoryInv, Leaf, stbt_init_if_needed
  <2>2. Due(scan.prefix) = DueIn(leaf, scan.prefix)
    BY <2>1, DueIsDueIn
  <2>3. /\ Increasing(reader.seen) /\ << >> \notin Range(reader.seen)
        /\ IF reader.ended THEN AllGiven(leaf)
           ELSE \E i \in 1..(Len(leaf) + 1) : CursorAt(leaf, i)
    BY DEF CursorInv
  <2> HIDE DEF leaf
  <2>4. CASE reader.ended
    <3>1. Range(reader.seen) = Due(scan.prefix)
      BY <2>2, <2>3, <2>4 DEF AllGiven
    <3> QED BY <2>3, <2>4, <3>1 DEF ScanExact, Increasing
  <2>5. CASE ~reader.ended
    <3>1. PICK i \in 1..(Len(leaf) + 1) : CursorAt(leaf, i)
      BY <2>3, <2>5
    <3>2. scan.active /\ Range(reader.seen) = KeysBefore(leaf, scan.prefix, i)
      BY <3>1 DEF CursorAt
    <3>3. /\ KeysBefore(leaf, scan.prefix, i) \subseteq DueIn(leaf, scan.prefix)
          /\ \A g \in KeysBefore(leaf, scan.prefix, i),
                key \in DueIn(leaf, scan.prefix) \ KeysBefore(leaf, scan.prefix, i) :
               stbt_key_less(g, key)
      BY <2>1, <2>3, <3>2, GivenAreDue
    <3> QED BY <2>2, <2>3, <2>5, <3>2, <3>3 DEF ScanExact, Increasing
  <2> QED BY <2>4, <2>5
<1> QED BY <1>1, <1>2, CursorNextKeeps, StoresInvariance, PTL DEF Spec

\* Either store implements a map in which the first put of a key fixes the
\* size of its values and which upgrades leave alone.
THEOREM StoresImplementSizedMap == Spec => ImplementsSizedMap
<1>1. Init => SizedMapView!Init
  <2> SUFFICES ASSUME Init PROVE SizedMapView!Init
    OBVIOUS
  <2>1. StoresInv /\ stable.magic = "" /\ epoch = FALSE
    <3>1. PICK grown \in BOOLEAN :
            stable = [grown |-> grown, magic |-> "", count |-> 0, entries |-> << >>]
      BY DEF Init
    <3> QED BY <3>1, StoresInitEstablishes DEF Init
  <2>2. Contents = << >>
    BY <2>1 DEF Contents
  <2> QED BY <2>1, <2>2 DEF SizedMapView!Init
<1>2. StoresInv /\ StoresInv' /\ [Next]_vars
      => [SizedMapView!Next]_<<Contents, epoch>>
  <2> SUFFICES ASSUME StoresInv, StoresInv', [Next]_vars
               PROVE  [SizedMapView!Next]_<<Contents, epoch>>
    OBVIOUS
  <2>0. Contents = View(stable) /\ Contents' = View(stable')
    <3>1. (StoresInv => Contents = View(stable))'
      BY ContentsSeen, PTL
    <3> QED BY <3>1, ContentsSeen
  <2>1. CASE View(stable') = View(stable) /\ epoch' = epoch
    BY <2>0, <2>1
  <2>2. ASSUME NEW key \in Keys, NEW val \in Values,
               View(stable') = With(View(stable), key, val), epoch' = epoch,
               key \in DOMAIN View(stable) => Len(View(stable)[key]) = Len(val)
        PROVE  SizedMapView!Next
    <3>1. SizedMapView!Put(key, val)
      BY <2>0, <2>2 DEF SizedMapView!Put, With
    <3> QED BY <3>1 DEF SizedMapView!Next
  <2>3. CASE View(stable') = << >> /\ epoch' = ~epoch
    BY <2>0, <2>3 DEF SizedMapView!Next, SizedMapView!Clear
  <2> QED BY <2>1, <2>2, <2>3, NextMaps
<1> QED BY <1>1, <1>2, StoresInvariance, PTL
        DEF Spec, ImplementsSizedMap, SizedMapView!Spec
=============================================================================
