---------------------------- MODULE CommonLemmas ----------------------------
(***************************************************************************)
(* Facts about numbers and sequences that the proofs about several modules *)
(* rest upon: the least element of a set, on which a search from the front *)
(* of a list depends; prefixes; and sums over finite sets, which the       *)
(* community modules compute with a recursive function.                    *)
(***************************************************************************)
EXTENDS Integers, SequencesExt, SequenceTheorems, FiniteSetTheorems,
        WellFoundedInduction, TLAPS

\* A set of naturals that is not empty has a least element, which is Min.
LEMMA MinProperties ==
  ASSUME NEW S \in SUBSET Nat, S # {}
  PROVE  Min(S) \in S /\ \A y \in S : Min(S) <= y
<1>1. PICK x \in S : \A y \in S : ~ (<<y, x>> \in OpToRel(<, Nat))
  BY NatLessThanWellFounded, WFMin
<1>2. ASSUME NEW y \in S
      PROVE  x <= y
  <2>1. x \in Nat /\ y \in Nat
    OBVIOUS
  <2>2. ~ (<<y, x>> \in { ss \in Nat \X Nat : ss[1] < ss[2] })
    BY <1>1 DEF OpToRel
  <2>3. ~ (y < x)
    BY <2>1, <2>2
  <2> QED BY <2>1, <2>3
<1> QED BY <1>2 DEF Min

\* A prefix agrees with what it is a prefix of, as far as it goes.
LEMMA PrefixMeaning ==
  ASSUME NEW S, NEW s \in Seq(S), NEW t \in Seq(S)
  PROVE  IsPrefix(s, t) <=> /\ Len(s) <= Len(t)
                            /\ \A i \in 1..Len(s) : s[i] = t[i]
<1> DEFINE n == Len(s)
<1>1. n \in Nat /\ Len(t) \in Nat
  OBVIOUS
<1>2. SubSeq(s, 1, n) = s
  BY SubSeqFull
<1>3. CASE n <= Len(t)
  <2>1. /\ SubSeq(t, 1, n) \in Seq(S) /\ Len(SubSeq(t, 1, n)) = n
        /\ \A i \in 1..n : SubSeq(t, 1, n)[i] = t[i]
    BY <1>1, <1>3
  <2>2. SubSeq(t, 1, n) = s <=> \A i \in 1..n : s[i] = t[i]
    BY <2>1, SeqEqual
  <2> QED BY <1>2, <1>3, <2>2 DEF IsPrefix
<1>4. CASE ~ (n <= Len(t))
  BY <1>4 DEF IsPrefix
<1> QED BY <1>3, <1>4

\* Appending to a sequence leaves it a prefix, and so does leaving it alone.
LEMMA PrefixAppend ==
  ASSUME NEW S, NEW s \in Seq(S), NEW e \in S
  PROVE  IsPrefix(s, s) /\ IsPrefix(s, Append(s, e))
<1> DEFINE t == Append(s, e)
<1>1. t \in Seq(S) /\ Len(t) = Len(s) + 1 /\ Len(s) \in Nat
  OBVIOUS
<1>2. \A i \in 1..Len(s) : t[i] = s[i]
  OBVIOUS
<1> HIDE DEF t
<1>3. IsPrefix(s, t)
  BY <1>1, <1>2, PrefixMeaning
<1>4. IsPrefix(s, s)
  BY <1>1, PrefixMeaning
<1> QED BY <1>3, <1>4 DEF t

---------------------------------------------------------------------------
(* Induction over finite sets.                                             *)

\* A property of every set whose proper subsets all have it is a property of
\* every finite set; Good is the set of the subsets of S that have it.
LEMMA SubsetInduction ==
  ASSUME NEW S, IsFiniteSet(S), NEW Good,
         \A s \in SUBSET S : (\A t \in SUBSET s : t # s => t \in Good) => s \in Good
  PROVE  SUBSET S \subseteq Good
<1> DEFINE Bad == {s \in SUBSET S : s \notin Good}
<1> SUFFICES ASSUME Bad # {} PROVE FALSE
  OBVIOUS
<1>1. IsWellFoundedOn(StrictSubsetOrdering(S), SUBSET S)
  <2>1. FiniteSubsetsOf(S) = SUBSET S
    BY FS_FiniteSubsetsOfFinite
  <2>2. IsWellFoundedOn(StrictSubsetOrdering(S), FiniteSubsetsOf(S))
    BY FS_StrictSubsetOrderingWellFounded
  <2> QED BY <2>1, <2>2
<1>2. PICK s \in Bad : \A t \in Bad : ~ (<<t, s>> \in StrictSubsetOrdering(S))
  <2> HIDE DEF Bad
  <2>1. Bad \subseteq SUBSET S
    BY DEF Bad
  <2> QED BY <1>1, <2>1, WFMin
<1>3. ASSUME NEW t \in SUBSET s, t # s
      PROVE  t \in Good
  <2>1. <<t, s>> \in StrictSubsetOrdering(S)
    BY <1>2, <1>3 DEF StrictSubsetOrdering
  <2> QED BY <1>2, <2>1
<1> QED BY <1>2, <1>3

---------------------------------------------------------------------------
(* Sums.                                                                   *)

SumOver(f, S) == MapThenSumSet(LAMBDA x : f[x], S)

\* The function that the sum over S is computed with: of every subset of S
\* it gives the sum, an element that CHOOSE takes out of it at a time.
Chosen(s) == CHOOSE x \in s : TRUE
IsSum(sum, f, S) ==
  sum = [s \in SUBSET S |->
           IF s = {} THEN 0 ELSE f[Chosen(s)] + sum[s \ {Chosen(s)}]]
Sums(f, S) == CHOOSE sum : IsSum(sum, f, S)

LEMMA SumIsComputed ==
  ASSUME NEW f, NEW S
  PROVE  SumOver(f, S) = Sums(f, S)[S]
BY DEF SumOver, MapThenSumSet, MapThenFoldSet, Sums, IsSum, Chosen

LEMMA SumFunctionIsComputed ==
  ASSUME NEW f
  PROVE  SumFunction(f) = SumOver(f, DOMAIN f)
<1>1. SumFunction(f) = Sums(f, DOMAIN f)[DOMAIN f]
  BY DEF SumFunction, SumFunctionOnSet, FoldFunctionOnSet, MapThenFoldSet,
         Sums, IsSum, Chosen
<1> QED BY <1>1, SumIsComputed

\* What such a function gives does not depend on the set it was made for.
LEMMA SumsAgree ==
  ASSUME NEW f, NEW S, NEW T \in SUBSET S, IsFiniteSet(T),
         NEW g, IsSum(g, f, S), NEW h, IsSum(h, f, T)
  PROVE  \A s \in SUBSET T : g[s] = h[s]
<1> DEFINE Good == {s \in SUBSET T : g[s] = h[s]}
<1>1. ASSUME NEW s \in SUBSET T, \A t \in SUBSET s : t # s => t \in Good
      PROVE  s \in Good
  <2>1. CASE s = {}
    BY <2>1 DEF IsSum
  <2>2. CASE s # {}
    <3> DEFINE c == Chosen(s)
    <3>1. c \in s
      BY <2>2 DEF Chosen
    <3>2. g[s] = f[c] + g[s \ {c}] /\ h[s] = f[c] + h[s \ {c}]
      BY <2>2 DEF IsSum
    <3> HIDE DEF c
    <3>3. s \ {c} \in Good
      BY <1>1, <3>1
    <3> QED BY <3>2, <3>3
  <2> QED BY <2>1, <2>2
<1> HIDE DEF Good
<1>2. SUBSET T \subseteq Good
  BY <1>1, SubsetInduction
<1> QED BY <1>2 DEF Good

\* There is such a function for every finite set, made of those for its
\* proper subsets.
LEMMA SumsExist ==
  ASSUME NEW S, IsFiniteSet(S), NEW f
  PROVE  IsSum(Sums(f, S), f, S)
<1> DEFINE Good == {s \in SUBSET S : IsSum(Sums(f, s), f, s)}
<1>1. ASSUME NEW s \in SUBSET S, \A t \in SUBSET s : t # s => t \in Good
      PROVE  s \in Good
  <2> DEFINE rest(t) == t \ {Chosen(t)}
             sum == [t \in SUBSET s |->
                       IF t = {} THEN 0 ELSE f[Chosen(t)] + Sums(f, rest(t))[rest(t)]]
  <2>1. ASSUME NEW t \in SUBSET s, t # {}
        PROVE  /\ rest(t) \in SUBSET s /\ rest(t) # s /\ rest(t) \subseteq t
               /\ IsSum(Sums(f, rest(t)), f, rest(t)) /\ IsFiniteSet(rest(t))
    <3>1. Chosen(t) \in t
      BY <2>1 DEF Chosen
    <3>2. rest(t) \in SUBSET s /\ rest(t) # s /\ rest(t) \subseteq t
      BY <3>1
    <3>3. rest(t) \in Good
      BY <1>1, <3>2
    <3>4. IsFiniteSet(rest(t))
      BY <3>2, FS_Subset
    <3> QED BY <3>2, <3>3, <3>4
  <2> HIDE DEF rest
  <2>2. ASSUME NEW t \in SUBSET s, t # {}
        PROVE  sum[rest(t)] = Sums(f, rest(t))[rest(t)]
    <3> DEFINE u == rest(t)
               g == Sums(f, u)
    <3> SUFFICES sum[u] = g[u]
      OBVIOUS
    <3>1. u \in SUBSET s /\ IsFiniteSet(u) /\ IsSum(g, f, u)
      BY <2>1, <2>2
    <3> HIDE DEF u
    <3>2. CASE u = {}
      BY <3>1, <3>2 DEF IsSum
    <3>3. CASE u # {}
      <4> DEFINE h == Sums(f, rest(u))
      <4>1. rest(u) \in SUBSET u /\ IsFiniteSet(rest(u)) /\ IsSum(h, f, rest(u))
        BY <2>1, <3>1, <3>3
      <4>2. sum[u] = f[Chosen(u)] + h[rest(u)]
        BY <3>1, <3>3
      <4>3. g[u] = f[Chosen(u)] + g[rest(u)]
        BY <3>1, <3>3 DEF IsSum, rest
      <4> HIDE DEF g, h, sum
      <4>4. \A v \in SUBSET rest(u) : g[v] = h[v]
        BY <3>1, <4>1, SumsAgree
      <4>5. g[rest(u)] = h[rest(u)]
        BY <4>4
      <4> QED BY <4>2, <4>3, <4>5
    <3> QED BY <3>2, <3>3
  <2>3. IsSum(sum, f, s)
    <3>1. ASSUME NEW t \in SUBSET s
          PROVE  sum[t] = IF t = {} THEN 0 ELSE f[Chosen(t)] + sum[rest(t)]
      <4>1. CASE t = {}
        BY <4>1
      <4>2. CASE t # {}
        BY <2>2, <4>2
      <4> QED BY <4>1, <4>2
    <3>2. sum = [t \in SUBSET s |-> sum[t]]
      OBVIOUS
    <3> HIDE DEF sum
    <3> QED BY <3>1, <3>2 DEF IsSum, rest
  <2> HIDE DEF sum
  <2>4. IsSum(Sums(f, s), f, s)
    BY <2>3 DEF Sums
  <2> QED BY <2>4
<1> HIDE DEF Good
<1>2. SUBSET S \subseteq Good
  BY <1>1, SubsetInduction
<1>3. S \in Good
  BY <1>2
<1> QED BY <1>3 DEF Good

LEMMA SumStep ==
  ASSUME NEW S, IsFiniteSet(S), NEW f
  PROVE  /\ S = {} => SumOver(f, S) = 0
         /\ S # {} => /\ Chosen(S) \in S
                      /\ SumOver(f, S) = f[Chosen(S)] + SumOver(f, S \ {Chosen(S)})
<1> DEFINE c == Chosen(S)
           g == Sums(f, S)
<1>1. IsSum(g, f, S) /\ SumOver(f, S) = g[S]
  BY SumsExist, SumIsComputed
<1>2. CASE S = {}
  BY <1>1, <1>2 DEF IsSum
<1>3. CASE S # {}
  <2> DEFINE rest == S \ {c}
             h == Sums(f, rest)
  <2>1. c \in S
    BY <1>3 DEF Chosen
  <2>2. g[S] = f[c] + g[rest]
    BY <1>1, <1>3 DEF IsSum
  <2> HIDE DEF c, g
  <2>3. rest \in SUBSET S /\ IsFiniteSet(rest)
    BY FS_Subset
  <2> HIDE DEF rest
  <2>4. IsSum(h, f, rest) /\ SumOver(f, rest) = h[rest]
    BY <2>3, SumsExist, SumIsComputed
  <2> HIDE DEF h
  <2>5. \A s \in SUBSET rest : g[s] = h[s]
    BY <1>1, <2>3, <2>4, SumsAgree
  <2>6. g[rest] = SumOver(f, rest)
    BY <2>4, <2>5
  <2>7. c \in S /\ SumOver(f, S) = f[c] + SumOver(f, rest)
    BY <1>1, <2>1, <2>2, <2>6
  <2> QED BY <1>3, <2>7 DEF c, rest
<1> QED BY <1>2, <1>3

\* The sum over no elements is zero.
LEMMA SumOfNone ==
  ASSUME NEW f
  PROVE  SumOver(f, {}) = 0
BY SumStep, FS_EmptySet

\* Equal terms have an equal sum, which is natural if they are.
LEMMA SumOfEquals ==
  ASSUME NEW S, IsFiniteSet(S), NEW f, NEW g,
         \A x \in S : f[x] \in Nat /\ f[x] = g[x]
  PROVE  SumOver(f, S) \in Nat /\ SumOver(f, S) = SumOver(g, S)
<1> DEFINE Good == {s \in SUBSET S : SumOver(f, s) \in Nat /\ SumOver(f, s) = SumOver(g, s)}
<1>1. ASSUME NEW s \in SUBSET S, \A t \in SUBSET s : t # s => t \in Good
      PROVE  s \in Good
  <2>1. IsFiniteSet(s)
    BY FS_Subset
  <2>2. CASE s = {}
    <3>1. SumOver(f, {}) = 0 /\ SumOver(g, {}) = 0
      BY SumOfNone
    <3> QED BY <2>2, <3>1
  <2>3. CASE s # {}
    <3> DEFINE c == Chosen(s)
    <3>1. /\ c \in s
          /\ SumOver(f, s) = f[c] + SumOver(f, s \ {c})
          /\ SumOver(g, s) = g[c] + SumOver(g, s \ {c})
      BY <2>1, <2>3, SumStep
    <3> HIDE DEF c
    <3>2. s \ {c} \in Good
      BY <1>1, <3>1
    <3>3. f[c] \in Nat /\ f[c] = g[c]
      BY <3>1
    <3> QED BY <3>1, <3>2, <3>3
  <2> QED BY <2>2, <2>3
<1> HIDE DEF Good
<1>2. SUBSET S \subseteq Good
  BY <1>1, SubsetInduction
<1>3. S \in Good
  BY <1>2
<1> QED BY <1>3 DEF Good

LEMMA SumOfZeros ==
  ASSUME NEW S, IsFiniteSet(S), NEW f, \A x \in S : f[x] = 0
  PROVE  SumOver(f, S) = 0
<1> DEFINE Good == {s \in SUBSET S : SumOver(f, s) = 0}
<1>1. ASSUME NEW s \in SUBSET S, \A t \in SUBSET s : t # s => t \in Good
      PROVE  s \in Good
  <2>1. IsFiniteSet(s)
    BY FS_Subset
  <2>2. CASE s = {}
    <3>1. SumOver(f, {}) = 0
      BY SumOfNone
    <3> QED BY <2>2, <3>1
  <2>3. CASE s # {}
    <3> DEFINE c == Chosen(s)
    <3>1. c \in s /\ SumOver(f, s) = f[c] + SumOver(f, s \ {c})
      BY <2>1, <2>3, SumStep
    <3> HIDE DEF c
    <3>2. s \ {c} \in Good /\ f[c] = 0
      BY <1>1, <3>1
    <3> QED BY <3>1, <3>2
  <2> QED BY <2>2, <2>3
<1> HIDE DEF Good
<1>2. SUBSET S \subseteq Good
  BY <1>1, SubsetInduction
<1>3. S \in Good
  BY <1>2
<1> QED BY <1>3 DEF Good

\* Any element may be taken out of a sum.
LEMMA SumOfOthers ==
  ASSUME NEW S, IsFiniteSet(S), NEW f, \A x \in S : f[x] \in Nat
  PROVE  \A a \in S : SumOver(f, S) = f[a] + SumOver(f, S \ {a})
<1> DEFINE Good == {s \in SUBSET S :
                      \A a \in s : SumOver(f, s) = f[a] + SumOver(f, s \ {a})}
<1>1. ASSUME NEW s \in SUBSET S, \A t \in SUBSET s : t # s => t \in Good
      PROVE  s \in Good
  <2> SUFFICES ASSUME NEW a \in s
               PROVE  SumOver(f, s) = f[a] + SumOver(f, s \ {a})
    OBVIOUS
  <2> DEFINE c == Chosen(s)
             sum(t) == SumOver(f, t)
  <2>1. \A t \in SUBSET s : IsFiniteSet(t) /\ sum(t) \in Nat
    BY FS_Subset, SumOfEquals
  <2>2. c \in s /\ sum(s) = f[c] + sum(s \ {c})
    BY <2>1, SumStep
  <2> HIDE DEF c
  <2>3. CASE a = c
    BY <2>2, <2>3
  <2>4. CASE a # c
    <3> DEFINE both == s \ {a, c}
    <3>1. /\ s \ {a} \in Good /\ s \ {c} \in Good
          /\ (s \ {c}) \ {a} = both /\ (s \ {a}) \ {c} = both
          /\ a \in s \ {c} /\ c \in s \ {a}
      BY <1>1, <2>2, <2>4
    <3>2. sum(s \ {c}) = f[a] + sum(both) /\ sum(s \ {a}) = f[c] + sum(both)
      BY <3>1
    <3>3. sum(both) \in Nat /\ f[a] \in Nat /\ f[c] \in Nat
      BY <2>1, <2>2
    <3> HIDE DEF both, sum
    <3>4. sum(s) = f[a] + sum(s \ {a})
      BY <2>2, <3>2, <3>3
    <3> QED BY <3>4 DEF sum
  <2> QED BY <2>3, <2>4
<1> HIDE DEF Good
<1>2. SUBSET S \subseteq Good
  BY <1>1, SubsetInduction
<1>3. S \in Good
  BY <1>2
<1> QED BY <1>3 DEF Good

\* Changing one term, or adding one, changes the sum by as much.
LEMMA SumChanges ==
  ASSUME NEW S, IsFiniteSet(S), NEW f, NEW g, NEW a \in S,
         f[a] \in Nat, g[a] \in Nat,
         \A x \in S \ {a} : f[x] \in Nat /\ f[x] = g[x]
  PROVE  SumOver(f, S) + g[a] = SumOver(g, S) + f[a]
<1> DEFINE rest == S \ {a}
<1>1. IsFiniteSet(rest)
  BY FS_RemoveElement
<1>2. SumOver(f, S) = f[a] + SumOver(f, rest) /\ SumOver(g, S) = g[a] + SumOver(g, rest)
  BY SumOfOthers
<1>3. SumOver(f, rest) \in Nat /\ SumOver(f, rest) = SumOver(g, rest)
  BY <1>1, SumOfEquals
<1> HIDE DEF rest
<1> QED BY <1>2, <1>3

LEMMA SumGrows ==
  ASSUME NEW S, IsFiniteSet(S), NEW f, NEW g, NEW a, a \notin S, g[a] \in Nat,
         \A x \in S : f[x] \in Nat /\ f[x] = g[x],
         NEW T, T = S \cup {a}
  PROVE  SumOver(g, T) = SumOver(f, S) + g[a]
<1>1. IsFiniteSet(T) /\ T \ {a} = S /\ a \in T /\ \A x \in T : g[x] \in Nat
  BY FS_AddElement
<1>2. SumOver(g, T) = g[a] + SumOver(g, T \ {a})
  BY <1>1, SumOfOthers
<1>3. SumOver(g, T) = g[a] + SumOver(g, S)
  BY <1>1, <1>2
<1>4. SumOver(f, S) \in Nat /\ SumOver(f, S) = SumOver(g, S)
  BY SumOfEquals
<1> QED BY <1>3, <1>4
=============================================================================
