------------------------- MODULE MetaManagerProofs -------------------------
(***************************************************************************)
(* Theorems about MetaManager: the selection of the meta machines and the  *)
(* locks of the synchronizer, for any number of resources and machines.    *)
(***************************************************************************)
EXTENDS MetaManager, SequenceTheorems, WellFoundedInduction, TLAPS

(***************************************************************************)
(* What is defined by recursion on 0 .. n.                                 *)
(***************************************************************************)

LessThan == {p \in Nat \X Nat : p[1] < p[2]}

\* A set of naturals that is not empty has a least element.
LEMMA LeastNatural ==
  ASSUME NEW S, S \subseteq Nat, S # {}
  PROVE  \E x \in S : \A y \in S : x <= y
<1>1. IsWellFoundedOn(LessThan, Nat)
  BY NatLessThanWellFounded, Zenon DEF OpToRel, LessThan
<1>2. PICK x \in S : \A y \in S : ~ (<<y, x>> \in LessThan)
  BY <1>1, WFMin, Zenon
<1>3. \A y \in S : ~ (y < x)
  BY <1>2 DEF LessThan
<1> QED BY <1>3

\* Induction up to n, over a set.
LEMMA InductionTo ==
  ASSUME NEW n \in Nat, NEW P, 0 \in P,
         \A k \in 1 .. n : k - 1 \in P => k \in P
  PROVE  \A k \in 0 .. n : k \in P
<1> DEFINE Bad == {k \in 0 .. n : k \notin P}
<1> SUFFICES ASSUME Bad # {} PROVE FALSE
  OBVIOUS
<1>1. PICK k \in Bad : \A j \in Bad : k <= j
  <2>1. Bad \subseteq Nat
    OBVIOUS
  <2> HIDE DEF Bad
  <2> QED BY <2>1, LeastNatural
<1>2. k \in 1 .. n /\ k - 1 \in 0 .. n /\ k - 1 \notin Bad
  BY <1>1
<1> QED BY <1>1, <1>2

\* A function that starts with a and goes on by steps.
Follows(f, n, a, step) == f[0] = a /\ \A k \in 1 .. n : f[k] = step[k][f[k - 1]]

LEMMA RecursionExists ==
  ASSUME NEW S, NEW n \in Nat, NEW a \in S, NEW step \in [1 .. n -> [S -> S]]
  PROVE  \E f \in [0 .. n -> S] : Follows(f, n, a, step)
<1> DEFINE P == {m \in 0 .. n : \E f \in [0 .. m -> S] : Follows(f, m, a, step)}
<1>1. 0 \in P
  <2> DEFINE f == [k \in 0 .. 0 |-> a]
  <2>1. f \in [0 .. 0 -> S] /\ Follows(f, 0, a, step)
    BY DEF Follows
  <2> HIDE DEF f
  <2> QED BY <2>1
<1>2. ASSUME NEW m \in 1 .. n, m - 1 \in P PROVE m \in P
  <2>1. PICK f \in [0 .. m - 1 -> S] : Follows(f, m - 1, a, step)
    BY <1>2
  <2> DEFINE g == [k \in 0 .. m |-> IF k = m THEN step[m][f[m - 1]] ELSE f[k]]
  <2>2. m - 1 \in 0 .. m - 1 /\ step[m] \in [S -> S]
    OBVIOUS
  <2>3. g \in [0 .. m -> S]
    BY <2>2
  <2>4. g[0] = a
    BY <2>1 DEF Follows
  <2>5. ASSUME NEW k \in 1 .. m PROVE g[k] = step[k][g[k - 1]]
    <3>1. g[k - 1] = f[k - 1]
      OBVIOUS
    <3>2. CASE k = m
      BY <3>1, <3>2
    <3>3. CASE k # m
      <4>1. g[k] = f[k] /\ k \in 1 .. m - 1
        BY <3>3
      <4> QED BY <4>1, <3>1, <2>1 DEF Follows
    <3> QED BY <3>2, <3>3
  <2> HIDE DEF g
  <2>6. Follows(g, m, a, step)
    BY <2>4, <2>5 DEF Follows
  <2> QED BY <2>3, <2>6
<1>3. \A m \in 0 .. n : m \in P
  <2> HIDE DEF P
  <2> QED BY <1>1, <1>2, InductionTo
<1>4. n \in P
  BY <1>3
<1> QED BY <1>4

(***************************************************************************)
(* The lists of candidates.                                                *)
(***************************************************************************)

\* Erased goes through the list and keeps what is not erased.
Keeps(f, list, ids) ==
  /\ f[0] = <<>>
  /\ \A k \in 1 .. Len(list) :
       f[k] = IF list[k] \in ids THEN f[k - 1] ELSE Append(f[k - 1], list[k])

LEMMA ErasedIsRecursive ==
  ASSUME NEW S, NEW list \in Seq(S), NEW ids
  PROVE  \E f \in [0 .. Len(list) -> Seq(S)] :
           Keeps(f, list, ids) /\ Erased(list, ids) = f[Len(list)]
<1>1. PICK n \in Nat : n = Len(list)
  OBVIOUS
<1>2. PICK step \in [1 .. n -> [Seq(S) -> Seq(S)]] :
        \A k \in 1 .. n : \A s \in Seq(S) :
          step[k][s] = IF list[k] \in ids THEN s ELSE Append(s, list[k])
  <2> DEFINE step == [k \in 1 .. n |-> [s \in Seq(S) |->
                        IF list[k] \in ids THEN s ELSE Append(s, list[k])]]
  <2>1. step \in [1 .. n -> [Seq(S) -> Seq(S)]]
    BY <1>1
  <2>2. \A k \in 1 .. n : \A s \in Seq(S) :
          step[k][s] = IF list[k] \in ids THEN s ELSE Append(s, list[k])
    OBVIOUS
  <2> HIDE DEF step
  <2> QED BY <2>1, <2>2
<1>3. PICK f \in [0 .. n -> Seq(S)] : Follows(f, n, <<>>, step)
  <2>1. <<>> \in Seq(S)
    OBVIOUS
  <2> HIDE <1>1, <1>2
  <2> QED BY <2>1, RecursionExists
<1>4. f = [k \in 0 .. Len(list) |->
             IF k = 0 THEN <<>>
             ELSE IF list[k] \in ids THEN f[k - 1] ELSE Append(f[k - 1], list[k])]
  <2>1. ASSUME NEW k \in 1 .. n
        PROVE  f[k] = IF list[k] \in ids THEN f[k - 1] ELSE Append(f[k - 1], list[k])
    <3>1. f[k - 1] \in Seq(S) /\ f[k] = step[k][f[k - 1]]
      BY SMTT(20), <1>3 DEF Follows
    <3> QED BY <3>1, <1>2
  <2>2. \A k \in 0 .. n :
          f[k] = IF k = 0 THEN <<>>
                 ELSE IF list[k] \in ids THEN f[k - 1] ELSE Append(f[k - 1], list[k])
    <3> TAKE k \in 0 .. n
    <3>1. CASE k = 0
      BY <3>1, <1>3 DEF Follows
    <3>2. CASE k # 0
      <4>1. k \in 1 .. n
        BY <3>2
      <4> QED BY <4>1, <3>2, <2>1, Zenon
    <3> QED BY <3>1, <3>2
  <2>3. f = [k \in 0 .. n |-> f[k]]
    OBVIOUS
  <2>4. f = [k \in 0 .. n |->
               IF k = 0 THEN <<>>
               ELSE IF list[k] \in ids THEN f[k - 1] ELSE Append(f[k - 1], list[k])]
    BY <2>2, <2>3, Zenon
  <2> QED BY <2>4, <1>1, Zenon
<1> DEFINE kept[k \in 0 .. Len(list)] ==
             IF k = 0 THEN <<>>
             ELSE IF list[k] \in ids THEN kept[k - 1] ELSE Append(kept[k - 1], list[k])
<1>5. Erased(list, ids) = kept[Len(list)]
  BY Zenon DEF Erased
<1>6. kept = [k \in 0 .. Len(list) |->
                IF k = 0 THEN <<>>
                ELSE IF list[k] \in ids THEN kept[k - 1] ELSE Append(kept[k - 1], list[k])]
  BY <1>4, Zenon
<1> HIDE DEF kept
<1>7. PICK g : g = kept
  OBVIOUS
<1>8. g = [k \in 0 .. n |->
             IF k = 0 THEN <<>>
             ELSE IF list[k] \in ids THEN g[k - 1] ELSE Append(g[k - 1], list[k])]
  BY <1>6, <1>7, <1>1
<1>9. /\ \A k \in 0 .. n : g[k] =
            IF k = 0 THEN <<>>
            ELSE IF list[k] \in ids THEN g[k - 1] ELSE Append(g[k - 1], list[k])
  BY <1>8, Zenon
<1> DEFINE P == {k \in 0 .. n : g[k] \in Seq(S)}
<1>10. 0 \in P
  <2>1. 0 \in 0 .. n /\ <<>> \in Seq(S)
    OBVIOUS
  <2> QED BY <1>9, <2>1
<1>11. ASSUME NEW k \in 1 .. n, k - 1 \in P PROVE k \in P
  <2>1. list[k] \in S /\ k \in 0 .. n /\ k # 0
    BY <1>1
  <2>2. g[k - 1] \in Seq(S)
    BY <1>11
  <2>3. Append(g[k - 1], list[k]) \in Seq(S)
    BY <2>1, <2>2
  <2>4. g[k] \in Seq(S)
    BY <1>9, <2>1, <2>2, <2>3, Zenon
  <2> QED BY <2>1, <2>4
<1>12. \A k \in 0 .. n : k \in P
  <2> HIDE DEF P
  <2> QED BY <1>10, <1>11, InductionTo
<1>13. g \in [0 .. n -> Seq(S)] /\ g[0] = <<>>
  BY <1>8, <1>9, <1>12
<1>14. \A k \in 1 .. n :
         g[k] = IF list[k] \in ids THEN g[k - 1] ELSE Append(g[k - 1], list[k])
  BY <1>9
<1>15. Keeps(g, list, ids)
  BY <1>1, <1>13, <1>14 DEF Keeps
<1> QED BY <1>1, <1>5, <1>7, <1>13, <1>15

\* What is left of a list is what is not erased, in the same order: the first stays the
\* first, and the list is shorter when something was there to erase.
LEMMA ErasedFacts ==
  ASSUME NEW S, NEW list \in Seq(S), NEW ids
  PROVE  /\ Erased(list, ids) \in Seq(S)
         /\ Len(Erased(list, ids)) <= Len(list)
         /\ ToSet(Erased(list, ids)) = ToSet(list) \ ids
         /\ IsInjective(list) => IsInjective(Erased(list, ids))
         /\ list # <<>> /\ Head(list) \notin ids =>
              Erased(list, ids) # <<>> /\ Head(Erased(list, ids)) = Head(list)
         /\ (\E k \in 1 .. Len(list) : list[k] \in ids) =>
              Len(Erased(list, ids)) < Len(list)
<1>1. PICK n \in Nat : n = Len(list)
  OBVIOUS
<1>0. PICK f \in [0 .. n -> Seq(S)] : Keeps(f, list, ids) /\ Erased(list, ids) = f[n]
  BY <1>1, ErasedIsRecursive
<1>2. /\ f[0] = <<>>
      /\ \A k \in 1 .. n :
           f[k] = IF list[k] \in ids THEN f[k - 1] ELSE Append(f[k - 1], list[k])
      /\ Erased(list, ids) = f[n]
  BY <1>0, <1>1 DEF Keeps
<1> DEFINE Shorter(k) ==
             /\ Len(f[k]) <= k
             /\ (\E j \in 1 .. k : list[j] \in ids) => Len(f[k]) < k
           Holds(k) ==
             /\ \A p \in 1 .. Len(f[k]) : \E j \in 1 .. k :
                  f[k][p] = list[j] /\ list[j] \notin ids
             /\ \A j \in 1 .. k : list[j] \notin ids =>
                  \E p \in 1 .. Len(f[k]) : f[k][p] = list[j]
           Once(k) ==
             IsInjective(list) =>
               \A p, q \in 1 .. Len(f[k]) : f[k][p] = f[k][q] => p = q
           First(k) ==
             k # 0 /\ list[1] \notin ids => f[k] # <<>> /\ f[k][1] = list[1]
           P == {k \in 0 .. n : Shorter(k) /\ Holds(k) /\ Once(k) /\ First(k)}
<1>3. 0 \in P
  BY <1>2
<1>4. ASSUME NEW k \in 1 .. n, k - 1 \in P PROVE k \in P
  <2>1. /\ k \in 0 .. n /\ k - 1 \in 0 .. n /\ k \in 1 .. k /\ list[k] \in S
        /\ f[k - 1] \in Seq(S) /\ f[k] \in Seq(S)
        /\ Shorter(k - 1) /\ Holds(k - 1) /\ Once(k - 1) /\ First(k - 1)
    BY SMTT(20), <1>1, <1>4
  <2>2. f[k] = IF list[k] \in ids THEN f[k - 1] ELSE Append(f[k - 1], list[k])
    BY <1>2
  <2>3. CASE list[k] \in ids
    <3>1. f[k] = f[k - 1]
      BY <2>2, <2>3
    <3>2. \A j \in 1 .. k : j \in 1 .. k - 1 \/ j = k
      OBVIOUS
    <3>3. Shorter(k)
      BY <2>1, <3>1, <3>2
    <3>4. Holds(k)
      <4>1. ASSUME NEW p \in 1 .. Len(f[k])
            PROVE  \E j \in 1 .. k : f[k][p] = list[j] /\ list[j] \notin ids
        <5>1. PICK j \in 1 .. k - 1 : f[k - 1][p] = list[j] /\ list[j] \notin ids
          BY <2>1, <3>1
        <5> QED BY <5>1, <3>1
      <4>2. ASSUME NEW j \in 1 .. k, list[j] \notin ids
            PROVE  \E p \in 1 .. Len(f[k]) : f[k][p] = list[j]
        <5>1. j \in 1 .. k - 1
          BY <4>2, <2>3, <3>2
        <5> QED BY <5>1, <4>2, <3>1, <2>1
      <4> QED BY <4>1, <4>2
    <3>5. Once(k)
      BY <2>1, <3>1
    <3>6. First(k)
      BY <2>1, <3>1, <2>3
    <3> QED BY <2>1, <3>3, <3>4, <3>5, <3>6
  <2>4. CASE list[k] \notin ids
    <3>1. /\ Len(f[k]) = Len(f[k - 1]) + 1
          /\ f[k][Len(f[k - 1]) + 1] = list[k]
          /\ \A p \in 1 .. Len(f[k - 1]) : f[k][p] = f[k - 1][p]
      BY <2>1, <2>2, <2>4
    <3>2. \A j \in 1 .. k : j \in 1 .. k - 1 \/ j = k
      OBVIOUS
    <3>3. Shorter(k)
      BY SMTT(20), <2>1, <3>1, <3>2, <2>4
    <3>4. Holds(k)
      <4>1. ASSUME NEW p \in 1 .. Len(f[k])
            PROVE  \E j \in 1 .. k : f[k][p] = list[j] /\ list[j] \notin ids
        <5>1. CASE p = Len(f[k - 1]) + 1
          BY <5>1, <2>1, <3>1, <2>4
        <5>2. CASE p # Len(f[k - 1]) + 1
          <6>1. p \in 1 .. Len(f[k - 1])
            BY <5>2, <2>1, <3>1
          <6>2. PICK j \in 1 .. k - 1 : f[k - 1][p] = list[j] /\ list[j] \notin ids
            BY <6>1, <2>1
          <6>3. f[k][p] = list[j] /\ j \in 1 .. k
            BY <6>1, <6>2, <3>1
          <6> QED BY <6>2, <6>3
        <5> QED BY <5>1, <5>2
      <4>2. ASSUME NEW j \in 1 .. k, list[j] \notin ids
            PROVE  \E p \in 1 .. Len(f[k]) : f[k][p] = list[j]
        <5>1. CASE j = k
          <6>1. Len(f[k - 1]) + 1 \in 1 .. Len(f[k])
            BY <2>1, <3>1
          <6> QED BY <6>1, <3>1, <5>1
        <5>2. CASE j # k
          <6>1. j \in 1 .. k - 1
            BY <5>2
          <6>2. PICK p \in 1 .. Len(f[k - 1]) : f[k - 1][p] = list[j]
            BY <6>1, <4>2, <2>1
          <6>3. p \in 1 .. Len(f[k])
            BY <2>1, <3>1
          <6> QED BY <6>2, <6>3, <3>1
        <5> QED BY <5>1, <5>2
      <4> QED BY <4>1, <4>2
    <3>5. Once(k)
      <4> SUFFICES ASSUME IsInjective(list), NEW p \in 1 .. Len(f[k]),
                          NEW q \in 1 .. Len(f[k]), f[k][p] = f[k][q]
                   PROVE  p = q
        OBVIOUS
      <4>1. ASSUME NEW m \in 1 .. Len(f[k - 1]) PROVE f[k - 1][m] # list[k]
        <5>1. PICK j \in 1 .. k - 1 : f[k - 1][m] = list[j]
          BY <2>1
        <5>2. j \in DOMAIN list /\ k \in DOMAIN list /\ j # k
          BY <1>1
        <5> QED BY <5>1, <5>2 DEF IsInjective
      <4>2. p \in 1 .. Len(f[k - 1]) \/ p = Len(f[k - 1]) + 1
        BY <2>1, <3>1
      <4>3. q \in 1 .. Len(f[k - 1]) \/ q = Len(f[k - 1]) + 1
        BY <2>1, <3>1
      <4> QED BY SMTT(20), <4>1, <4>2, <4>3, <3>1, <2>1
    <3>6. First(k)
      <4>1. CASE k = 1
        BY <4>1, <2>1, <1>2, <3>1
      <4>2. CASE k # 1
        BY <4>2, <2>1, <3>1
      <4> QED BY <4>1, <4>2
    <3> QED BY <2>1, <3>3, <3>4, <3>5, <3>6
  <2> QED BY <2>3, <2>4
<1>5. n \in P
  <2>1. \A k \in 0 .. n : k \in P
    <3> HIDE DEF P
    <3> QED BY <1>3, <1>4, InductionTo
  <2> HIDE DEF P
  <2> QED BY <2>1
<1>6. /\ f[n] \in Seq(S) /\ Erased(list, ids) = f[n]
      /\ Shorter(n) /\ Holds(n) /\ Once(n) /\ First(n)
  BY <1>5, <1>2
<1>7. ToSet(f[n]) = ToSet(list) \ ids
  <2>1. DOMAIN f[n] = 1 .. Len(f[n]) /\ DOMAIN list = 1 .. n
    BY <1>1, <1>6
  <2>2. ASSUME NEW x \in ToSet(f[n]) PROVE x \in ToSet(list) \ ids
    <3>1. PICK p \in 1 .. Len(f[n]) : x = f[n][p]
      BY <2>1 DEF ToSet
    <3>2. PICK j \in 1 .. n : f[n][p] = list[j] /\ list[j] \notin ids
      BY <1>6
    <3> QED BY <2>1, <3>1, <3>2 DEF ToSet
  <2>3. ASSUME NEW x \in ToSet(list) \ ids PROVE x \in ToSet(f[n])
    <3>1. PICK j \in 1 .. n : x = list[j]
      BY <2>1 DEF ToSet
    <3>2. PICK p \in 1 .. Len(f[n]) : f[n][p] = list[j]
      BY <1>6, <3>1, <2>3
    <3> QED BY <2>1, <3>1, <3>2 DEF ToSet
  <2> QED BY <2>2, <2>3
<1>8. IsInjective(list) => IsInjective(f[n])
  <2>1. DOMAIN f[n] = 1 .. Len(f[n])
    BY <1>6
  <2>2. Once(n)
    BY <1>6
  <2> QED BY <2>1, <2>2 DEF IsInjective
<1>9. list # <<>> /\ Head(list) \notin ids => f[n] # <<>> /\ Head(f[n]) = Head(list)
  BY <1>6, <1>1
<1> QED BY <1>6, <1>7, <1>8, <1>9, <1>1

\* The least of a set of naturals.
LEMMA MinFacts ==
  ASSUME NEW S, S \subseteq Nat, S # {}
  PROVE  Min(S) \in S
BY LeastNatural, Zenon DEF Min

\* What a list is with one more element at p.
LEMMA InsertAtFacts ==
  ASSUME NEW S, NEW list \in Seq(S), NEW p \in 1 .. Len(list) + 1, NEW e \in S
  PROVE  /\ InsertAt(list, p, e) \in Seq(S)
         /\ Len(InsertAt(list, p, e)) = Len(list) + 1
         /\ \A k \in 1 .. Len(list) + 1 : InsertAt(list, p, e)[k] =
              IF k < p THEN list[k] ELSE IF k = p THEN e ELSE list[k - 1]
<1>0. PICK n \in Nat : n = Len(list) /\ DOMAIN list = 1 .. n
  OBVIOUS
<1> DEFINE before == SubSeq(list, 1, p - 1)
           after == SubSeq(list, p, n)
           upTo == before \o <<e>>
<1>1. /\ before \in Seq(S) /\ Len(before) = p - 1
      /\ \A k \in 1 .. p - 1 : before[k] = list[k]
  <2>1. \A k \in 1 .. p - 1 : list[k] \in S /\ 1 + k - 1 = k
    BY <1>0
  <2>2. p - 1 \in Int /\ 1 \in Int /\ (p - 1) - 1 + 1 = p - 1
    BY <1>0
  <2>3. /\ before \in Seq(S) /\ Len(before) = IF 1 <= p - 1 THEN (p - 1) - 1 + 1 ELSE 0
        /\ \A k \in 1 .. (p - 1) - 1 + 1 : before[k] = list[1 + k - 1]
    BY <2>1, <2>2, SubSeqProperties
  <2> HIDE DEF before
  <2> QED BY <1>0, <2>1, <2>2, <2>3
<1>2. /\ after \in Seq(S) /\ Len(after) = n - p + 1
      /\ \A k \in 1 .. n - p + 1 : after[k] = list[p + k - 1]
  <2>1. \A k \in p .. n : list[k] \in S
    BY <1>0
  <2>2. p \in Int /\ n \in Int
    BY <1>0
  <2>3. /\ after \in Seq(S) /\ Len(after) = IF p <= n THEN n - p + 1 ELSE 0
        /\ \A k \in 1 .. n - p + 1 : after[k] = list[p + k - 1]
    BY <2>1, <2>2, SubSeqProperties
  <2> HIDE DEF after
  <2> QED BY <1>0, <2>3
<1> HIDE DEF before, after
<1>3. <<e>> \in Seq(S) /\ Len(<<e>>) = 1 /\ <<e>>[1] = e
  OBVIOUS
<1>4. /\ upTo \in Seq(S) /\ Len(upTo) = p
      /\ \A k \in 1 .. p : upTo[k] = IF k < p THEN list[k] ELSE e
  <2>1. /\ upTo \in Seq(S) /\ Len(upTo) = Len(before) + Len(<<e>>)
        /\ \A k \in 1 .. Len(before) + Len(<<e>>) :
             upTo[k] = IF k <= Len(before) THEN before[k] ELSE <<e>>[k - Len(before)]
    BY <1>1, <1>3, ConcatProperties
  <2> HIDE DEF upTo
  <2> QED BY <1>0, <1>1, <1>3, <2>1
<1> HIDE DEF upTo
<1>5. InsertAt(list, p, e) = upTo \o after
  BY <1>0 DEF InsertAt, upTo, before, after
<1>6. /\ upTo \o after \in Seq(S) /\ Len(upTo \o after) = Len(upTo) + Len(after)
      /\ \A k \in 1 .. Len(upTo) + Len(after) :
           (upTo \o after)[k] = IF k <= Len(upTo) THEN upTo[k] ELSE after[k - Len(upTo)]
  BY <1>2, <1>4, ConcatProperties
<1>7. PICK g : g = upTo \o after
  OBVIOUS
<1>8. Len(upTo) + Len(after) = n + 1
  BY <1>0, <1>2, <1>4
<1>9. ASSUME NEW k \in 1 .. n + 1
      PROVE  g[k] = IF k < p THEN list[k] ELSE IF k = p THEN e ELSE list[k - 1]
  <2>1. CASE k <= p
    BY <2>1, <1>0, <1>4, <1>6, <1>7, <1>8
  <2>2. CASE k > p
    <3>1. g[k] = after[k - p]
      BY <2>2, <1>0, <1>4, <1>6, <1>7, <1>8
    <3>2. k - p \in 1 .. n - p + 1 /\ p + (k - p) - 1 = k - 1
      BY <2>2, <1>0
    <3> QED BY <3>1, <3>2, <2>2, <1>2
  <2> QED BY <2>1, <2>2, <1>0
<1> QED BY <1>0, <1>5, <1>6, <1>7, <1>8, <1>9

\* InsertPriority adds the machine, and nothing else.
LEMMA InsertPriorityFacts ==
  ASSUME NEW S, NEW list \in Seq(S), NEW id \in S
  PROVE  /\ InsertPriority(list, id) \in Seq(S)
         /\ ToSet(InsertPriority(list, id)) = ToSet(list) \cup {id}
         /\ IsInjective(list) /\ id \notin ToSet(list) =>
              IsInjective(InsertPriority(list, id))
<1>1. PICK n \in Nat : n = Len(list) /\ DOMAIN list = 1 .. n
  OBVIOUS
<1>2. PICK p \in 1 .. n + 1 : InsertPriority(list, id) = InsertAt(list, p, id)
  <2> DEFINE lighter == {k \in DOMAIN list : Priority(id) > Priority(list[k])}
             p == IF lighter = {} THEN 1 ELSE Min(lighter)
  <2>1. InsertPriority(list, id) = InsertAt(list, p, id)
    BY DEF InsertPriority
  <2>2. lighter \subseteq 1 .. n
    BY <1>1
  <2>3. lighter # {} => Min(lighter) \in lighter
    <3>1. lighter \subseteq Nat
      BY <2>2
    <3> HIDE DEF lighter
    <3> QED BY <3>1, MinFacts
  <2>4. p \in 1 .. n + 1
    <3>1. CASE lighter = {}
      BY <3>1
    <3>2. CASE lighter # {}
      <4>1. p = Min(lighter) /\ Min(lighter) \in 1 .. n
        BY <3>2, <2>2, <2>3, Zenon
      <4> QED BY <4>1
    <3> QED BY <3>1, <3>2
  <2> HIDE DEF p
  <2> QED BY <2>1, <2>4
<1>3. PICK g : g = InsertPriority(list, id)
  OBVIOUS
<1>4. /\ g \in Seq(S) /\ Len(g) = n + 1 /\ DOMAIN g = 1 .. n + 1
      /\ \A k \in 1 .. n + 1 :
           g[k] = IF k < p THEN list[k] ELSE IF k = p THEN id ELSE list[k - 1]
  BY SMTT(20), <1>1, <1>2, <1>3, InsertAtFacts
<1>5. ASSUME NEW x \in ToSet(g) PROVE x \in ToSet(list) \cup {id}
  <2>1. PICK k \in 1 .. n + 1 : x = g[k]
    BY <1>4 DEF ToSet
  <2>2. k < p => k \in 1 .. n
    OBVIOUS
  <2>3. k > p => k - 1 \in 1 .. n
    OBVIOUS
  <2> QED BY <1>1, <1>4, <2>1, <2>2, <2>3 DEF ToSet
<1>6. ASSUME NEW x \in ToSet(list) \cup {id} PROVE x \in ToSet(g)
  <2>1. CASE x = id
    BY <1>4, <2>1 DEF ToSet
  <2>2. CASE x \in ToSet(list)
    <3>1. PICK k \in 1 .. n : x = list[k]
      BY <1>1, <2>2 DEF ToSet
    <3>2. k < p => g[k] = x /\ k \in 1 .. n + 1
      BY <1>4, <3>1
    <3>3. k >= p => g[k + 1] = x /\ k + 1 \in 1 .. n + 1
      BY <1>4, <3>1
    <3> QED BY <1>4, <3>2, <3>3 DEF ToSet
  <2> QED BY <2>1, <2>2
<1>7. ASSUME IsInjective(list), id \notin ToSet(list) PROVE IsInjective(g)
  <2> SUFFICES ASSUME NEW a \in 1 .. n + 1, NEW b \in 1 .. n + 1, g[a] = g[b]
               PROVE  a = b
    BY <1>4 DEF IsInjective
  <2>1. \A k \in 1 .. n : list[k] # id
    BY <1>1, <1>7 DEF ToSet
  <2>2. \A k, l \in 1 .. n : list[k] = list[l] => k = l
    BY <1>1, <1>7 DEF IsInjective
  <2> HIDE <1>7
  <2>3. a = p \/ (a < p /\ a \in 1 .. n) \/ (a > p /\ a - 1 \in 1 .. n)
    OBVIOUS
  <2>4. b = p \/ (b < p /\ b \in 1 .. n) \/ (b > p /\ b - 1 \in 1 .. n)
    OBVIOUS
  <2> QED BY <1>4, <2>1, <2>2, <2>3, <2>4
<1> QED BY <1>3, <1>4, <1>5, <1>6, <1>7

\* getIdsPerPriorities inserts the machines of the holder one after the other.
Inserts(f, r) ==
  /\ f[0] = <<>>
  /\ \A id \in 1 .. Len(metas) :
       f[id] = IF id \in state_machines_[r] THEN InsertPriority(f[id - 1], id)
               ELSE f[id - 1]

LEMMA IdsAreRecursive ==
  ASSUME NEW n \in Nat, n = Len(metas), NEW r
  PROVE  \E f \in [0 .. n -> Seq(1 .. n)] :
           Inserts(f, r) /\ getIdsPerPriorities(r) = f[n]
<1> DEFINE S == Seq(1 .. n)
<1>1. \A id \in 1 .. n : \A s \in S : InsertPriority(s, id) \in S
  BY InsertPriorityFacts
<1>2. PICK step \in [1 .. n -> [S -> S]] :
        \A id \in 1 .. n : \A s \in S :
          step[id][s] = IF id \in state_machines_[r] THEN InsertPriority(s, id) ELSE s
  <2> DEFINE step == [id \in 1 .. n |-> [s \in S |->
                        IF id \in state_machines_[r] THEN InsertPriority(s, id) ELSE s]]
  <2> HIDE DEF S
  <2>1. step \in [1 .. n -> [S -> S]]
    BY <1>1
  <2>2. \A id \in 1 .. n : \A s \in S :
          step[id][s] = IF id \in state_machines_[r] THEN InsertPriority(s, id) ELSE s
    OBVIOUS
  <2> HIDE DEF step
  <2> QED BY <2>1, <2>2
<1>3. PICK f \in [0 .. n -> S] : Follows(f, n, <<>>, step)
  <2>1. <<>> \in S
    OBVIOUS
  <2> HIDE <1>1, <1>2
  <2> HIDE DEF S
  <2> QED BY <2>1, RecursionExists
<1>4. f = [id \in 0 .. Len(metas) |->
             IF id = 0 THEN <<>>
             ELSE IF id \in state_machines_[r] THEN InsertPriority(f[id - 1], id)
             ELSE f[id - 1]]
  <2> HIDE DEF S
  <2>1. ASSUME NEW id \in 1 .. n
        PROVE  f[id] = IF id \in state_machines_[r] THEN InsertPriority(f[id - 1], id)
                       ELSE f[id - 1]
    <3>1. f[id - 1] \in S /\ f[id] = step[id][f[id - 1]]
      BY <1>3 DEF Follows
    <3> QED BY <3>1, <1>2
  <2>2. \A id \in 0 .. n :
          f[id] = IF id = 0 THEN <<>>
                  ELSE IF id \in state_machines_[r] THEN InsertPriority(f[id - 1], id)
                  ELSE f[id - 1]
    <3> TAKE id \in 0 .. n
    <3>1. CASE id = 0
      BY <3>1, <1>3 DEF Follows
    <3>2. CASE id # 0
      <4>1. id \in 1 .. n
        BY <3>2
      <4> QED BY <4>1, <3>2, <2>1, Zenon
    <3> QED BY <3>1, <3>2
  <2>3. f = [id \in 0 .. n |-> f[id]]
    OBVIOUS
  <2>4. f = [id \in 0 .. n |->
               IF id = 0 THEN <<>>
               ELSE IF id \in state_machines_[r] THEN InsertPriority(f[id - 1], id)
               ELSE f[id - 1]]
    BY <2>2, <2>3, Zenon
  <2> QED BY <2>4, Zenon
<1> DEFINE list[id \in 0 .. Len(metas)] ==
             IF id = 0 THEN <<>>
             ELSE IF id \in state_machines_[r] THEN InsertPriority(list[id - 1], id)
             ELSE list[id - 1]
<1>5. getIdsPerPriorities(r) = list[Len(metas)]
  BY Zenon DEF getIdsPerPriorities
<1>6. list = [id \in 0 .. Len(metas) |->
                IF id = 0 THEN <<>>
                ELSE IF id \in state_machines_[r] THEN InsertPriority(list[id - 1], id)
                ELSE list[id - 1]]
  BY <1>4, Zenon
<1> HIDE DEF list
<1>7. PICK g : g = list
  OBVIOUS
<1>8. g = [id \in 0 .. n |->
             IF id = 0 THEN <<>>
             ELSE IF id \in state_machines_[r] THEN InsertPriority(g[id - 1], id)
             ELSE g[id - 1]]
  BY <1>6, <1>7
<1>9. \A id \in 0 .. n : g[id] =
        IF id = 0 THEN <<>>
        ELSE IF id \in state_machines_[r] THEN InsertPriority(g[id - 1], id)
        ELSE g[id - 1]
  BY <1>8, Zenon
<1> DEFINE P == {id \in 0 .. n : g[id] \in S}
<1>10. 0 \in P
  <2>1. 0 \in 0 .. n /\ <<>> \in S
    OBVIOUS
  <2> QED BY <1>9, <2>1
<1>11. ASSUME NEW id \in 1 .. n, id - 1 \in P PROVE id \in P
  <2> HIDE DEF S
  <2>1. id \in 0 .. n /\ id # 0
    OBVIOUS
  <2>2. g[id - 1] \in S
    BY <1>11
  <2>3. g[id] \in S
    BY <1>1, <1>9, <2>1, <2>2, Zenon
  <2> QED BY <2>1, <2>3
<1>12. \A id \in 0 .. n : id \in P
  <2> HIDE DEF P
  <2> QED BY <1>10, <1>11, InductionTo
<1>13. g \in [0 .. n -> S] /\ g[0] = <<>>
  <2> HIDE DEF S
  <2> QED BY <1>8, <1>9, <1>12
<1>14. Inserts(g, r)
  BY <1>9, <1>13 DEF Inserts
<1> QED BY <1>5, <1>7, <1>13, <1>14

\* The list of a holder is made of its machines, each once.
LEMMA IdsFacts ==
  ASSUME NEW n \in Nat, n = Len(metas), NEW r, state_machines_[r] \subseteq 1 .. n
  PROVE  /\ getIdsPerPriorities(r) \in Seq(1 .. n)
         /\ ToSet(getIdsPerPriorities(r)) = state_machines_[r]
         /\ IsInjective(getIdsPerPriorities(r))
<1>1. PICK f \in [0 .. n -> Seq(1 .. n)] : Inserts(f, r) /\ getIdsPerPriorities(r) = f[n]
  BY IdsAreRecursive
<1>2. /\ f[0] = <<>>
      /\ \A id \in 1 .. n :
           f[id] = IF id \in state_machines_[r] THEN InsertPriority(f[id - 1], id)
                   ELSE f[id - 1]
  BY <1>1 DEF Inserts
<1> DEFINE P == {id \in 0 .. n : /\ ToSet(f[id]) = state_machines_[r] \cap (1 .. id)
                                 /\ IsInjective(f[id])}
<1>3. 0 \in P
  <2>1. ToSet(<<>>) = {} /\ IsInjective(<<>>)
    BY DEF ToSet, IsInjective
  <2> QED BY <1>2, <2>1
<1>4. ASSUME NEW id \in 1 .. n, id - 1 \in P PROVE id \in P
  <2>1. f[id - 1] \in Seq(1 .. n) /\ id \in 0 .. n
    BY SMTT(20)
  <2>2. ToSet(f[id - 1]) = state_machines_[r] \cap (1 .. id - 1) /\ IsInjective(f[id - 1])
    BY <1>4
  <2>3. 1 .. id = (1 .. id - 1) \cup {id} /\ id \notin 1 .. id - 1
    OBVIOUS
  <2>4. CASE id \in state_machines_[r]
    <3>1. f[id] = InsertPriority(f[id - 1], id)
      BY <1>2, <2>4
    <3>2. /\ ToSet(f[id]) = ToSet(f[id - 1]) \cup {id}
          /\ id \notin ToSet(f[id - 1]) => IsInjective(f[id])
      <4>1. PICK list \in Seq(1 .. n) : list = f[id - 1]
        BY <2>1
      <4>2. /\ ToSet(InsertPriority(list, id)) = ToSet(list) \cup {id}
            /\ IsInjective(list) /\ id \notin ToSet(list) =>
                 IsInjective(InsertPriority(list, id))
        BY InsertPriorityFacts
      <4> QED BY <4>1, <4>2, <2>2, <3>1, Zenon
    <3> QED BY <2>1, <2>2, <2>3, <2>4, <3>2
  <2>5. CASE id \notin state_machines_[r]
    <3>1. f[id] = f[id - 1]
      BY <1>2, <2>5
    <3> QED BY <2>1, <2>2, <2>3, <2>5, <3>1
  <2> QED BY <2>4, <2>5
<1>5. \A id \in 0 .. n : id \in P
  <2> HIDE DEF P
  <2> QED BY <1>3, <1>4, InductionTo
<1>6. n \in P
  BY <1>5
<1> QED BY <1>1, <1>6

(***************************************************************************)
(* The selection: what clean() and the removals do of the lists.           *)
(***************************************************************************)

\* No machine is listed twice; one that is listed is listed wherever a holder has it; the
\* first of a resource that is done comes first wherever it is listed.
NoRepeats(lists) == \A r \in Resources : IsInjective(lists[r])
Listed(lists) ==
  \A r, q \in Resources : ToSet(lists[r]) \cap state_machines_[q] \subseteq ToSet(lists[q])
Firsts(lists, done) ==
  \A r, q \in Resources :
    done[r] /\ lists[r] # <<>> /\ Head(lists[r]) \in ToSet(lists[q]) =>
      Head(lists[q]) = Head(lists[r])
Coherent(lists, done) == NoRepeats(lists) /\ Listed(lists) /\ Firsts(lists, done)

\* A resource that is done has given up the others.
Short(lists, done) == \A r \in Resources : done[r] => Len(lists[r]) <= 1

\* Erasing from every list.
LEMMA WithoutFacts ==
  ASSUME NEW S, NEW lists \in [Resources -> Seq(S)], NEW ids
  PROVE  /\ Without(lists, ids) \in [Resources -> Seq(S)]
         /\ \A r \in Resources : Without(lists, ids)[r] = Erased(lists[r], ids)
<1>1. \A r \in Resources : Erased(lists[r], ids) \in Seq(S)
  BY ErasedFacts
<1> QED BY <1>1 DEF Without

\* One turn of clean(): nothing is added, and the resource keeps one machine at most.
LEMMA CleanOneTyped ==
  ASSUME NEW S, NEW lists \in [Resources -> Seq(S)], NEW done, NEW r \in Resources
  PROVE  /\ CleanOne(lists, done, r) \in [Resources -> Seq(S)]
         /\ \A q \in Resources : Len(CleanOne(lists, done, r)[q]) <= Len(lists[q])
         /\ \A q \in Resources : ToSet(CleanOne(lists, done, r)[q]) \subseteq ToSet(lists[q])
         /\ done[r] => Len(CleanOne(lists, done, r)[r]) <= 1
<1>1. CASE done[r] /\ lists[r] # <<>>
  <2> DEFINE ids == ToSet(Tail(lists[r]))
             head == <<Head(lists[r])>>
  <2>1. CleanOne(lists, done, r) = [Without(lists, ids) EXCEPT ![r] = head]
    BY <1>1 DEF CleanOne
  <2>2. /\ head \in Seq(S) /\ Len(head) = 1 /\ Len(head) <= Len(lists[r])
        /\ ToSet(head) \subseteq ToSet(lists[r])
    <3>1. lists[r] \in Seq(S) /\ Len(lists[r]) >= 1 /\ Head(lists[r]) = lists[r][1]
      BY <1>1
    <3>2. lists[r][1] \in S /\ 1 \in DOMAIN lists[r]
      BY <3>1
    <3>3. ToSet(head) = {Head(lists[r])}
      BY DEF ToSet
    <3> QED BY <3>1, <3>2, <3>3 DEF ToSet
  <2> HIDE DEF ids, head
  <2>3. /\ Without(lists, ids) \in [Resources -> Seq(S)]
        /\ \A q \in Resources : Without(lists, ids)[q] = Erased(lists[q], ids)
    BY WithoutFacts
  <2>4. \A q \in Resources : /\ Len(Erased(lists[q], ids)) <= Len(lists[q])
                             /\ ToSet(Erased(lists[q], ids)) = ToSet(lists[q]) \ ids
    BY ErasedFacts
  <2>5. PICK c : c = CleanOne(lists, done, r)
    OBVIOUS
  <2>6. /\ c \in [Resources -> Seq(S)] /\ c[r] = head
        /\ \A q \in Resources \ {r} : c[q] = Erased(lists[q], ids)
    BY <2>1, <2>2, <2>3, <2>5
  <2>7. \A q \in Resources : Len(c[q]) <= Len(lists[q]) /\ ToSet(c[q]) \subseteq ToSet(lists[q])
    <3> TAKE q \in Resources
    <3>1. CASE q = r
      BY <3>1, <2>2, <2>6
    <3>2. CASE q # r
      BY <3>2, <2>4, <2>6
    <3> QED BY <3>1, <3>2
  <2>8. Len(c[r]) <= 1
    <3>1. Len(c[r]) = 1
      BY <2>2, <2>6, Zenon
    <3> QED BY <3>1
  <2> QED BY <2>5, <2>6, <2>7, <2>8
<1>2. CASE ~ done[r] \/ lists[r] = <<>>
  <2>1. CleanOne(lists, done, r) = lists
    BY <1>2 DEF CleanOne
  <2>2. \A q \in Resources : Len(lists[q]) \in Nat
    OBVIOUS
  <2> QED BY <1>2, <2>1, <2>2
<1> QED BY <1>1, <1>2

\* If the lists are coherent they remain so, and those that are done keep their first.
LEMMA CleanOneCoherent ==
  ASSUME NEW S, NEW lists \in [Resources -> Seq(S)], NEW done, NEW r \in Resources,
         Coherent(lists, done)
  PROVE  /\ Coherent(CleanOne(lists, done, r), done)
         /\ \A q \in Resources : done[q] /\ lists[q] # <<>> =>
              /\ CleanOne(lists, done, r)[q] # <<>>
              /\ Head(CleanOne(lists, done, r)[q]) = Head(lists[q])
<1>1. CASE done[r] /\ lists[r] # <<>>
  <2> DEFINE ids == ToSet(Tail(lists[r]))
             h == Head(lists[r])
  <2>1. PICK c : c = CleanOne(lists, done, r)
    OBVIOUS
  <2>2. c = [Without(lists, ids) EXCEPT ![r] = <<h>>]
    BY <1>1, <2>1 DEF CleanOne
  <2>3. h \in ToSet(lists[r]) /\ h \notin ids /\ ToSet(lists[r]) = {h} \cup ids
    <3>1. PICK n \in Nat : /\ lists[r] \in Seq(S) /\ Len(lists[r]) = n + 1
                           /\ DOMAIN lists[r] = 1 .. n + 1 /\ h = lists[r][1]
      <4>1. lists[r] \in Seq(S) /\ Len(lists[r]) - 1 \in Nat
        BY <1>1
      <4> QED BY <4>1
    <3>2. /\ DOMAIN Tail(lists[r]) = 1 .. n
          /\ \A k \in 1 .. n : Tail(lists[r])[k] = lists[r][k + 1]
      BY <3>1
    <3>3. ids = {lists[r][k + 1] : k \in 1 .. n}
      BY <3>2 DEF ToSet
    <3>4. \A k \in 1 .. n : k + 1 \in 1 .. n + 1 /\ k + 1 # 1
      OBVIOUS
    <3>5. \A k \in 1 .. n + 1 : k = 1 \/ (k - 1 \in 1 .. n /\ (k - 1) + 1 = k)
      OBVIOUS
    <3>6. 1 \in 1 .. n + 1
      OBVIOUS
    <3>7. ToSet(lists[r]) = {lists[r][k] : k \in 1 .. n + 1}
      BY <3>1 DEF ToSet
    <3>8. \A k \in 1 .. n : lists[r][k + 1] # lists[r][1]
      BY <3>1, <3>4, <3>6 DEF Coherent, NoRepeats, IsInjective
    <3> HIDE DEF ids, h
    <3>9. h \notin ids
      BY <3>1, <3>3, <3>8
    <3>10. ToSet(lists[r]) \subseteq {h} \cup ids
      BY <3>1, <3>3, <3>5, <3>7
    <3>11. h \in ToSet(lists[r]) /\ ids \subseteq ToSet(lists[r])
      BY <3>1, <3>3, <3>4, <3>6, <3>7
    <3> QED BY <3>9, <3>10, <3>11
  <2>4. /\ ToSet(<<h>>) = {h} /\ IsInjective(<<h>>) /\ <<h>> # <<>> /\ Head(<<h>>) = h
    BY DEF ToSet, IsInjective
  <2> HIDE DEF ids, h
  <2>5. /\ c[r] = <<h>>
        /\ \A q \in Resources \ {r} : c[q] = Erased(lists[q], ids)
    BY <2>2, WithoutFacts
  <2>6. \A q \in Resources :
          /\ ToSet(Erased(lists[q], ids)) = ToSet(lists[q]) \ ids
          /\ IsInjective(lists[q]) => IsInjective(Erased(lists[q], ids))
          /\ lists[q] # <<>> /\ Head(lists[q]) \notin ids =>
               Erased(lists[q], ids) # <<>> /\ Head(Erased(lists[q], ids)) = Head(lists[q])
    BY ErasedFacts
  <2>7. /\ ToSet(c[r]) = {h}
        /\ \A q \in Resources \ {r} : ToSet(c[q]) = ToSet(lists[q]) \ ids
    BY <2>4, <2>5, <2>6
  <2>8. \A q \in Resources : lists[q] # <<>> => Head(lists[q]) \in ToSet(lists[q])
    BY DEF ToSet
  <2>9. \A q \in Resources : lists[q] = <<>> => ToSet(lists[q]) = {}
    BY DEF ToSet
  <2>10. \A q \in Resources : done[q] /\ lists[q] # <<>> => Head(lists[q]) \notin ids
    BY <1>1, <2>3, <2>8 DEF Coherent, Firsts, h
  <2>11. \A q \in Resources : done[q] /\ lists[q] # <<>> =>
           c[q] # <<>> /\ Head(c[q]) = Head(lists[q])
    BY <2>4, <2>5, <2>6, <2>10 DEF h
  <2>12. NoRepeats(c)
    BY <2>4, <2>5, <2>6 DEF Coherent, NoRepeats
  <2>13. Listed(c)
    <3> SUFFICES ASSUME NEW p \in Resources, NEW q \in Resources,
                        NEW id \in ToSet(c[p]) \cap state_machines_[q]
                 PROVE  id \in ToSet(c[q])
      BY DEF Listed
    <3>1. id \in ToSet(lists[p]) /\ id \notin ids
      BY <2>3, <2>7
    <3>2. id \in ToSet(lists[q])
      BY <3>1 DEF Coherent, Listed
    <3> QED BY <2>3, <2>7, <3>1, <3>2
  <2>14. Firsts(c, done)
    <3> SUFFICES ASSUME NEW p \in Resources, NEW q \in Resources,
                        done[p], c[p] # <<>>, Head(c[p]) \in ToSet(c[q])
                 PROVE  Head(c[q]) = Head(c[p])
      BY DEF Firsts
    <3>1. lists[p] # <<>>
      <4>1. CASE p = r
        BY <1>1, <4>1
      <4>2. CASE p # r
        <5>1. c[p] = Erased(lists[p], ids)
          BY <2>5, <4>2
        <5>2. lists[p] \in Seq(S)
          OBVIOUS
        <5>3. Erased(lists[p], ids) \in Seq(S) /\ Len(Erased(lists[p], ids)) <= Len(lists[p])
          BY <5>2, ErasedFacts
        <5> QED BY <5>1, <5>2, <5>3
      <4> QED BY <4>1, <4>2
    <3>2. Head(c[p]) = Head(lists[p]) /\ Head(lists[p]) \notin ids
      BY <3>1, <2>10, <2>11
    <3>3. Head(lists[p]) \in ToSet(lists[q])
      BY <2>3, <2>7, <3>2
    <3>4. Head(lists[q]) = Head(lists[p]) /\ lists[q] # <<>>
      BY <3>1, <3>3, <2>9 DEF Coherent, Firsts
    <3> QED BY <3>2, <3>4, <2>4, <2>5, <2>6 DEF h
  <2> QED BY <2>1, <2>11, <2>12, <2>13, <2>14 DEF Coherent
<1>2. CASE ~ done[r] \/ lists[r] = <<>>
  <2>1. CleanOne(lists, done, r) = lists
    BY <1>2 DEF CleanOne
  <2> QED BY <2>1
<1> QED BY <1>1, <1>2

\* clean() takes the turns one after the other.
Cleans(f, lists, done) ==
  /\ f[0] = lists
  /\ \A r \in 1 .. N : f[r] = CleanOne(f[r - 1], done, r)

LEMMA CleanIsRecursive ==
  ASSUME NEW S, NEW lists \in [Resources -> Seq(S)], NEW done
  PROVE  \E f \in [0 .. N -> [Resources -> Seq(S)]] :
           Cleans(f, lists, done) /\ clean(lists, done) = f[N]
<1> DEFINE T == [Resources -> Seq(S)]
<1>0. N \in Nat /\ N >= 1 /\ Resources = 1 .. N
  BY NAssumption DEF Resources
<1>1. \A r \in 1 .. N : \A l \in T : CleanOne(l, done, r) \in T
  BY <1>0, CleanOneTyped
<1>2. PICK step \in [1 .. N -> [T -> T]] :
        \A r \in 1 .. N : \A l \in T : step[r][l] = CleanOne(l, done, r)
  <2> DEFINE step == [r \in 1 .. N |-> [l \in T |-> CleanOne(l, done, r)]]
  <2> HIDE DEF T
  <2>1. step \in [1 .. N -> [T -> T]]
    BY <1>1
  <2>2. \A r \in 1 .. N : \A l \in T : step[r][l] = CleanOne(l, done, r)
    OBVIOUS
  <2> HIDE DEF step
  <2> QED BY <2>1, <2>2
<1>3. PICK f \in [0 .. N -> T] : Follows(f, N, lists, step)
  <2>1. lists \in T
    OBVIOUS
  <2> HIDE <1>1, <1>2
  <2> HIDE DEF T
  <2> QED BY <1>0, <2>1, RecursionExists
<1>4. f = [r \in 0 .. N |-> IF r = 0 THEN lists ELSE CleanOne(f[r - 1], done, r)]
  <2> HIDE DEF T
  <2>1. ASSUME NEW r \in 1 .. N PROVE f[r] = CleanOne(f[r - 1], done, r)
    <3>1. f[r - 1] \in T /\ f[r] = step[r][f[r - 1]]
      BY <1>0, <1>3 DEF Follows
    <3> QED BY <3>1, <1>2
  <2>2. \A r \in 0 .. N :
          f[r] = IF r = 0 THEN lists ELSE CleanOne(f[r - 1], done, r)
    <3> TAKE r \in 0 .. N
    <3>1. CASE r = 0
      BY <3>1, <1>3 DEF Follows
    <3>2. CASE r # 0
      <4>1. r \in 1 .. N
        BY <3>2, <1>0
      <4> QED BY <4>1, <3>2, <2>1, Zenon
    <3> QED BY <3>1, <3>2
  <2>3. f = [r \in 0 .. N |-> f[r]]
    OBVIOUS
  <2> QED BY <2>2, <2>3, Zenon
<1> DEFINE after[r \in 0 .. N] ==
             IF r = 0 THEN lists ELSE CleanOne(after[r - 1], done, r)
<1>5. clean(lists, done) = after[N]
  BY Zenon DEF clean
<1>6. after = [r \in 0 .. N |->
                 IF r = 0 THEN lists ELSE CleanOne(after[r - 1], done, r)]
  BY <1>4, Zenon
<1> HIDE DEF after
<1>7. PICK g : g = after
  OBVIOUS
<1>8. g = [r \in 0 .. N |-> IF r = 0 THEN lists ELSE CleanOne(g[r - 1], done, r)]
  BY <1>6, <1>7
<1>9. \A r \in 0 .. N : g[r] = IF r = 0 THEN lists ELSE CleanOne(g[r - 1], done, r)
  BY <1>8, Zenon
<1> DEFINE P == {r \in 0 .. N : g[r] \in T}
<1>10. 0 \in P
  <2>1. 0 \in 0 .. N /\ lists \in T
    BY <1>0
  <2> QED BY <1>9, <2>1
<1>11. ASSUME NEW r \in 1 .. N, r - 1 \in P PROVE r \in P
  <2> HIDE DEF T
  <2>1. r \in 0 .. N /\ r # 0
    BY <1>0
  <2>2. g[r - 1] \in T
    BY <1>11
  <2>3. g[r] \in T
    BY <1>1, <1>9, <2>1, <2>2, Zenon
  <2> QED BY <2>1, <2>3
<1>12. \A r \in 0 .. N : r \in P
  <2> HIDE DEF P
  <2> QED BY <1>0, <1>10, <1>11, InductionTo
<1>13. g \in [0 .. N -> T] /\ g[0] = lists
  <2> HIDE DEF T
  <2> QED BY <1>0, <1>8, <1>9, <1>12
<1>14. Cleans(g, lists, done)
  <2>1. \A r \in 1 .. N : r \in 0 .. N /\ r # 0
    BY <1>0
  <2> QED BY <1>9, <1>13, <2>1, Zenon DEF Cleans
<1> QED BY <1>5, <1>7, <1>13, <1>14

\* clean() adds nothing to the lists, and leaves one machine at most where it is done.
LEMMA CleanTyped ==
  ASSUME NEW S, NEW lists \in [Resources -> Seq(S)], NEW done
  PROVE  /\ clean(lists, done) \in [Resources -> Seq(S)]
         /\ \A q \in Resources : Len(clean(lists, done)[q]) <= Len(lists[q])
         /\ \A q \in Resources : ToSet(clean(lists, done)[q]) \subseteq ToSet(lists[q])
         /\ Short(clean(lists, done), done)
<1>0. N \in Nat /\ Resources = 1 .. N
  BY NAssumption DEF Resources
<1>1. PICK f \in [0 .. N -> [Resources -> Seq(S)]] :
        Cleans(f, lists, done) /\ clean(lists, done) = f[N]
  BY CleanIsRecursive
<1>2. f[0] = lists /\ \A r \in 1 .. N : f[r] = CleanOne(f[r - 1], done, r)
  BY <1>1 DEF Cleans
<1> DEFINE Shorter(k) == \A q \in Resources : /\ Len(f[k][q]) <= Len(lists[q])
                                              /\ ToSet(f[k][q]) \subseteq ToSet(lists[q])
           Given(k) == \A q \in 1 .. k : done[q] => Len(f[k][q]) <= 1
           P == {k \in 0 .. N : Shorter(k) /\ Given(k)}
<1>3. 0 \in P
  <2>1. 0 \in 0 .. N /\ \A q \in Resources : Len(lists[q]) \in Nat
    BY <1>0
  <2>2. Shorter(0)
    BY <1>2, <2>1
  <2>3. Given(0)
    OBVIOUS
  <2> QED BY <2>1, <2>2, <2>3
<1>4. ASSUME NEW k \in 1 .. N, k - 1 \in P PROVE k \in P
  <2>1. k - 1 \in 0 .. N /\ k \in 0 .. N /\ k \in Resources
    BY <1>0
  <2>2. PICK l \in [Resources -> Seq(S)] : l = f[k - 1]
    BY <2>1
  <2>3. /\ \A q \in Resources : /\ Len(l[q]) <= Len(lists[q])
                                /\ ToSet(l[q]) \subseteq ToSet(lists[q])
        /\ \A q \in 1 .. k - 1 : done[q] => Len(l[q]) <= 1
    BY <1>4, <2>2
  <2>4. f[k] = CleanOne(l, done, k) /\ f[k] \in [Resources -> Seq(S)]
    BY <1>2, <2>1, <2>2
  <2>5. /\ \A q \in Resources : Len(f[k][q]) <= Len(l[q])
        /\ \A q \in Resources : ToSet(f[k][q]) \subseteq ToSet(l[q])
        /\ done[k] => Len(f[k][k]) <= 1
    BY <2>1, <2>4, CleanOneTyped
  <2>6. \A q \in Resources : /\ Len(f[k][q]) \in Nat /\ Len(l[q]) \in Nat
                             /\ Len(lists[q]) \in Nat
    BY <2>4
  <2>7. \A q \in 1 .. k : q \in Resources /\ (q = k \/ q \in 1 .. k - 1)
    BY <1>0
  <2>8. Shorter(k)
    BY <2>3, <2>5, <2>6
  <2>9. Given(k)
    BY SMTT(20), <2>3, <2>5, <2>6, <2>7
  <2> QED BY <2>1, <2>8, <2>9
<1>5. \A k \in 0 .. N : k \in P
  <2> HIDE DEF P
  <2> QED BY <1>0, <1>3, <1>4, InductionTo
<1>6. N \in P /\ f[N] \in [Resources -> Seq(S)]
  BY <1>0, <1>5
<1> QED BY <1>0, <1>1, <1>6 DEF Short

\* If the lists are coherent they remain so, and those that are done keep their first.
LEMMA CleanCoherent ==
  ASSUME NEW S, NEW lists \in [Resources -> Seq(S)], NEW done, Coherent(lists, done)
  PROVE  /\ Coherent(clean(lists, done), done)
         /\ \A q \in Resources : done[q] /\ lists[q] # <<>> =>
              /\ clean(lists, done)[q] # <<>>
              /\ Head(clean(lists, done)[q]) = Head(lists[q])
<1>0. N \in Nat /\ Resources = 1 .. N
  BY NAssumption DEF Resources
<1>1. PICK f \in [0 .. N -> [Resources -> Seq(S)]] :
        Cleans(f, lists, done) /\ clean(lists, done) = f[N]
  BY CleanIsRecursive
<1>2. f[0] = lists /\ \A r \in 1 .. N : f[r] = CleanOne(f[r - 1], done, r)
  BY <1>1 DEF Cleans
<1> DEFINE Same(k) == \A q \in Resources : done[q] /\ lists[q] # <<>> =>
                        f[k][q] # <<>> /\ Head(f[k][q]) = Head(lists[q])
           P == {k \in 0 .. N : Coherent(f[k], done) /\ Same(k)}
<1>3. 0 \in P
  <2>1. 0 \in 0 .. N
    BY <1>0
  <2>2. Same(0)
    BY <1>2
  <2>3. Coherent(f[0], done)
    BY <1>2
  <2> QED BY <2>1, <2>2, <2>3
<1>4. ASSUME NEW k \in 1 .. N, k - 1 \in P PROVE k \in P
  <2>1. k - 1 \in 0 .. N /\ k \in 0 .. N /\ k \in Resources
    BY <1>0
  <2>2. PICK l \in [Resources -> Seq(S)] : l = f[k - 1]
    BY <2>1
  <2>3. Coherent(l, done) /\ Same(k - 1)
    BY <1>4, <2>2
  <2>4. f[k] = CleanOne(l, done, k)
    BY <1>2, <2>2
  <2>5. /\ Coherent(f[k], done)
        /\ \A q \in Resources : done[q] /\ l[q] # <<>> =>
             f[k][q] # <<>> /\ Head(f[k][q]) = Head(l[q])
    BY <2>1, <2>3, <2>4, CleanOneCoherent
  <2>6. Same(k)
    BY <2>2, <2>3, <2>5
  <2> QED BY <2>1, <2>5, <2>6
<1>5. \A k \in 0 .. N : k \in P
  <2> HIDE DEF P
  <2> QED BY <1>0, <1>3, <1>4, InductionTo
<1>6. N \in P
  BY <1>0, <1>5
<1> QED BY <1>1, <1>6

\* Erasing machines everywhere disturbs neither coherence nor what was given up.
LEMMA WithoutCoherent ==
  ASSUME NEW S, NEW lists \in [Resources -> Seq(S)], NEW done, NEW ids,
         Coherent(lists, done), Short(lists, done)
  PROVE  Coherent(Without(lists, ids), done) /\ Short(Without(lists, ids), done)
<1>1. PICK c : c = Without(lists, ids)
  OBVIOUS
<1>2. \A r \in Resources :
        /\ c[r] = Erased(lists[r], ids) /\ c[r] \in Seq(S) /\ lists[r] \in Seq(S)
        /\ Len(c[r]) <= Len(lists[r])
        /\ ToSet(c[r]) = ToSet(lists[r]) \ ids
        /\ IsInjective(lists[r]) => IsInjective(c[r])
        /\ lists[r] # <<>> /\ Head(lists[r]) \notin ids =>
             c[r] # <<>> /\ Head(c[r]) = Head(lists[r])
  <2> TAKE r \in Resources
  <2>1. c[r] = Erased(lists[r], ids) /\ lists[r] \in Seq(S)
    BY <1>1, WithoutFacts
  <2> QED BY <2>1, ErasedFacts
<1>3. NoRepeats(c)
  BY <1>2 DEF Coherent, NoRepeats
<1>4. Listed(c)
  <2> SUFFICES ASSUME NEW p \in Resources, NEW q \in Resources,
                      NEW id \in ToSet(c[p]) \cap state_machines_[q]
               PROVE  id \in ToSet(c[q])
    BY DEF Listed
  <2>1. id \in ToSet(lists[p]) /\ id \notin ids
    BY <1>2
  <2>2. id \in ToSet(lists[q])
    BY <2>1 DEF Coherent, Listed
  <2> QED BY <1>2, <2>1, <2>2
<1>5. Short(c, done)
  <2> SUFFICES ASSUME NEW r \in Resources, done[r] PROVE Len(c[r]) <= 1
    BY DEF Short
  <2>1. Len(lists[r]) <= 1 /\ Len(lists[r]) \in Nat /\ Len(c[r]) \in Nat
    BY <1>2 DEF Short
  <2> QED BY <1>2, <2>1
<1>6. Firsts(c, done)
  <2> SUFFICES ASSUME NEW p \in Resources, NEW q \in Resources,
                      done[p], c[p] # <<>>, Head(c[p]) \in ToSet(c[q])
               PROVE  Head(c[q]) = Head(c[p])
    BY DEF Firsts
  <2>1. Len(lists[p]) <= 1 /\ lists[p] \in Seq(S) /\ c[p] \in Seq(S)
    BY <1>2 DEF Short
  <2>2. lists[p] # <<>> /\ Len(c[p]) >= 1 /\ Len(lists[p]) = 1
    <3>1. PICK k \in Nat, l \in Nat : k = Len(c[p]) /\ l = Len(lists[p])
      BY <2>1
    <3>2. k # 0
      BY <2>1, <3>1
    <3>3. k <= l /\ l <= 1
      BY <1>2, <2>1, <3>1
    <3>4. k = 1 /\ l = 1
      BY <3>2, <3>3
    <3>5. lists[p] # <<>>
      <4>1. Len(<<>>) # 1
        OBVIOUS
      <4>2. Len(lists[p]) = 1
        BY <3>1, <3>4
      <4> QED BY <4>1, <4>2, Zenon
    <3> QED BY <3>1, <3>4, <3>5
  <2>3. Head(lists[p]) \notin ids /\ Head(c[p]) = Head(lists[p])
    <3>1. ToSet(lists[p]) = {Head(lists[p])}
      <4>1. DOMAIN lists[p] = {1} /\ Head(lists[p]) = lists[p][1]
        BY <2>1, <2>2
      <4> QED BY <4>1 DEF ToSet
    <3>2. Head(c[p]) \in ToSet(c[p])
      <4>1. 1 \in DOMAIN c[p] /\ Head(c[p]) = c[p][1]
        BY <2>1, <2>2
      <4> QED BY <4>1 DEF ToSet
    <3> QED BY <3>1, <3>2, <1>2
  <2>4. Head(lists[p]) \in ToSet(lists[q])
    BY <1>2, <2>3
  <2>5. Head(lists[q]) = Head(lists[p])
    BY <2>2, <2>4 DEF Coherent, Firsts
  <2>6. lists[q] # <<>>
    BY <2>4 DEF ToSet
  <2> QED BY <1>2, <2>3, <2>5, <2>6
<1> QED BY <1>1, <1>3, <1>4, <1>5, <1>6 DEF Coherent

(***************************************************************************)
(* Types.                                                                  *)
(***************************************************************************)

\* Changing what a thread is at.
Works(n) == [Threads -> [id : Maybe(1 .. n), at : 0 .. N + 1]]

LEMMA WorkFacts ==
  ASSUME NEW n, NEW w \in Works(n), NEW t \in Threads,
         NEW id \in Maybe(1 .. n), NEW at \in 0 .. N + 1
  PROVE  /\ [w EXCEPT ![t] = [id |-> id, at |-> at]] \in Works(n)
         /\ [w EXCEPT ![t].at = at] \in Works(n)
         /\ [w EXCEPT ![t] = NoWork] \in Works(n)
<1>1. [id |-> id, at |-> at] \in [id : Maybe(1 .. n), at : 0 .. N + 1]
  OBVIOUS
<1>2. [w[t] EXCEPT !.at = at] \in [id : Maybe(1 .. n), at : 0 .. N + 1]
  BY DEF Works
<1>3. NoWork \in [id : Maybe(1 .. n), at : 0 .. N + 1]
  BY NAssumption DEF NoWork, Maybe
<1> QED BY <1>1, <1>2, <1>3 DEF Works

LEMMA TypeInit == Init => TypeOK
<1> SUFFICES ASSUME Init PROVE TypeOK
  OBVIOUS
<1>1. metas \in Seq(Metas) /\ Len(metas) = 0 /\ 1 .. Len(metas) = {}
  BY DEF Init
<1>2. N \in Nat \ {0} /\ MaxMetas \in Nat
  BY NAssumption, MaxMetasAssumption
<1>3. ids_ \in [Resources -> Seq(1 .. Len(metas))]
  BY DEF Init
<1>4. work \in [Threads -> [id : Maybe(1 .. Len(metas)), at : 0 .. N + 1]]
  <2>1. NoWork \in [id : Maybe(1 .. Len(metas)), at : 0 .. N + 1]
    BY <1>2 DEF NoWork, Maybe
  <2> QED BY <2>1 DEF Init
<1>5. i \in Resources
  BY <1>2 DEF Init, Resources
<1>6. /\ running_id_ \in [Resources -> Maybe(1 .. Len(metas))]
      /\ lock \in [Resources -> Maybe(Threads)]
      /\ node \in Maybe(Threads)
  BY DEF Init, Maybe
<1>7. /\ state_machines_ \in [Resources -> SUBSET (1 .. Len(metas))]
      /\ state_ \in [Resources -> {"name", "none"}]
      /\ last \in [Resources -> {"due", "told", "lost"}]
      /\ thread \in [Resources -> {"idle", "noted", "relay", "cancel", "erase"}]
      /\ event \in [Resources -> Events]
      /\ told \in [Ids -> SUBSET Resources]
      /\ done_ \in [Resources -> BOOLEAN] /\ preempt_ \in [Resources -> BOOLEAN]
  BY DEF Init, Events
<1>8. /\ _status = {} /\ headers_ = {} /\ sm_start_time_ = {} /\ running_ids_ = {}
      /\ visit = {} /\ pc = "sleep" /\ undefined = FALSE
  BY DEF Init
<1>9. Len(metas) <= MaxMetas
  BY <1>1, <1>2
<1> QED BY <1>1, <1>3, <1>4, <1>5, <1>6, <1>7, <1>8, <1>9 DEF TypeOK

LEMMA TypeNext == TypeOK /\ [Next]_vars => TypeOK'
<1> SUFFICES ASSUME TypeOK, [Next]_vars PROVE TypeOK'
  OBVIOUS
<1> USE DEF TypeOK, holders, relays, records, selection
<1>0. N \in Nat \ {0} /\ MaxMetas \in Nat /\ Resources = 1 .. N /\ Threads = 0 .. N
      /\ Loop \in Threads
  BY NAssumption, MaxMetasAssumption DEF Resources, Threads, Loop
<1>a. work \in Works(Len(metas)) /\ None \in Maybe(1 .. Len(metas))
  BY DEF Works, Maybe
<1>b. ASSUME NEW t \in Threads, work[t].at \in Resources
      PROVE  [work EXCEPT ![t].at = @ + 1] \in Works(Len(metas))
  <2>1. PICK at \in 0 .. N + 1 : at = work[t].at + 1
    BY <1>0, <1>b
  <2>2. [work EXCEPT ![t].at = at] \in Works(Len(metas))
    BY <1>a, <2>1, WorkFacts
  <2> QED BY <2>1, <2>2
<1>d. \A t \in Threads : [work EXCEPT ![t] = NoWork] \in Works(Len(metas))
  <2>1. 0 \in 0 .. N + 1
    BY <1>0
  <2> QED BY <1>a, <2>1, WorkFacts
<1>e. \A t \in Threads : \A at \in 0 .. N + 1 :
        [work EXCEPT ![t].at = at] \in Works(Len(metas))
  BY <1>a, WorkFacts
<1>f. \A t \in Threads : \A id \in Maybe(1 .. Len(metas)) : \A at \in 0 .. N + 1 :
        [work EXCEPT ![t] = [id |-> id, at |-> at]] \in Works(Len(metas))
  BY <1>a, WorkFacts
<1>g. 0 \in 0 .. N + 1 /\ 1 \in 0 .. N + 1 /\ Loop \in Maybe(Threads)
      /\ None \in Maybe(Threads)
  BY <1>0 DEF Maybe
<1>1. ASSUME NEW t \in Threads, CancelHolder(t) PROVE TypeOK'
  <2>1. work' \in Works(Len(metas))
    BY <1>1, <1>a, <1>b DEF CancelHolder, Erase
  <2>2. /\ state_machines_' \in [Resources -> SUBSET (1 .. Len(metas))]
        /\ lock' \in [Resources -> Maybe(Threads)]
    <3>1. t \in Maybe(Threads)
      BY DEF Maybe
    <3>2. CASE lock' = [lock EXCEPT ![work[t].at] = t] /\ UNCHANGED <<state_machines_, work>>
      BY <3>1, <3>2
    <3>3. CASE Erase(t, work[t].at) /\ UNCHANGED lock
      BY <3>3 DEF Erase
    <3> QED BY <1>1, <3>2, <3>3 DEF CancelHolder
  <2> QED BY <1>1, <2>1, <2>2 DEF CancelHolder, Works
<1>2. ASSUME NEW t \in Threads, ResultIsIn(t) PROVE TypeOK'
  <2>1. work' \in Works(Len(metas))
    BY <1>2, <1>a, <1>b DEF ResultIsIn, Erase
  <2>2. /\ state_machines_' \in [Resources -> SUBSET (1 .. Len(metas))]
        /\ lock' \in [Resources -> Maybe(Threads)]
    BY <1>2 DEF ResultIsIn, Erase, Maybe
  <2> QED BY <1>2, <2>1, <2>2 DEF ResultIsIn, Works
<1>3. ASSUME NEW meta \in Sent, registerMetaStateMachine(meta) PROVE TypeOK'
  <2> DEFINE n == Len(metas)
  <2>1. /\ metas' \in Seq(Metas) /\ Len(metas') = n + 1 /\ n + 1 <= MaxMetas /\ n \in Nat
        /\ meta.subs \subseteq Resources
    BY <1>3, SentAssumption DEF registerMetaStateMachine, Metas
  <2>2. 1 .. n \subseteq 1 .. Len(metas') /\ n + 1 \in 1 .. Len(metas') /\ n + 1 \in Ids
    BY <1>0, <2>1 DEF Ids
  <2>3. UNCHANGED <<running_id_, state_, last, lock, told, thread, event, node, work,
                    sm_start_time_, running_ids_, ids_, done_, preempt_, pc, i, visit,
                    undefined>>
    BY <1>3 DEF registerMetaStateMachine
  <2>4. state_machines_' \in [Resources -> SUBSET (1 .. Len(metas'))]
    BY <1>3, <2>2 DEF registerMetaStateMachine
  <2>5. _status' \subseteq Ids /\ headers_' \subseteq 1 .. Len(metas')
    BY <1>3, <2>2 DEF registerMetaStateMachine
  <2>6. Maybe(1 .. n) \subseteq Maybe(1 .. Len(metas'))
    BY <2>2 DEF Maybe
  <2>7. work' \in Works(Len(metas'))
    BY <2>3, <2>6 DEF Works
  <2>8. running_id_' \in [Resources -> Maybe(1 .. Len(metas'))]
    BY <2>3, <2>6
  <2>9. ids_' \in [Resources -> Seq(1 .. Len(metas'))]
    <3>1. Seq(1 .. n) \subseteq Seq(1 .. Len(metas'))
      BY <2>2
    <3> QED BY <2>3, <3>1
  <2> QED BY <2>1, <2>2, <2>3, <2>4, <2>5, <2>7, <2>8, <2>9 DEF Works
<1>4. ASSUME NEW id \in Ids, stateMachineCancel(id) PROVE TypeOK'
  BY <1>0, <1>4 DEF stateMachineCancel, Forget
<1>5. ASSUME NEW r \in Resources, NEW e \in Events, statusCallback(r, e) PROVE TypeOK'
  <2>1. last' \in [Resources -> {"due", "told", "lost"}]
    BY <1>5 DEF statusCallback
  <2>2. state_' \in [Resources -> {"name", "none"}]
    <3>1. \/ state_' = state_
          \/ state_' = [state_ EXCEPT ![r] = IF e \in Final THEN "none" ELSE "name"]
      BY <1>5, Zenon DEF statusCallback
    <3> QED BY <3>1
  <2>3. thread' \in [Resources -> {"idle", "noted", "relay", "cancel", "erase"}]
    <3>1. \/ thread' = thread
          \/ thread' = [thread EXCEPT ![r] = IF running_id_[r] = None THEN "noted" ELSE "relay"]
      BY <1>5, Zenon DEF statusCallback
    <3> QED BY <3>1
  <2>4. event' \in [Resources -> Events]
    <3>1. event' = event \/ event' = [event EXCEPT ![r] = e]
      BY <1>5, Zenon DEF statusCallback
    <3> QED BY <3>1
  <2>5. UNCHANGED <<metas, state_machines_, running_id_, lock, _status, told, node, work,
                    records, selection, pc, i, visit, undefined>>
    BY <1>5 DEF statusCallback
  <2> QED BY <2>1, <2>2, <2>3, <2>4, <2>5
<1>30. ASSUME NEW r \in Resources, RelayStatus(r) PROVE TypeOK'
  <2>1. /\ thread' \in [Resources -> {"idle", "noted", "relay", "cancel", "erase"}]
        /\ event' \in [Resources -> Events]
    BY <1>30 DEF RelayStatus, Events
  <2> QED BY <1>0, <1>30, <2>1 DEF RelayStatus
<1>c. ASSUME NEW r \in Resources, Relayed(r)
      PROVE  /\ thread' \in [Resources -> {"idle", "noted", "relay", "cancel", "erase"}]
             /\ event' \in [Resources -> Events]
  BY <1>c DEF Relayed, Events
<1>6. ASSUME NEW r \in Resources, publishStatus(r) PROVE TypeOK'
  <2> DEFINE id == running_id_[r]
  <2>1. UNCHANGED <<metas, holders, _status, records, selection, pc, i, visit, undefined>>
    BY <1>6 DEF publishStatus
  <2>2. told' \in [Ids -> SUBSET Resources]
    <3>1. CASE id \in _status /\ event[r] \in Final
      <4>1. told' = [told EXCEPT ![id] = @ \cup {r}] /\ id \in Ids
        BY <1>6, <3>1 DEF publishStatus
      <4> QED BY <4>1
    <3>2. CASE ~ (id \in _status /\ event[r] \in Final)
      BY <1>6, <3>2 DEF publishStatus
    <3> QED BY <3>1, <3>2
  <2>3. CASE /\ node' = r
             /\ thread' = [thread EXCEPT ![r] = "cancel"]
             /\ work' = [work EXCEPT ![r] = [id |-> id, at |-> 1]]
             /\ UNCHANGED event
    <3>1. id \in Maybe(1 .. Len(metas)) /\ r \in Threads /\ 1 \in 0 .. N + 1
      BY <1>0
    <3>2. work' \in Works(Len(metas))
      BY <1>a, <2>3, <3>1, WorkFacts
    <3>3. thread' \in [Resources -> {"idle", "noted", "relay", "cancel", "erase"}]
      BY <2>3
    <3>4. node' \in Maybe(Threads)
      BY <2>3, <3>1 DEF Maybe
    <3> QED BY <2>1, <2>2, <2>3, <3>2, <3>3, <3>4 DEF Works
  <2>4. CASE Relayed(r) /\ UNCHANGED <<node, work>>
    BY <2>1, <2>2, <2>4, <1>c
  <2> QED BY <1>6, <2>3, <2>4 DEF publishStatus
<1>7. ASSUME NEW t, removeSm(t)
      PROVE  /\ ids_' \in [Resources -> Seq(1 .. Len(metas))]
             /\ headers_' \cup sm_start_time_' \cup running_ids_' \subseteq 1 .. Len(metas)
             /\ UNCHANGED <<done_, preempt_, running_ids_>>
  BY <1>7, WithoutFacts DEF removeSm
<1>8. ASSUME NEW r \in Resources, removeStatusIfNeeded(r) PROVE TypeOK'
  <2>1. r \in Threads /\ removeSm(r) /\ Relayed(r)
    BY <1>0, <1>8 DEF removeStatusIfNeeded
  <2>2. /\ work' \in Works(Len(metas)) /\ node' \in Maybe(Threads)
        /\ _status' \subseteq Ids /\ told' \in [Ids -> SUBSET Resources]
    BY <1>8, <1>d, <2>1 DEF removeStatusIfNeeded, Forget, Maybe
  <2>3. UNCHANGED <<metas, holders, pc, i, visit, undefined>>
    BY <1>8 DEF removeStatusIfNeeded
  <2> QED BY <1>7, <1>c, <2>1, <2>2, <2>3 DEF Works
<1>9. ASSUME NEW r \in Resources, stateMachineStatus(r) PROVE TypeOK'
  BY <1>0, <1>9 DEF stateMachineStatus, Maybe
<1>10. CASE Wake
  BY SMTT(20), <1>0, <1>10 DEF Wake, Ids
<1>11. CASE applyConstraints
  <2> DEFINE left == visit \cap headers_
  <2>1. left # {} /\ left \subseteq Nat
    BY <1>11 DEF applyConstraints
  <2>2. Min(left) \in left
    <3> HIDE DEF left
    <3> QED BY <2>1, MinFacts
  <2>3. Min(left) \in 1 .. Len(metas)
    BY <2>2
  <2>4. work' \in Works(Len(metas))
    <3>1. Min(left) \in Maybe(1 .. Len(metas))
      BY <2>3 DEF Maybe
    <3>2. CASE UNCHANGED <<pc, work>>
      BY <1>a, <3>2
    <3>3. CASE work' = [work EXCEPT ![Loop] = [id |-> Min(left), at |-> 0]]
      BY <1>0, <1>f, <1>g, <3>1, <3>3
    <3> QED BY <1>11, <3>2, <3>3 DEF applyConstraints
  <2>5. /\ UNCHANGED <<metas, holders, relays, records, selection, i, undefined>>
        /\ visit' \subseteq Ids /\ pc' \in {"constraints", "late"}
    BY <1>11 DEF applyConstraints
  <2> QED BY <2>4, <2>5 DEF Works
<1>12. CASE publishLateStatus
  <2>1. work' \in Works(Len(metas)) /\ node' \in Maybe(Threads)
    BY <1>0, <1>e, <1>g, <1>12 DEF publishLateStatus
  <2> QED BY <1>12, <2>1 DEF publishLateStatus, Works
<1>13. CASE LateIsRemoved
  <2>1. /\ work' \in Works(Len(metas)) /\ node' \in Maybe(Threads) /\ removeSm(Loop)
        /\ _status' \subseteq Ids /\ told' \in [Ids -> SUBSET Resources]
    BY <1>0, <1>d, <1>g, <1>13 DEF LateIsRemoved, Forget
  <2>2. /\ UNCHANGED <<metas, holders, thread, event, i, visit>>
        /\ pc' = "constraints" /\ undefined' \in BOOLEAN
    BY <1>13 DEF LateIsRemoved
  <2> QED BY <1>7, <2>1, <2>2 DEF Works
<1>14. (\A r \in Resources : getIdsPerPriorities(r) \in Seq(1 .. Len(metas)))
  BY IdsFacts
<1>15. CASE init
  <2>1. /\ ids_' = [r \in Resources |-> getIdsPerPriorities(r)]
        /\ done_' = Nothing /\ preempt_' = Nothing /\ pc' = "select" /\ i' = 1
        /\ UNCHANGED <<metas, holders, relays, work, records, visit, undefined>>
    BY <1>15 DEF init
  <2>2. ids_' \in [Resources -> Seq(1 .. Len(metas))] /\ i' \in Resources
    BY <1>0, <1>14, <2>1
  <2>3. done_' \in [Resources -> BOOLEAN] /\ preempt_' \in [Resources -> BOOLEAN]
    BY <2>1 DEF Nothing
  <2> QED BY <2>1, <2>2, <2>3
<1>16. NextTurn => i' \in Resources /\ pc' \in {"dispatch", "select"}
  BY <1>0 DEF NextTurn
<1>17. CASE NoCandidate
  BY <1>0, <1>16, <1>17 DEF NoCandidate
<1>18. CASE Candidate
  <2> DEFINE id == Head(ids_[i])
  <2>1. UNCHANGED <<metas, holders, relays, work, records, visit>>
    BY <1>18 DEF Candidate
  <2>2. /\ ids_' \in [Resources -> Seq(1 .. Len(metas))]
        /\ done_' \in [Resources -> BOOLEAN] /\ preempt_' \in [Resources -> BOOLEAN]
        /\ i' \in Resources /\ pc' \in {"select", "dispatch", "reinit"}
        /\ undefined' \in BOOLEAN
    <3>1. CASE undefined' = TRUE /\ UNCHANGED <<selection, pc, i>>
      BY <1>18, <3>1 DEF Candidate
    <3>2. CASE UNCHANGED undefined /\ selectSm(id)
      <4>1. done_' \in [Resources -> BOOLEAN]
        BY <3>2 DEF selectSm
      <4>2. ids_' \in [Resources -> Seq(1 .. Len(metas))]
        BY <3>2, CleanTyped DEF selectSm
      <4> QED BY <1>16, <3>2, <4>1, <4>2 DEF selectSm
    <3>3. CASE UNCHANGED undefined /\ removeSmFromSelection(id)
      BY <1>16, <3>3, WithoutFacts DEF removeSmFromSelection
    <3>4. CASE /\ UNCHANGED <<undefined, ids_, done_, i>>
               /\ preempt_' = [preempt_ EXCEPT ![i] = TRUE] /\ pc' = "reinit"
      BY <3>4
    <3> QED BY <1>18, <3>1, <3>2, <3>3, <3>4 DEF Candidate
  <2> QED BY <2>1, <2>2
<1>19. CASE reinit
  <2>1. ids_' \in [Resources -> Seq(1 .. Len(metas))]
    <3> DEFINE lists == [r \in Resources |-> getIdsPerPriorities(r)]
    <3>1. lists \in [Resources -> Seq(1 .. Len(metas))]
      BY <1>14
    <3>2. ids_' = Without(lists, Preempted)
      BY <1>19 DEF reinit
    <3> HIDE DEF lists
    <3> QED BY <3>1, <3>2, WithoutFacts
  <2> QED BY <1>0, <1>16, <1>19, <2>1 DEF reinit, Nothing
<1>20. NextResource => i' \in Resources /\ pc' \in {"sleep", "dispatch"}
  BY <1>0 DEF NextResource
<1>21. CASE Skip
  BY <1>0, <1>20, <1>21 DEF Skip
<1>22. CASE Replace
  <2>1. work' \in Works(Len(metas))
    BY <1>0, <1>f, <1>g, <1>22 DEF Replace
  <2> QED BY <1>22, <2>1 DEF Replace, Works
<1>23. CASE ReplacedIsRemoved
  <2>1. work' \in Works(Len(metas)) /\ removeSm(Loop)
    BY <1>0, <1>e, <1>g, <1>23 DEF ReplacedIsRemoved
  <2>2. UNCHANGED <<metas, holders, relays, i, visit, undefined>> /\ pc' = "preempted"
    BY <1>23 DEF ReplacedIsRemoved
  <2> QED BY <1>7, <2>1, <2>2 DEF Works
<1>24. CASE publishPreemptStatus
  <2>1. /\ work' \in Works(Len(metas)) /\ _status' \subseteq Ids
        /\ told' \in [Ids -> SUBSET Resources]
    BY <1>0, <1>d, <1>24 DEF publishPreemptStatus, Forget
  <2> QED BY <1>24, <2>1 DEF publishPreemptStatus, Works
<1>25. ids_[i] # <<>> => Head(ids_[i]) \in 1 .. Len(metas)
  OBVIOUS
<1>26. CASE SendCall
  <2>1. /\ work' \in Works(Len(metas)) /\ pc' \in {"send", "called", "sent"}
        /\ undefined' \in BOOLEAN
    <3> DEFINE id == Head(ids_[i])
    <3>1. CASE ids_[i] = <<>>
      BY <1>a, <1>26, <3>1 DEF SendCall
    <3>2. CASE ids_[i] # <<>>
      <4>1. PICK v : v = IF running_id_[i] = None /\ id \in state_machines_[i]
                         THEN id ELSE None
        OBVIOUS
      <4>2. v \in Maybe(1 .. Len(metas))
        BY <1>25, <3>2, <4>1 DEF Maybe
      <4>3. work' = [work EXCEPT ![Loop] = [id |-> v, at |-> 0]]
        BY <1>26, <3>2, <4>1, Zenon DEF SendCall
      <4>4. pc' \in {"called", "sent"} /\ UNCHANGED undefined
        BY <1>26, <3>2 DEF SendCall
      <4> QED BY <1>0, <1>f, <1>g, <4>2, <4>3, <4>4
    <3> QED BY <3>1, <3>2
  <2>2. last' \in [Resources -> {"due", "told", "lost"}]
    BY <1>26 DEF SendCall
  <2>3. UNCHANGED <<metas, state_machines_, running_id_, state_, lock, relays, records,
                    selection, i, visit>>
    BY <1>26 DEF SendCall
  <2> QED BY <2>1, <2>2, <2>3 DEF Works
<1>31. CASE KeepId
  BY <1>31 DEF KeepId
<1>32. CASE ResetState
  BY <1>32 DEF ResetState
<1>27. CASE SendReturns
  <2>1. work' \in Works(Len(metas))
    BY <1>0, <1>d, <1>27 DEF SendReturns
  <2>2. running_id_' \in [Resources -> Maybe(1 .. Len(metas))]
    <3>1. CASE work[Loop].id = None
      BY <1>27, <3>1 DEF SendReturns
    <3>2. CASE work[Loop].id # None
      <4>1. work[Loop].id \in Maybe(1 .. Len(metas))
        BY <1>0
      <4>2. running_id_' = [running_id_ EXCEPT ![i] = work[Loop].id]
        BY <1>27, <3>2 DEF SendReturns
      <4> QED BY <4>1, <4>2
    <3> QED BY <3>1, <3>2
  <2>3. /\ headers_' \cup sm_start_time_' \cup running_ids_' \subseteq 1 .. Len(metas)
        /\ i' \in Resources /\ undefined' \in BOOLEAN
        /\ pc' \in {"sent", "sleep", "dispatch"}
    <3>1. CASE ids_[i] = <<>>
      BY <1>27, <3>1 DEF SendReturns
    <3>2. CASE ids_[i] # <<>>
      <4>1. /\ sm_start_time_' = sm_start_time_ \cup {Head(ids_[i])}
            /\ running_ids_' = running_ids_ \cup {Head(ids_[i])}
            /\ NextResource
            /\ UNCHANGED <<headers_, undefined>>
        BY <1>27, <3>2 DEF SendReturns
      <4>2. i' \in Resources /\ pc' \in {"sleep", "dispatch"}
        BY <1>20, <4>1
      <4>3. Head(ids_[i]) \in 1 .. Len(metas)
        BY <1>25, <3>2
      <4> QED BY <4>1, <4>2, <4>3
    <3> QED BY <3>1, <3>2
  <2>4. UNCHANGED <<metas, state_machines_, state_, last, lock, relays, selection, visit>>
    BY <1>27 DEF SendReturns
  <2> QED BY <2>1, <2>2, <2>3, <2>4 DEF Works
<1>28. CASE UNCHANGED vars
  BY <1>28 DEF vars
<1>29. CASE Next
  <2>1. CASE Manager
    BY <2>1, <1>0, <1>1, <1>2, <1>10, <1>11, <1>12, <1>13, <1>15, <1>17, <1>18, <1>19, <1>21,
       <1>22, <1>23, <1>24, <1>26, <1>27, <1>31, <1>32 DEF Manager, Cancels
  <2>2. ASSUME NEW r \in Resources, Client(r) PROVE TypeOK'
    <3>1. r \in Threads
      BY <1>0
    <3> QED BY <2>2, <3>1, <1>1, <1>2, <1>6, <1>8, <1>9, <1>30 DEF Client, Cancels
  <2>3. ASSUME NEW r \in Resources, Resource(r) PROVE TypeOK'
    BY <2>3, <1>5, StatusesAssumption DEF Resource, Obeys, Events
  <2>4. CASE Services
    BY <2>4, <1>3, <1>4 DEF Services
  <2> QED BY <1>29, <2>1, <2>2, <2>3, <2>4 DEF Next
<1> QED BY <1>28, <1>29

\* The type invariant of the synchronizer: the lists, flags and records of the manager,
\* what its threads are at, and the holders, for any number of machines and resources.
THEOREM MetaTypeCorrect == Spec => []TypeOK
<1>1. Init => TypeOK
  BY TypeInit
<1>2. TypeOK /\ [Next]_vars => TypeOK'
  BY TypeNext
<1> QED BY <1>1, <1>2, PTL DEF Spec

(***************************************************************************)
(* The selection comes to an end.                                          *)
(***************************************************************************)

\* Removing the machine whose turn it is brings the selection nearer to its end.
LEMMA RemovalProgresses ==
  ASSUME TypeOK, ids_[i] # <<>>, removeSmFromSelection(Head(ids_[i]))
  PROVE  NearerToTheEnd
<1>1. PICK S : S = 1 .. Len(metas)
  OBVIOUS
<1>2. PICK lists \in [Resources -> Seq(S)] : lists = ids_
  BY <1>1 DEF TypeOK
<1>3. i \in Resources /\ lists[i] \in Seq(S) /\ lists[i] # <<>>
  BY <1>2 DEF TypeOK
<1>4. PICK id : id = Head(lists[i])
  OBVIOUS
<1>5. /\ ids_' = Without(lists, {id})
      /\ \A r \in Resources : ids_'[r] = Erased(lists[r], {id})
  BY <1>2, <1>4, WithoutFacts DEF removeSmFromSelection
<1>6. \A r \in Resources : Len(Erased(lists[r], {id})) <= Len(lists[r])
  BY ErasedFacts
<1>7. Len(Erased(lists[i], {id})) < Len(lists[i])
  <2>1. 1 \in 1 .. Len(lists[i]) /\ lists[i][1] = id
    BY <1>3, <1>4
  <2>2. \E k \in 1 .. Len(lists[i]) : lists[i][k] \in {id}
    BY <2>1
  <2> QED BY <1>3, <2>2, ErasedFacts
<1>8. \A r \in Resources : done_[r] => done_'[r]
  BY DEF removeSmFromSelection
<1> QED BY <1>2, <1>3, <1>5, <1>6, <1>7, <1>8 DEF NearerToTheEnd

\* And so does selecting it.
LEMMA SelectionOfOneProgresses ==
  ASSUME TypeOK, ids_[i] # <<>>, ~ done_[i], selectSm(Head(ids_[i]))
  PROVE  NearerToTheEnd
<1>1. PICK S : S = 1 .. Len(metas)
  OBVIOUS
<1>2. ids_ \in [Resources -> Seq(S)] /\ i \in Resources
  BY <1>1 DEF TypeOK
<1>3. ids_' = clean(ids_, done_')
  BY DEF selectSm
<1>4. \A r \in Resources : Len(ids_'[r]) <= Len(ids_[r])
  BY <1>2, <1>3, CleanTyped
<1>5. \A r \in Resources : done_'[r] = (done_[r] \/ Head(ids_[i]) \in ToSet(ids_[r]))
  BY DEF selectSm
<1>6. Head(ids_[i]) \in ToSet(ids_[i])
  <2>1. 1 \in DOMAIN ids_[i] /\ ids_[i][1] = Head(ids_[i])
    BY <1>2
  <2> QED BY <2>1 DEF ToSet
<1>7. done_'[i] /\ ~ done_[i]
  BY <1>2, <1>5, <1>6
<1>8. \A r \in Resources : done_[r] => done_'[r]
  BY <1>5
<1> QED BY <1>2, <1>4, <1>7, <1>8 DEF NearerToTheEnd

LEMMA NoCandidateProgresses ==
  ASSUME TypeOK, NoCandidate, ~ done_[i]
  PROVE  NearerToTheEnd
<1>1. /\ i \in Resources /\ ids_' = ids_ /\ done_' = [done_ EXCEPT ![i] = TRUE]
      /\ done_ \in [Resources -> BOOLEAN]
  BY DEF TypeOK, NoCandidate
<1>2. \A r \in Resources : Len(ids_[r]) \in Nat
  BY DEF TypeOK
<1>3. \A r \in Resources : Len(ids_'[r]) <= Len(ids_[r]) /\ (done_[r] => done_'[r])
  BY <1>1, <1>2
<1>4. done_'[i] /\ ~ done_[i]
  BY <1>1
<1> QED BY <1>1, <1>3, <1>4 DEF NearerToTheEnd

\* A mark is never taken back, and a turn marks one more machine or goes on.
LEMMA SelectionStep ==
  ASSUME TypeOK, NoCandidate \/ Candidate \/ reinit
  PROVE  /\ Marked(preempt_) \subseteq Marked(preempt_')
         /\ (NoCandidate \/ Candidate) /\ ~ done_[i] /\ ~ undefined' =>
              Marked(preempt_) # Marked(preempt_') \/ NearerToTheEnd
<1>1. CASE NoCandidate
  <2>1. preempt_' = preempt_
    BY <1>1 DEF NoCandidate
  <2> QED BY <1>1, <2>1, NoCandidateProgresses
<1>2. CASE Candidate
  <2>1. ids_[i] # <<>> /\ ~ done_[i] /\ i \in Resources
    BY <1>2 DEF Candidate, TypeOK
  <2>2. CASE undefined' = TRUE /\ UNCHANGED <<selection, pc, i>>
    BY <2>2 DEF selection
  <2>3. CASE selectSm(Head(ids_[i]))
    <3>1. preempt_' = preempt_
      BY <2>3 DEF selectSm
    <3> QED BY <2>1, <2>3, <3>1, SelectionOfOneProgresses
  <2>4. CASE removeSmFromSelection(Head(ids_[i]))
    <3>1. preempt_' = preempt_
      BY <2>4 DEF removeSmFromSelection
    <3> QED BY <2>1, <2>4, <3>1, RemovalProgresses
  <2>5. CASE ~ preempt_[i] /\ preempt_' = [preempt_ EXCEPT ![i] = TRUE]
    <3>1. preempt_ \in [Resources -> BOOLEAN]
      BY DEF TypeOK
    <3>2. i \in Marked(preempt_') /\ i \notin Marked(preempt_)
      BY <2>1, <2>5, <3>1 DEF Marked
    <3>3. Marked(preempt_) \subseteq Marked(preempt_')
      BY <2>5, <3>1 DEF Marked
    <3> QED BY <3>2, <3>3
  <2> QED BY <1>2, <2>2, <2>3, <2>4, <2>5 DEF Candidate
<1>3. CASE reinit
  <2>1. Marked(preempt_) \subseteq Marked(preempt_')
    BY <1>3 DEF reinit, Marked
  <2>2. pc = "reinit" /\ ~ NoCandidate /\ ~ Candidate
    BY <1>3 DEF reinit, NoCandidate, Candidate
  <2> QED BY <2>1, <2>2
<1> QED BY <1>1, <1>2, <1>3

\* The for loop of the selection, over the resources that are not done, ends: for each
\* machine to replace it starts again once, and in between what it has left decreases.
THEOREM SelectionComesToAnEnd == Spec => SelectionProgresses
<1>1. TypeOK /\ [Next]_vars =>
        [/\ NoCandidate \/ Candidate \/ reinit => Marked(preempt_) \subseteq Marked(preempt_')
         /\ (NoCandidate \/ Candidate) /\ ~ done_[i] /\ ~ undefined' =>
              Marked(preempt_) # Marked(preempt_') \/ NearerToTheEnd]_vars
  BY SelectionStep
<1> QED BY <1>1, MetaTypeCorrect, PTL DEF Spec, SelectionProgresses

(***************************************************************************)
(* The locks.                                                              *)
(***************************************************************************)

\* The mutex of a holder belongs to the thread whose cancellation is at this holder.  The
\* loop cancels when it removes a machine and the thread of a client within publishStatus,
\* under the mutex of the node.  A status is relayed for a machine that is held to run, and
\* if it is the last one no other is due.  One is due, or was noted while the holder held
\* nothing to run, only for a machine that runs there or that the loop is sending.
LocksInWork == \A r \in Resources, t \in Threads : lock[r] = t => work[t].at = r
LoopWork == pc \notin {"cancel", "replace"} => work[Loop].at = 0
ClientWork ==
  \A r \in Resources : IF thread[r] = "cancel" THEN node = r ELSE work[r].at = 0
Relays ==
  \A r \in Resources :
    /\ thread[r] \in {"relay", "cancel", "erase"} => running_id_[r] # None
    /\ thread[r] # "idle" /\ event[r] \in Final => last[r] # "due"
    /\ thread[r] = "erase" => last[r] # "due"
Sends == pc \in {"called", "kept", "sent"} /\ work[Loop].id # None
Sending ==
  \A r \in Resources : last[r] = "due" \/ thread[r] = "noted" =>
    running_id_[r] # None \/ (Sends /\ i = r)
Locks == LocksInWork /\ LoopWork /\ ClientWork /\ Relays /\ Sending

LEMMA LocksInit == Init => Locks
<1> SUFFICES ASSUME Init PROVE Locks
  OBVIOUS
<1>1. N \in Nat \ {0} /\ Resources \subseteq Threads /\ None \notin Threads /\ Loop \in Threads
  BY NAssumption, NoneAssumption DEF Resources, Threads, Loop
<1>2. /\ lock = [r \in Resources |-> None] /\ thread = [r \in Resources |-> "idle"]
      /\ work = [t \in Threads |-> NoWork] /\ NoWork.at = 0
  BY DEF Init, NoWork
<1>3. last = [r \in Resources |-> "told"]
  BY DEF Init
<1> QED BY <1>1, <1>2, <1>3 DEF Locks, LocksInWork, LoopWork, ClientWork, Relays, Sending

\* Nobody else waits at the holder a thread is at while it works there.
LEMMA LocksOfCancel ==
  ASSUME TypeOK, Locks, NEW t \in Threads, Cancels(t)
  PROVE  Locks'
<1>1. PICK r \in Resources : r = work[t].at
  BY DEF Cancels, CancelHolder, ResultIsIn
<1>2. /\ N \in Nat /\ Resources = 1 .. N /\ Threads = 0 .. N /\ None \notin Threads
      /\ Loop = 0
  BY NAssumption, NoneAssumption DEF Resources, Threads, Loop
<1>3. /\ lock \in [Resources -> Maybe(Threads)] /\ DOMAIN work = Threads
      /\ \A u \in Threads : work[u].at \in 0 .. N + 1
      /\ \A u \in Threads : work[u] \in [id : Maybe(1 .. Len(metas)), at : 0 .. N + 1]
  BY DEF TypeOK
<1>4. UNCHANGED <<pc, i, thread, node, event, running_id_, last>>
  BY DEF Cancels, CancelHolder, ResultIsIn, relays
<1>5. /\ \A u \in Threads \ {t} : work'[u] = work[u]
      /\ work'[t].at # 0
  <2>1. CASE work' = work
    BY <1>1, <1>2, <2>1
  <2>2. CASE work' = [work EXCEPT ![t].at = @ + 1]
    BY <1>1, <1>2, <1>3, <2>2
  <2> QED BY <2>1, <2>2 DEF Cancels, CancelHolder, ResultIsIn, Erase
<1>6. LocksInWork'
  <2> SUFFICES ASSUME NEW q \in Resources, NEW u \in Threads, lock'[q] = u
               PROVE  work'[u].at = q
    BY DEF LocksInWork
  <2>1. CASE lock' = [lock EXCEPT ![r] = t] /\ work' = work
    <3>1. CASE q = r
      BY <1>1, <1>3, <2>1, <3>1
    <3>2. CASE q # r
      BY <1>3, <2>1, <3>2 DEF Locks, LocksInWork
    <3> QED BY <3>1, <3>2
  <2>2. CASE lock' = lock /\ lock[r] = None
    <3>1. lock[q] = u /\ work[u].at = q
      BY <2>2 DEF Locks, LocksInWork
    <3>2. u # t
      BY <1>1, <1>2, <2>2, <3>1
    <3> QED BY <1>5, <3>1, <3>2
  <2>3. CASE lock' = [lock EXCEPT ![r] = None]
    <3>1. q # r
      BY <1>2, <1>3, <2>3
    <3>2. lock[q] = u
      BY <1>3, <2>3, <3>1
    <3>3. work[u].at = q
      BY <3>2 DEF Locks, LocksInWork
    <3>4. u # t
      BY <1>1, <3>1, <3>3
    <3> QED BY <1>5, <3>3, <3>4
  <2> QED BY <1>1, <2>1, <2>2, <2>3 DEF Cancels, CancelHolder, ResultIsIn
<1>7. work[t].at # 0
  BY <1>1, <1>2
<1>8. LoopWork'
  <2>1. t = Loop => pc \in {"cancel", "replace"}
    BY <1>7 DEF Locks, LoopWork
  <2>2. t # Loop => work'[Loop] = work[Loop]
    BY <1>2, <1>5
  <2> QED BY <1>4, <2>1, <2>2 DEF Locks, LoopWork
<1>9. ClientWork'
  <2> SUFFICES ASSUME NEW q \in Resources
               PROVE  IF thread'[q] = "cancel" THEN node' = q ELSE work'[q].at = 0
    BY DEF ClientWork
  <2>1. q \in Threads
    BY <1>2
  <2>2. CASE q = t
    BY <1>4, <1>7, <2>2 DEF Locks, ClientWork
  <2>3. CASE q # t
    BY <1>4, <1>5, <2>1, <2>3 DEF Locks, ClientWork
  <2> QED BY <2>2, <2>3
<1>10. Relays'
  BY <1>4 DEF Locks, Relays
<1>11. Sending'
  <2>1. work'[Loop].id = work[Loop].id
    <3>1. CASE work' = work
      BY <3>1
    <3>2. CASE work' = [work EXCEPT ![t].at = @ + 1]
      BY <1>2, <1>3, <3>2
    <3> QED BY <3>1, <3>2 DEF Cancels, CancelHolder, ResultIsIn, Erase
  <2> QED BY <1>4, <2>1 DEF Locks, Sending, Sends
<1> QED BY <1>6, <1>8, <1>9, <1>10, <1>11 DEF Locks

\* What the thread of a client does but for its cancellations.
LEMMA LocksOfClient ==
  ASSUME TypeOK, Locks, NEW r \in Resources,
         \/ RelayStatus(r) \/ publishStatus(r) \/ removeStatusIfNeeded(r)
         \/ stateMachineStatus(r) \/ \E e \in Events : statusCallback(r, e)
  PROVE  Locks'
<1>1. /\ N \in Nat /\ Resources = 1 .. N /\ Threads = 0 .. N /\ None \notin Threads
      /\ Loop = 0 /\ r \in Threads /\ r # Loop
  BY NAssumption, NoneAssumption DEF Resources, Threads, Loop
<1>2. /\ DOMAIN work = Threads /\ DOMAIN thread = Resources /\ DOMAIN event = Resources
      /\ DOMAIN last = Resources /\ DOMAIN running_id_ = Resources
  BY DEF TypeOK
<1>3. lock' = lock /\ pc' = pc /\ i' = i
  BY DEF RelayStatus, publishStatus, removeStatusIfNeeded, stateMachineStatus,
         statusCallback, holders
<1>4. /\ \A q \in Resources \ {r} :
           /\ thread'[q] = thread[q] /\ event'[q] = event[q] /\ last'[q] = last[q]
           /\ running_id_'[q] = running_id_[q]
      /\ \A t \in Threads \ {r} : work'[t] = work[t]
  <2>1. CASE \E e \in Events : statusCallback(r, e)
    BY <1>2, <2>1 DEF statusCallback
  <2> QED BY <1>2, <2>1 DEF RelayStatus, publishStatus, removeStatusIfNeeded,
                            stateMachineStatus, Relayed, holders
<1> DEFINE Relaying ==
             /\ thread'[r] \in {"relay", "cancel", "erase"} => running_id_'[r] # None
             /\ thread'[r] # "idle" /\ event'[r] \in Final => last'[r] # "due"
             /\ thread'[r] = "erase" => last'[r] # "due"
             /\ last'[r] = "due" \/ thread'[r] = "noted" =>
                  running_id_'[r] # None \/ (Sends /\ i = r)
<1>5. /\ IF thread'[r] = "cancel" THEN node' = r ELSE work'[r].at = 0
      /\ node' = node \/ (node = None /\ node' = r) \/ (node = r /\ thread[r] = "cancel")
      /\ thread[r] # "cancel" => work[r].at = 0
      /\ thread[r] = "cancel" => work[r].at \in {0, N + 1}
      /\ Relaying
  <2>1. thread[r] # "cancel" => work[r].at = 0
    BY DEF Locks, ClientWork
  <2>2. thread[r] = "cancel" => node = r
    BY DEF Locks, ClientWork
  <2>0. /\ thread[r] \in {"relay", "cancel", "erase"} => running_id_[r] # None
        /\ thread[r] # "idle" /\ event[r] \in Final => last[r] # "due"
        /\ thread[r] = "erase" => last[r] # "due"
        /\ last[r] = "due" \/ thread[r] = "noted" =>
             running_id_[r] # None \/ (Sends /\ i = r)
    BY DEF Locks, Relays, Sending
  <2>3. CASE publishStatus(r)
    <3>1. /\ thread[r] = "relay" /\ node = None /\ UNCHANGED <<running_id_, last>>
          /\ thread'[r] = "cancel" => node' = r /\ UNCHANGED event
          /\ thread'[r] # "cancel" => Relayed(r) /\ UNCHANGED <<node, work>>
          /\ node' = node \/ node' = r
      BY <1>2, <2>3 DEF publishStatus, holders, Relayed
    <3>3. thread'[r] # "cancel" =>
            thread'[r] = "idle" \/ (thread'[r] = "erase" /\ event[r] \in Final)
      BY <1>2, <3>1 DEF Relayed
    <3>4. Relaying
      <4>1. CASE thread'[r] = "cancel"
        BY <2>0, <3>1, <4>1
      <4>2. CASE thread'[r] # "cancel"
        BY <2>0, <3>1, <3>3, <4>2
      <4> QED BY <4>1, <4>2
    <3> HIDE DEF Relaying
    <3> QED BY <2>1, <2>2, <3>1, <3>3, <3>4
  <2>4. CASE removeStatusIfNeeded(r)
    <3>1. /\ thread[r] = "cancel" /\ UNCHANGED <<running_id_, last>> /\ Relayed(r)
          /\ work'[r] = NoWork /\ work[r].at = N + 1 /\ node' = None
      BY <1>1, <1>2, <2>4 DEF removeStatusIfNeeded, holders, removeSm
    <3>3. (thread'[r] = "erase" /\ event[r] \in Final) \/ thread'[r] = "idle"
      BY <1>2, <3>1 DEF Relayed
    <3>4. Relaying
      BY <2>0, <3>1, <3>3
    <3> HIDE DEF Relaying
    <3> QED BY <2>1, <2>2, <3>1, <3>3, <3>4 DEF NoWork
  <2>5. CASE stateMachineStatus(r)
    <3>1. /\ thread[r] = "erase" /\ thread'[r] = "idle" /\ UNCHANGED <<node, work>>
          /\ UNCHANGED last
      BY <1>2, <2>5 DEF stateMachineStatus
    <3>2. Relaying
      BY <2>0, <3>1
    <3> HIDE DEF Relaying
    <3> QED BY <2>1, <2>2, <3>1, <3>2
  <2>7. CASE RelayStatus(r)
    <3>1. /\ thread[r] = "noted" /\ UNCHANGED <<node, work, running_id_, last>>
          /\ \/ thread'[r] = "idle"
             \/ thread'[r] = "relay" /\ running_id_[r] # None /\ UNCHANGED event
      BY <1>2, <2>7 DEF RelayStatus, holders
    <3>2. Relaying
      BY <2>0, <3>1
    <3> HIDE DEF Relaying
    <3> QED BY <2>1, <2>2, <3>1, <3>2
  <2>6. CASE \E e \in Events : statusCallback(r, e)
    <3>0. PICK e \in Events : statusCallback(r, e)
      BY <2>6
    <3>1. /\ thread[r] = "idle" /\ UNCHANGED <<node, work, running_id_>>
          /\ last[r] = "due"
      BY <3>0 DEF statusCallback
    <3>2. e \in Final => last'[r] # "due"
      BY <1>2, <3>0 DEF statusCallback
    <3>3. \/ thread'[r] = "idle"
          \/ /\ thread'[r] = IF running_id_[r] = None THEN "noted" ELSE "relay"
             /\ event'[r] = e
      BY <1>2, <3>0, <3>1 DEF statusCallback
    <3>4. Relaying
      BY <2>0, <3>1, <3>2, <3>3
    <3>5. thread'[r] # "cancel"
      BY <3>3
    <3> HIDE DEF Relaying
    <3> QED BY <2>1, <3>1, <3>4, <3>5
  <2> QED BY <2>3, <2>4, <2>5, <2>6, <2>7
<1>6. LocksInWork'
  <2> SUFFICES ASSUME NEW q \in Resources, NEW t \in Threads, lock'[q] = t
               PROVE  work'[t].at = q
    BY DEF LocksInWork
  <2>1. work[t].at = q /\ q \in 1 .. N
    BY <1>1, <1>3 DEF Locks, LocksInWork
  <2>2. t = r => work[r].at \in {0, N + 1}
    BY <1>5
  <2>3. t # r
    BY <1>1, <2>1, <2>2
  <2> QED BY <1>4, <2>1, <2>3
<1>7. LoopWork'
  BY <1>1, <1>3, <1>4 DEF Locks, LoopWork, Threads
<1>8. ClientWork'
  <2> SUFFICES ASSUME NEW q \in Resources
               PROVE  IF thread'[q] = "cancel" THEN node' = q ELSE work'[q].at = 0
    BY DEF ClientWork
  <2>1. CASE q = r
    BY <1>5, <2>1
  <2>2. CASE q # r
    <3>1. q \in Threads /\ thread'[q] = thread[q] /\ work'[q] = work[q] /\ q # None
      BY <1>1, <1>4, <2>2
    <3>2. IF thread[q] = "cancel" THEN node = q ELSE work[q].at = 0
      BY DEF Locks, ClientWork
    <3>3. node = q => node' = q
      BY <1>5, <2>2, <3>1
    <3> QED BY <3>1, <3>2, <3>3
  <2> QED BY <2>1, <2>2
<1>10. Sends' <=> Sends
  BY <1>1, <1>3, <1>4 DEF Sends, Threads
<1>9. Relays' /\ Sending'
  <2> SUFFICES ASSUME NEW q \in Resources
               PROVE  /\ thread'[q] \in {"relay", "cancel", "erase"} => running_id_'[q] # None
                      /\ thread'[q] # "idle" /\ event'[q] \in Final => last'[q] # "due"
                      /\ thread'[q] = "erase" => last'[q] # "due"
                      /\ last'[q] = "due" \/ thread'[q] = "noted" =>
                           running_id_'[q] # None \/ (Sends /\ i = q)
    BY <1>3, <1>10 DEF Relays, Sending
  <2>1. CASE q = r
    BY <1>5, <2>1
  <2>2. CASE q # r
    BY <1>4, <2>2 DEF Locks, Relays, Sending
  <2> QED BY <2>1, <2>2
<1> QED BY <1>6, <1>7, <1>8, <1>9 DEF Locks

\* The loop works at no holder but in its two cancellations.
LEMMA LocksOfLoop ==
  ASSUME TypeOK, Locks,
         \/ Wake \/ applyConstraints \/ publishLateStatus \/ LateIsRemoved
         \/ init \/ NoCandidate \/ Candidate \/ reinit
         \/ Skip \/ Replace \/ ReplacedIsRemoved \/ publishPreemptStatus
         \/ SendCall \/ KeepId \/ ResetState \/ SendReturns
  PROVE  Locks'
<1> USE DEF holders, relays, records, selection
<1>1. /\ N \in Nat /\ Resources = 1 .. N /\ Threads = 0 .. N /\ None \notin Threads
      /\ Loop = 0 /\ Loop \in Threads /\ None \notin 1 .. N
  BY NAssumption, NoneAssumption DEF Resources, Threads, Loop
<1>2. /\ DOMAIN work = Threads /\ DOMAIN running_id_ = Resources /\ DOMAIN last = Resources
      /\ i \in Resources
  BY DEF TypeOK
<1>3. UNCHANGED <<lock, thread, event>>
  BY DEF Wake, applyConstraints, publishLateStatus, LateIsRemoved, init, NoCandidate,
         Candidate, reinit, Skip, Replace, ReplacedIsRemoved, publishPreemptStatus,
         SendCall, KeepId, ResetState, SendReturns
<1>4. \A t \in Threads \ {Loop} : work'[t] = work[t]
  BY <1>2 DEF Wake, applyConstraints, publishLateStatus, LateIsRemoved, init, NoCandidate,
         Candidate, reinit, Skip, Replace, ReplacedIsRemoved, publishPreemptStatus,
         SendCall, KeepId, ResetState, SendReturns
<1>5. work[Loop].at \in {0, N + 1}
  BY DEF Wake, applyConstraints, publishLateStatus, LateIsRemoved, init, NoCandidate,
         Candidate, reinit, Skip, Replace, ReplacedIsRemoved, publishPreemptStatus,
         SendCall, KeepId, ResetState, SendReturns, Locks, LoopWork, removeSm
<1>6. LocksInWork'
  <2> SUFFICES ASSUME NEW q \in Resources, NEW t \in Threads, lock'[q] = t
               PROVE  work'[t].at = q
    BY DEF LocksInWork
  <2>1. work[t].at = q /\ q \in 1 .. N
    BY <1>1, <1>3 DEF Locks, LocksInWork
  <2>2. t # Loop
    BY <1>1, <1>5, <2>1
  <2> QED BY <1>4, <2>1, <2>2
<1>7. LoopWork'
  <2>1. CASE Wake \/ init \/ NoCandidate \/ Candidate \/ reinit \/ Skip \/ KeepId \/ ResetState
    <3>1. UNCHANGED work /\ pc \notin {"cancel", "replace"}
      BY <2>1 DEF Wake, init, NoCandidate, Candidate, reinit, Skip, KeepId, ResetState
    <3> QED BY <3>1 DEF Locks, LoopWork
  <2>2. CASE publishLateStatus \/ Replace
    BY <2>2 DEF publishLateStatus, Replace, LoopWork
  <2>3. CASE LateIsRemoved \/ publishPreemptStatus \/ SendReturns
    <3>1. work'[Loop] = NoWork
      BY <1>1, <1>2, <2>3 DEF LateIsRemoved, publishPreemptStatus, SendReturns
    <3> QED BY <3>1 DEF LoopWork, NoWork
  <2>4. CASE ReplacedIsRemoved
    <3>1. work'[Loop].at = 0
      BY <1>1, <2>4 DEF ReplacedIsRemoved, TypeOK
    <3> QED BY <3>1 DEF LoopWork
  <2>5. CASE applyConstraints
    <3>1. CASE UNCHANGED <<pc, work>>
      BY <2>5, <3>1 DEF applyConstraints, Locks, LoopWork
    <3>2. CASE work'[Loop].at = 0
      BY <3>2 DEF LoopWork
    <3> QED BY <1>1, <1>2, <2>5, <3>1, <3>2 DEF applyConstraints
  <2>6. CASE SendCall
    <3>1. pc \notin {"cancel", "replace"}
      BY <2>6 DEF SendCall
    <3>2. CASE UNCHANGED <<work, pc>>
      BY <3>1, <3>2 DEF Locks, LoopWork
    <3>3. CASE work'[Loop].at = 0
      BY <3>3 DEF LoopWork
    <3>4. CASE ids_[i] # <<>>
      BY <1>1, <1>2, <2>6, <3>3, <3>4 DEF SendCall
    <3> QED BY <2>6, <3>2, <3>4 DEF SendCall
  <2> QED BY <2>1, <2>2, <2>3, <2>4, <2>5, <2>6
<1>8. node' = node \/ (node = None /\ node' = Loop) \/ (node = Loop /\ node' = None)
  BY DEF Wake, applyConstraints, publishLateStatus, LateIsRemoved, init, NoCandidate,
         Candidate, reinit, Skip, Replace, ReplacedIsRemoved, publishPreemptStatus,
         SendCall, KeepId, ResetState, SendReturns
<1>9. ClientWork'
  <2> SUFFICES ASSUME NEW q \in Resources
               PROVE  IF thread'[q] = "cancel" THEN node' = q ELSE work'[q].at = 0
    BY DEF ClientWork
  <2>1. IF thread[q] = "cancel" THEN node = q ELSE work[q].at = 0
    BY DEF Locks, ClientWork
  <2>2. q \in Threads \ {Loop} /\ q # None
    BY <1>1
  <2> QED BY <1>3, <1>4, <1>8, <2>1, <2>2
<1>10. Relays' /\ Sending'
  <2> DEFINE Due(q) == last'[q] = "due" \/ thread[q] = "noted"
  <2> SUFFICES ASSUME NEW q \in Resources
               PROVE  /\ thread[q] \in {"relay", "cancel", "erase"} => running_id_'[q] # None
                      /\ thread[q] # "idle" /\ event[q] \in Final => last'[q] # "due"
                      /\ thread[q] = "erase" => last'[q] # "due"
                      /\ Due(q) => running_id_'[q] # None \/ (Sends' /\ i' = q)
    BY <1>3 DEF Relays, Sending
  <2>1. /\ thread[q] \in {"relay", "cancel", "erase"} => running_id_[q] # None
        /\ thread[q] # "idle" /\ event[q] \in Final => last[q] # "due"
        /\ thread[q] = "erase" => last[q] # "due"
        /\ last[q] = "due" \/ thread[q] = "noted" => running_id_[q] # None \/ (Sends /\ i = q)
    BY DEF Locks, Relays, Sending
  <2>2. CASE SendCall
    <3>1. running_id_' = running_id_ /\ ~ Sends /\ i' = i
      BY <2>2 DEF SendCall, Sends
    <3>2. CASE last' = last
      BY <2>1, <3>1, <3>2
    <3>3. CASE last' # last
      <4>1. /\ running_id_[i] = None /\ last' = [last EXCEPT ![i] = "due"] /\ pc' = "called"
            /\ ids_[i] # <<>>
            /\ work' = [work EXCEPT ![Loop] = [id |-> Head(ids_[i]), at |-> 0]]
        BY <2>2, <3>3 DEF SendCall
      <4>2. CASE q # i
        <5>1. last'[q] = last[q]
          BY <1>2, <4>1, <4>2
        <5> QED BY <2>1, <3>1, <5>1
      <4>3. CASE q = i
        <5>1. thread[q] \in {"idle", "noted", "relay", "cancel", "erase"}
          BY DEF TypeOK
        <5>2. thread[q] = "idle"
          BY <2>1, <3>1, <4>1, <4>3, <5>1
        <5>3. Head(ids_[i]) \in Nat /\ None \notin Nat
          BY <1>2, <4>1, NoneAssumption DEF TypeOK
        <5>4. work'[Loop].id = Head(ids_[i])
          BY <1>1, <1>2, <4>1
        <5>5. Sends'
          BY <4>1, <5>3, <5>4 DEF Sends
        <5> QED BY <3>1, <4>3, <5>2, <5>5
      <4> QED BY <4>2, <4>3
    <3> QED BY <3>2, <3>3
  <2>3. CASE SendReturns
    <3>1. last' = last
      BY <2>3 DEF SendReturns
    <3>2. CASE work[Loop].id = None
      <4>1. running_id_' = running_id_ /\ ~ Sends
        BY <2>3, <3>2 DEF SendReturns, Sends
      <4> QED BY <2>1, <3>1, <4>1
    <3>3. CASE work[Loop].id # None
      <4>1. running_id_' = [running_id_ EXCEPT ![i] = work[Loop].id]
        BY <2>3, <3>3 DEF SendReturns
      <4>2. running_id_'[q] = IF q = i THEN work[Loop].id ELSE running_id_[q]
        BY <1>2, <4>1
      <4> QED BY <2>1, <3>1, <3>3, <4>2
    <3> QED BY <3>2, <3>3
  <2>4. CASE KeepId \/ ResetState
    <3>1. UNCHANGED <<running_id_, last, i, work>> /\ pc' \in {"kept", "sent"}
      BY <2>4 DEF KeepId, ResetState
    <3>2. Sends => Sends'
      BY <3>1 DEF Sends
    <3> QED BY <2>1, <3>1, <3>2
  <2>5. CASE ~ SendCall /\ ~ SendReturns /\ ~ KeepId /\ ~ ResetState
    <3>1. UNCHANGED <<running_id_, last>> /\ pc \notin {"called", "kept", "sent"}
      BY <2>5 DEF Wake, applyConstraints, publishLateStatus, LateIsRemoved, init,
         NoCandidate, Candidate, reinit, Skip, Replace, ReplacedIsRemoved,
         publishPreemptStatus
    <3>2. ~ Sends
      BY <3>1 DEF Sends
    <3> QED BY <2>1, <3>1, <3>2
  <2> QED BY <2>2, <2>3, <2>4, <2>5
<1> QED BY <1>6, <1>7, <1>9, <1>10 DEF Locks

LEMMA LocksNext == TypeOK /\ Locks /\ [Next]_vars => Locks'
<1> SUFFICES ASSUME TypeOK, Locks, [Next]_vars PROVE Locks'
  OBVIOUS
<1>1. Resources \subseteq Threads /\ Loop \in Threads
  BY NAssumption DEF Resources, Threads, Loop
<1>2. CASE UNCHANGED vars
  BY <1>2 DEF vars, holders, relays, Locks, LocksInWork, LoopWork, ClientWork, Relays,
              Sending, Sends
<1>3. CASE Manager
  <2>1. CASE Cancels(Loop)
    BY <1>1, <2>1, LocksOfCancel
  <2> QED BY <1>3, <2>1, LocksOfLoop DEF Manager
<1>4. ASSUME NEW r \in Resources, Client(r) PROVE Locks'
  <2>1. CASE Cancels(r)
    BY <1>1, <2>1, LocksOfCancel
  <2> QED BY <1>4, <2>1, LocksOfClient DEF Client
<1>5. ASSUME NEW r \in Resources, Resource(r) PROVE Locks'
  <2>1. \E e \in Events : statusCallback(r, e)
    BY <1>5, StatusesAssumption DEF Resource, Obeys, Events
  <2> QED BY <2>1, LocksOfClient
<1>6. CASE Services
  <2>1. UNCHANGED <<lock, thread, event, node, work, pc, i, running_id_, last>>
    BY <1>6 DEF Services, registerMetaStateMachine, stateMachineCancel, holders
  <2> QED BY <2>1 DEF Locks, LocksInWork, LoopWork, ClientWork, Relays, Sending, Sends
<1> QED BY <1>2, <1>3, <1>4, <1>5, <1>6 DEF Next

\* Whoever has the mutex of a holder is cancelling there, at most one at a time and for
\* as long as the result is not in.
THEOREM LocksCorrect == Spec => []Locks
<1>1. Init => Locks
  BY LocksInit
<1>2. TypeOK /\ Locks /\ [Next]_vars => Locks'
  BY LocksNext
<1> QED BY <1>1, <1>2, MetaTypeCorrect, PTL DEF Spec

\* When nobody cancels under the mutex of the node only the loop has mutexes of holders.
\* A client can only wait for one of those, with the last status of its machine; the loop
\* waits for a status, and no status of a machine is due after its last.
LEMMA NoDeadlockOutside == TypeOK /\ Locks => FreezesInPublishStatus
<1> SUFFICES ASSUME TypeOK, Locks, node = None, Deadlocked PROVE FALSE
  BY DEF FreezesInPublishStatus
<1>0. PICK stuck \in SUBSET Threads : /\ stuck # {}
                                     /\ \A t \in stuck : \E u \in stuck : Waits(t, u)
  BY Zenon DEF Deadlocked
<1>1. /\ Resources = 1 .. N /\ Threads = Resources \cup {Loop} /\ Loop \notin Resources
      /\ None \notin Threads /\ N \in Nat
  BY NAssumption, NoneAssumption DEF Resources, Threads, Loop
<1>2. \A r \in Resources : work[r].at = 0 /\ thread[r] # "cancel"
  BY <1>1 DEF Locks, ClientWork
<1>3. \A r, q \in Resources : lock[r] # q
  BY <1>1, <1>2 DEF Locks, LocksInWork
<1>4. ASSUME NEW t \in stuck, t # Loop
      PROVE  Loop \in stuck /\ thread[t] = "erase" /\ t \in Resources
  <2>1. PICK u \in stuck : Waits(t, u)
    BY <1>0
  <2>2. t \in Resources /\ u \in Threads
    BY <1>1, <1>4
  <2>3. PICK r \in Resources : lock[r] = u /\ u # t /\ WantsHolder(t, r)
    BY <1>1, <1>3, <2>1, <2>2 DEF Waits
  <2>4. u = Loop
    BY <1>1, <1>3, <2>2, <2>3
  <2>5. t = r /\ thread[t] = "erase"
    <3>1. work[t].at = 0 /\ r # 0
      BY <1>1, <1>2, <2>2
    <3>2. work[t].at # r
      BY <3>1, Zenon
    <3> QED BY <1>4, <2>3, <3>2, Zenon DEF WantsHolder
  <2> QED BY <2>2, <2>4, <2>5
<1>5. Loop \in stuck
  BY <1>0, <1>4
<1>6. PICK u \in stuck : Waits(Loop, u)
  BY <1>0, <1>5
<1>7. CASE \E r \in Resources :
             lock[r] = Loop /\ last[r] = "due" /\ thread[r] # "idle" /\ u = r
  <2>1. last[u] = "due" /\ u \in Resources
    BY <1>7
  <2>2. thread[u] = "erase"
    BY <1>1, <1>4, <2>1
  <2> QED BY <2>1, <2>2 DEF Locks, Relays
<1>8. CASE \E r \in Resources : lock[r] = u /\ u # Loop /\ WantsHolder(Loop, r)
  BY <1>1, <1>3, <1>8
<1> QED BY <1>1, <1>6, <1>7, <1>8 DEF Waits

\* A deadlock of the threads takes a cancellation within publishStatus.
THEOREM DeadlocksInPublishStatus == Spec => []FreezesInPublishStatus
BY MetaTypeCorrect, LocksCorrect, NoDeadlockOutside, PTL

(***************************************************************************)
(* The machines that the selection elects.                                 *)
(***************************************************************************)

\* The machines a resource has a sub machine of.
MachinesOf(r) == {id \in 1 .. Len(metas) : r \in metas[id].subs}

\* Only those are in its holder, in its list, run there or are being sent.
Homes ==
  /\ \A r \in Resources :
       /\ state_machines_[r] \subseteq MachinesOf(r)
       /\ ToSet(ids_[r]) \subseteq MachinesOf(r)
       /\ running_id_[r] \in Maybe(MachinesOf(r))
  /\ pc \in {"called", "kept", "sent"} => work[Loop].id \in Maybe(MachinesOf(i))

\* While the selection lasts the lists are coherent and short where it is done; when it is
\* over and its result is dispatched it is done everywhere.
Dispatching == {"dispatch", "replace", "preempted", "send", "called", "kept", "sent"}
Coherence ==
  /\ pc \in {"select"} \cup Dispatching => Coherent(ids_, done_) /\ Short(ids_, done_)
  /\ pc \in Dispatching => \A r \in Resources : done_[r]

\* What runs where a resource is marked is outweighed by a machine it shares it with.
Marks ==
  pc \in {"select", "reinit"} =>
    \A r \in Resources : preempt_[r] /\ running_id_[r] # None => Outweighed(running_id_[r])

\* And so is what the elected machine of a resource is still to replace.
ToSend ==
  {r \in Resources : \/ pc = "select"
                     \/ pc = "dispatch" /\ i <= r
                     \/ pc \in Dispatching /\ i < r}
Elections ==
  \A r \in ToSend :
    done_[r] /\ ids_[r] # <<>> /\ running_id_[r] \notin {None, Head(ids_[r])} =>
      Outweighed(running_id_[r])

Selected == Homes /\ Coherence /\ Marks /\ Elections

\* A machine is outweighed by one of higher priority with which it shares a resource.
LEMMA SharedOutweighs ==
  ASSUME TypeOK, NEW r, NEW id \in MachinesOf(r), NEW sm \in MachinesOf(r),
         Priority(id) > Priority(sm)
  PROVE  Outweighed(sm)
<1>1. DOMAIN metas = 1 .. Len(metas)
  BY DEF TypeOK
<1>2. id \in DOMAIN metas /\ r \in metas[id].subs \cap metas[sm].subs
  BY <1>1 DEF MachinesOf
<1> QED BY <1>2 DEF Outweighed

\* A list of one machine at most keeps it, or becomes empty.
LEMMA ErasedShort ==
  ASSUME NEW S, NEW list \in Seq(S), NEW ids, Len(list) <= 1, Erased(list, ids) # <<>>
  PROVE  list # <<>> /\ Head(Erased(list, ids)) = Head(list)
<1>1. PICK c \in Seq(S) : /\ c = Erased(list, ids) /\ Len(c) <= Len(list)
                          /\ ToSet(c) = ToSet(list) \ ids
                          /\ list # <<>> /\ Head(list) \notin ids => Head(c) = Head(list)
  BY ErasedFacts
<1>2. 1 \in DOMAIN c /\ Head(c) = c[1]
  BY <1>1
<1>3. Head(c) \in ToSet(list) /\ Head(c) \notin ids
  <2>1. Head(c) \in ToSet(c)
    BY <1>2 DEF ToSet
  <2> QED BY <1>1, <2>1
<1>4. list # <<>>
  BY <1>3 DEF ToSet
<1>5. DOMAIN list = {1} /\ Head(list) = list[1]
  <2>1. PICK n \in Nat : n = Len(list) /\ DOMAIN list = 1 .. n
    OBVIOUS
  <2>2. n # 0
    BY <1>4, <2>1
  <2>3. n = 1
    BY <2>1, <2>2
  <2> QED BY <1>4, <2>1, <2>3
<1>6. ToSet(list) = {Head(list)}
  BY <1>5 DEF ToSet
<1> QED BY <1>1, <1>3, <1>4, <1>6

\* Coherence only has less to ask when machines are erased from the holders.
LEMMA CoherentAfter ==
  ASSUME NEW lists, NEW done, Coherent(lists, done), ids_' = lists, done_' = done,
         \A q \in Resources : state_machines_'[q] \subseteq state_machines_[q]
  PROVE  Coherent(ids_, done_)'
<1>1. NoRepeats(ids_)'
  BY DEF Coherent, NoRepeats
<1>2. Listed(ids_)'
  BY DEF Coherent, Listed
<1>3. Firsts(ids_, done_)'
  BY DEF Coherent, Firsts
<1> QED BY <1>1, <1>2, <1>3 DEF Coherent

\* The lists as the holders give them are coherent.
LEMMA IdsCoherent ==
  ASSUME TypeOK, NEW lists, lists = [r \in Resources |-> getIdsPerPriorities(r)]
  PROVE  /\ lists \in [Resources -> Seq(1 .. Len(metas))]
         /\ \A r \in Resources : ToSet(lists[r]) = state_machines_[r]
         /\ Coherent(lists, Nothing) /\ Short(lists, Nothing)
<1>1. \A r \in Resources : state_machines_[r] \subseteq 1 .. Len(metas)
  BY DEF TypeOK
<1>2. PICK n \in Nat : n = Len(metas)
  BY DEF TypeOK
<1>3. \A r \in Resources :
        /\ lists[r] = getIdsPerPriorities(r)
        /\ lists[r] \in Seq(1 .. n) /\ ToSet(lists[r]) = state_machines_[r]
        /\ IsInjective(lists[r])
  BY <1>1, <1>2, IdsFacts
<1>4. NoRepeats(lists) /\ Listed(lists)
  BY <1>3 DEF NoRepeats, Listed
<1>5. Firsts(lists, Nothing) /\ Short(lists, Nothing)
  BY DEF Firsts, Short, Nothing
<1> QED BY <1>2, <1>3, <1>4, <1>5 DEF Coherent

\* What keeps the invariant when the selection does not advance: machines may go, from the
\* holders, from the lists and from what runs, and the dispatch may advance.
LEMMA SelectedKept ==
  ASSUME TypeOK, Selected, UNCHANGED <<metas, done_, preempt_>>,
         \/ pc' = pc
         \/ pc = "select" /\ pc' = "dispatch" /\ \A r \in Resources : done_[r]
         \/ pc \in Dispatching /\ pc' \in Dispatching \cup {"sleep"},
         ToSend' \subseteq ToSend,
         \A r \in Resources : state_machines_'[r] \subseteq state_machines_[r],
         \A r \in Resources :
           \/ running_id_'[r] \in {running_id_[r], None}
           \/ /\ pc \in Dispatching /\ r \notin ToSend'
              /\ running_id_'[r] \in MachinesOf(r),
         ids_' = ids_ \/ \E ids : ids_' = Without(ids_, ids),
         pc' \in {"called", "kept", "sent"} => work'[Loop].id \in Maybe(MachinesOf(i'))
  PROVE  Selected'
<1>1. PICK S : S = 1 .. Len(metas)
  OBVIOUS
<1>2. ids_ \in [Resources -> Seq(S)]
  BY <1>1 DEF TypeOK
<1>3. /\ \A r \in Resources : ToSet(ids_'[r]) \subseteq ToSet(ids_[r])
      /\ Coherent(ids_, done_) /\ Short(ids_, done_) =>
           /\ Coherent(ids_', done_) /\ Short(ids_', done_)
           /\ \A r \in Resources : done_[r] /\ ids_'[r] # <<>> =>
                ids_[r] # <<>> /\ Head(ids_'[r]) = Head(ids_[r])
  <2>1. CASE ids_' = ids_
    BY <2>1
  <2>2. ASSUME NEW ids, ids_' = Without(ids_, ids)
        PROVE  /\ \A r \in Resources : ToSet(ids_'[r]) \subseteq ToSet(ids_[r])
               /\ Coherent(ids_, done_) /\ Short(ids_, done_) =>
                    /\ Coherent(ids_', done_) /\ Short(ids_', done_)
                    /\ \A r \in Resources : done_[r] /\ ids_'[r] # <<>> =>
                         ids_[r] # <<>> /\ Head(ids_'[r]) = Head(ids_[r])
    <3>1. \A r \in Resources : ids_'[r] = Erased(ids_[r], ids) /\ ids_[r] \in Seq(S)
      BY <1>2, <2>2, WithoutFacts
    <3>2. \A r \in Resources : ToSet(ids_'[r]) \subseteq ToSet(ids_[r])
      BY <3>1, ErasedFacts
    <3>3. ASSUME Coherent(ids_, done_), Short(ids_, done_)
          PROVE  Coherent(ids_', done_) /\ Short(ids_', done_)
      BY <1>2, <2>2, <3>3, WithoutCoherent
    <3>4. ASSUME Short(ids_, done_), NEW r \in Resources, done_[r], ids_'[r] # <<>>
          PROVE  ids_[r] # <<>> /\ Head(ids_'[r]) = Head(ids_[r])
      BY <3>1, <3>4, ErasedShort DEF Short
    <3> QED BY <3>2, <3>3, <3>4
  <2> QED BY <2>1, <2>2
<1>4. \A r : MachinesOf(r)' = MachinesOf(r)
  BY DEF MachinesOf
<1>5. \A sm : Outweighed(sm)' <=> Outweighed(sm)
  BY DEF Outweighed, Priority
<1>6. Homes'
  <2> SUFFICES ASSUME NEW r \in Resources
               PROVE  /\ state_machines_'[r] \subseteq MachinesOf(r)
                      /\ ToSet(ids_'[r]) \subseteq MachinesOf(r)
                      /\ running_id_'[r] \in Maybe(MachinesOf(r))
    BY <1>4 DEF Homes
  <2> QED BY <1>3 DEF Selected, Homes, Maybe
<1>7. Coherence'
  <2>1. CASE pc' \in {"select"} \cup Dispatching
    <3>1. pc \in {"select"} \cup Dispatching
      BY <2>1 DEF Dispatching
    <3>2. Coherent(ids_', done_) /\ Short(ids_', done_)
      BY <1>3, <3>1 DEF Selected, Coherence
    <3>3. PICK lists : lists = ids_'
      OBVIOUS
    <3>4. PICK done : done = done_
      OBVIOUS
    <3>5. Coherent(ids_, done_)'
      BY <3>2, <3>3, <3>4, CoherentAfter
    <3>6. Short(ids_, done_)'
      BY <3>2 DEF Short
    <3>7. pc' \in Dispatching => \A r \in Resources : done_'[r]
      BY DEF Selected, Coherence, Dispatching
    <3> QED BY <3>5, <3>6, <3>7 DEF Coherence
  <2>2. CASE pc' \notin {"select"} \cup Dispatching
    BY <2>2 DEF Coherence
  <2> QED BY <2>1, <2>2
<1>8. Marks'
  <2> SUFFICES ASSUME pc' \in {"select", "reinit"}, NEW r \in Resources, preempt_'[r],
                      running_id_'[r] # None
               PROVE  Outweighed(running_id_'[r])
    BY <1>5 DEF Marks
  <2>1. pc \in {"select", "reinit"} /\ pc \notin Dispatching
    BY DEF Dispatching
  <2>2. running_id_'[r] = running_id_[r]
    BY <2>1
  <2> QED BY <2>1, <2>2 DEF Selected, Marks
<1>9. Elections'
  <2> SUFFICES ASSUME NEW r \in ToSend', done_[r], ids_'[r] # <<>>,
                      running_id_'[r] \notin {None, Head(ids_'[r])}
               PROVE  Outweighed(running_id_'[r])
    BY <1>5 DEF Elections
  <2>1. r \in ToSend /\ r \in Resources /\ pc \in {"select"} \cup Dispatching
    BY DEF ToSend, Dispatching
  <2>2. running_id_'[r] = running_id_[r]
    BY <2>1
  <2>3. ids_[r] # <<>> /\ Head(ids_'[r]) = Head(ids_[r])
    BY <1>3, <2>1 DEF Selected, Coherence
  <2> QED BY <2>1, <2>2, <2>3 DEF Selected, Elections
<1> QED BY <1>6, <1>7, <1>8, <1>9 DEF Selected

\* The lists of a selection that begins.
LEMMA SelectedInit ==
  ASSUME TypeOK, Selected, init
  PROVE  Selected'
<1>1. PICK lists : lists = [r \in Resources |-> getIdsPerPriorities(r)]
  OBVIOUS
<1>2. /\ \A r \in Resources : ToSet(lists[r]) = state_machines_[r]
      /\ Coherent(lists, Nothing)
  BY <1>1, IdsCoherent
<1>3. /\ ids_' = lists /\ done_' = Nothing /\ preempt_' = Nothing /\ pc' = "select"
      /\ UNCHANGED <<metas, state_machines_, running_id_>>
  BY <1>1 DEF init, holders
<1>4. \A r \in Resources : ~ done_'[r] /\ ~ preempt_'[r]
  BY <1>3 DEF Nothing
<1>5. \A r : MachinesOf(r)' = MachinesOf(r)
  BY <1>3 DEF MachinesOf
<1>6. Homes'
  BY <1>2, <1>3, <1>5 DEF Selected, Homes
<1>7. Coherence'
  <2>1. Coherent(ids_, done_)'
    BY <1>2, <1>3, CoherentAfter
  <2>2. Short(ids_, done_)'
    BY <1>4 DEF Short
  <2> QED BY <1>3, <2>1, <2>2 DEF Coherence, Dispatching
<1>8. Marks' /\ Elections'
  BY <1>4 DEF Marks, Elections, ToSend
<1> QED BY <1>6, <1>7, <1>8 DEF Selected

\* And of one that begins again: what else runs where a marked machine runs, or where it
\* runs elsewhere, is this machine.
LEMMA SelectedReinit ==
  ASSUME TypeOK, Selected, reinit
  PROVE  Selected'
<1>0. 1 \in Resources
  BY NAssumption DEF Resources
<1>1. PICK all : all = [r \in Resources |-> getIdsPerPriorities(r)]
  OBVIOUS
<1>2. /\ all \in [Resources -> Seq(1 .. Len(metas))]
      /\ \A r \in Resources : ToSet(all[r]) = state_machines_[r]
      /\ Coherent(all, Nothing) /\ Short(all, Nothing)
  BY <1>1, IdsCoherent
<1>3. PICK lists : lists = Without(all, Preempted)
  OBVIOUS
<1>4. Coherent(lists, Nothing)
  BY <1>2, <1>3, WithoutCoherent
<1>5. \A r \in Resources : ToSet(lists[r]) \subseteq state_machines_[r]
  <2> TAKE r \in Resources
  <2>1. lists[r] = Erased(all[r], Preempted) /\ all[r] \in Seq(1 .. Len(metas))
    BY <1>2, <1>3, WithoutFacts
  <2> QED BY <1>2, <2>1, ErasedFacts
<1>6. /\ ids_' = lists /\ done_' = Nothing
      /\ preempt_' = [r \in Resources |-> preempt_[r] \/ running_id_[r] \in Preempted]
      /\ UNCHANGED <<metas, state_machines_, running_id_>>
  BY <1>1, <1>3 DEF reinit, holders
<1>7. \A r \in Resources : ~ done_'[r]
  BY <1>6 DEF Nothing
<1>8. pc' = "select"
  BY <1>0, <1>7 DEF reinit, NextTurn
<1>9. \A r : MachinesOf(r)' = MachinesOf(r)
  BY <1>6 DEF MachinesOf
<1>10. \A sm : Outweighed(sm)' <=> Outweighed(sm)
  BY <1>6 DEF Outweighed, Priority
<1>11. Homes'
  BY <1>5, <1>6, <1>8, <1>9 DEF Selected, Homes
<1>12. Coherence'
  <2>1. Coherent(ids_, done_)'
    BY <1>4, <1>6, CoherentAfter
  <2>2. Short(ids_, done_)'
    BY <1>7 DEF Short
  <2> QED BY <1>8, <2>1, <2>2 DEF Coherence, Dispatching
<1>13. Marks'
  <2> SUFFICES ASSUME NEW r \in Resources, preempt_'[r], running_id_[r] # None
               PROVE  Outweighed(running_id_[r])
    BY <1>6, <1>10 DEF Marks
  <2>1. \A q \in Resources : preempt_[q] /\ running_id_[q] # None => Outweighed(running_id_[q])
    BY DEF Selected, Marks, reinit
  <2>2. CASE preempt_[r]
    BY <2>1, <2>2
  <2>3. CASE running_id_[r] \in Preempted
    <3>1. PICK q \in Resources : preempt_[q] /\ running_id_[r] = running_id_[q]
      BY <2>3 DEF Preempted
    <3> QED BY <2>1, <3>1
  <2> QED BY <1>6, <2>2, <2>3
<1>14. Elections'
  BY <1>7 DEF Elections, ToSend
<1> QED BY <1>11, <1>12, <1>13, <1>14 DEF Selected

\* A resource without candidates elects nothing.
LEMMA SelectedNoCandidate ==
  ASSUME TypeOK, Selected, NoCandidate
  PROVE  Selected'
<1>1. /\ pc = "select" /\ pc' \in {"select", "dispatch"} /\ i \in Resources
      /\ UNCHANGED <<metas, state_machines_, running_id_, ids_, preempt_>>
      /\ ids_[i] = <<>> \/ done_[i]
      /\ done_' = [done_ EXCEPT ![i] = TRUE] /\ done_ \in [Resources -> BOOLEAN]
      /\ pc' = "dispatch" => \A r \in Resources : done_'[r]
  BY DEF NoCandidate, NextTurn, TypeOK, holders
<1>2. \A r \in Resources : done_'[r] /\ ids_[r] # <<>> => done_[r]
  BY <1>1
<1>3. Coherent(ids_, done_) /\ Short(ids_, done_)
  BY <1>1 DEF Selected, Coherence
<1>4. PICK done : done = done_'
  OBVIOUS
<1>5. PICK lists : lists = ids_
  OBVIOUS
<1>6. Coherent(lists, done)
  BY <1>2, <1>3, <1>4, <1>5 DEF Coherent, Firsts
<1>7. Coherent(ids_, done_)'
  BY <1>1, <1>4, <1>5, <1>6, CoherentAfter
<1>8. Short(ids_, done_)'
  <2> SUFFICES ASSUME NEW r \in Resources, done_'[r] PROVE Len(ids_[r]) <= 1
    BY <1>1 DEF Short
  <2>1. CASE ids_[r] = <<>>
    BY <2>1
  <2>2. CASE ids_[r] # <<>>
    BY <1>2, <1>3, <2>2 DEF Short
  <2> QED BY <2>1, <2>2
<1>9. Coherence'
  BY <1>1, <1>7, <1>8 DEF Coherence, Dispatching
<1>10. \A r : MachinesOf(r)' = MachinesOf(r)
  BY <1>1 DEF MachinesOf
<1>11. \A sm : Outweighed(sm)' <=> Outweighed(sm)
  BY <1>1 DEF Outweighed, Priority
<1>12. Homes'
  BY <1>1, <1>10 DEF Selected, Homes
<1>13. Marks'
  BY <1>1, <1>11 DEF Selected, Marks
<1>14. Elections'
  <2> SUFFICES ASSUME NEW r \in Resources, done_'[r], ids_[r] # <<>>,
                      running_id_[r] \notin {None, Head(ids_[r])}
               PROVE  Outweighed(running_id_[r])
    BY <1>1, <1>11 DEF Elections, ToSend
  <2>1. done_[r] /\ r \in ToSend
    BY <1>1, <1>2 DEF ToSend
  <2> QED BY <2>1 DEF Selected, Elections
<1> QED BY <1>9, <1>12, <1>13, <1>14 DEF Selected

\* A machine that is selected comes first wherever it is listed, and outweighs what runs
\* there, itself or because the machine that runs there was marked for another.
LEMMA SelectedOne ==
  ASSUME TypeOK, Selected, pc = "select", ids_[i] # <<>>,
         preempt_[i] \/ canReplace(i, Head(ids_[i])), isSelectable(i, Head(ids_[i])),
         selectSm(Head(ids_[i])),
         UNCHANGED <<metas, holders>>
  PROVE  Selected'
<1>1. PICK id : id = Head(ids_[i])
  OBVIOUS
<1>2. PICK S : S = 1 .. Len(metas)
  OBVIOUS
<1>3. /\ ids_ \in [Resources -> Seq(S)] /\ i \in Resources
      /\ UNCHANGED <<state_machines_, running_id_, preempt_>>
      /\ Coherent(ids_, done_) /\ Short(ids_, done_)
  BY <1>2 DEF TypeOK, holders, selectSm, Selected, Coherence
<1>4. PICK done : done = done_'
  OBVIOUS
<1>5. /\ \A r \in Resources : done[r] <=> done_[r] \/ id \in ToSet(ids_[r])
      /\ ids_' = clean(ids_, done)
      /\ pc' \in {"select", "dispatch"}
      /\ pc' = "dispatch" => \A r \in Resources : done[r]
  BY <1>1, <1>4 DEF selectSm, NextTurn
<1>6. \A r \in Resources : id \in ToSet(ids_[r]) =>
        ids_[r] # <<>> /\ Head(ids_[r]) = id /\ (preempt_[r] \/ canReplace(r, id))
  BY <1>1 DEF isSelectable, AheadOn
<1>7. Coherent(ids_, done)
  <2>1. Firsts(ids_, done)
    <3> SUFFICES ASSUME NEW r \in Resources, NEW q \in Resources, done[r], ids_[r] # <<>>,
                        Head(ids_[r]) \in ToSet(ids_[q])
                 PROVE  Head(ids_[q]) = Head(ids_[r])
      BY DEF Firsts
    <3>1. CASE done_[r]
      BY <1>3, <3>1 DEF Coherent, Firsts
    <3>2. CASE id \in ToSet(ids_[r])
      BY <1>6, <3>2
    <3> QED BY <1>5, <3>1, <3>2
  <2> QED BY <1>3, <2>1 DEF Coherent
<1>8. /\ \A r \in Resources : ToSet(ids_'[r]) \subseteq ToSet(ids_[r])
      /\ Short(ids_', done)
      /\ \A r \in Resources : ids_'[r] \in Seq(S) /\ Len(ids_'[r]) <= Len(ids_[r])
  BY <1>3, <1>5, CleanTyped
<1>9. /\ Coherent(ids_', done)
      /\ \A r \in Resources : done[r] /\ ids_[r] # <<>> => Head(ids_'[r]) = Head(ids_[r])
  BY <1>3, <1>5, <1>7, CleanCoherent
<1>10. PICK lists : lists = ids_'
  OBVIOUS
<1>11. Coherence'
  <2>1. Coherent(ids_, done_)'
    BY <1>3, <1>4, <1>9, <1>10, CoherentAfter
  <2>2. Short(ids_, done_)'
    BY <1>4, <1>8 DEF Short
  <2> QED BY <1>4, <1>5, <2>1, <2>2 DEF Coherence, Dispatching
<1>12. \A r : MachinesOf(r)' = MachinesOf(r)
  BY DEF MachinesOf
<1>13. \A sm : Outweighed(sm)' <=> Outweighed(sm)
  BY DEF Outweighed, Priority
<1>14. Homes'
  BY <1>3, <1>5, <1>8, <1>12 DEF Selected, Homes
<1>15. Marks'
  BY <1>3, <1>13 DEF Selected, Marks
<1>16. Elections'
  <2> SUFFICES ASSUME NEW r \in Resources, done[r], ids_'[r] # <<>>,
                      running_id_[r] \notin {None, Head(ids_'[r])}
               PROVE  Outweighed(running_id_[r])
    BY <1>3, <1>4, <1>13 DEF Elections, ToSend
  <2>1. ids_[r] # <<>>
    <3>1. Len(ids_'[r]) # 0 /\ Len(ids_'[r]) \in Nat
      BY <1>8
    <3> QED BY <1>3, <1>8, <3>1
  <2>2. Head(ids_'[r]) = Head(ids_[r])
    BY <1>9, <2>1
  <2>3. CASE done_[r]
    BY <2>1, <2>2, <2>3 DEF Selected, Elections, ToSend
  <2>4. CASE id \in ToSet(ids_[r]) /\ preempt_[r]
    BY <2>4 DEF Selected, Marks
  <2>5. CASE id \in ToSet(ids_[r]) /\ canReplace(r, id)
    <3>1. Priority(id) > Priority(running_id_[r])
      BY <2>5 DEF canReplace
    <3>2. id \in MachinesOf(r) /\ running_id_[r] \in MachinesOf(r)
      BY <2>5 DEF Selected, Homes, Maybe
    <3> QED BY <3>1, <3>2, SharedOutweighs
  <2> QED BY <1>5, <1>6, <2>3, <2>4, <2>5
<1> QED BY <1>11, <1>14, <1>15, <1>16 DEF Selected

LEMMA SelectedCandidate ==
  ASSUME TypeOK, Selected, Candidate
  PROVE  Selected'
<1>1. /\ pc = "select" /\ ids_[i] # <<>> /\ i \in Resources
      /\ UNCHANGED <<metas, holders, state_machines_, running_id_, work>>
  BY DEF Candidate, TypeOK, holders
<1>2. CASE UNCHANGED <<selection, pc, i>>
  <2>1. UNCHANGED <<ids_, done_, preempt_>> /\ ToSend' = ToSend
    BY <1>2 DEF selection, ToSend
  <2> QED BY <1>1, <1>2, <2>1, SelectedKept
<1>3. CASE removeSmFromSelection(Head(ids_[i]))
  <2>1. /\ UNCHANGED <<done_, preempt_>> /\ \E ids : ids_' = Without(ids_, ids)
        /\ pc' \in {"select", "dispatch"}
        /\ pc' = "dispatch" => \A r \in Resources : done_[r]
    BY <1>3 DEF removeSmFromSelection, NextTurn
  <2>2. ToSend' \subseteq ToSend
    BY <1>1 DEF ToSend
  <2>3. pc' # "sent"
    BY <2>1
  <2> QED BY <1>1, <2>1, <2>2, <2>3, SelectedKept
<1>4. CASE /\ preempt_[i] \/ canReplace(i, Head(ids_[i]))
           /\ isSelectable(i, Head(ids_[i])) /\ selectSm(Head(ids_[i]))
  BY <1>1, <1>4, SelectedOne
<1>5. CASE /\ canReplace(i, Head(ids_[i])) /\ running_id_[i] # None
           /\ preempt_' = [preempt_ EXCEPT ![i] = TRUE]
           /\ pc' = "reinit"
           /\ UNCHANGED <<ids_, done_, i>>
  <2>1. Head(ids_[i]) \in MachinesOf(i) /\ running_id_[i] \in MachinesOf(i)
    <3>1. ids_[i] \in Seq(1 .. Len(metas))
      BY <1>1 DEF TypeOK
    <3>2. 1 \in DOMAIN ids_[i] /\ ids_[i][1] = Head(ids_[i])
      BY <1>1, <3>1
    <3>3. Head(ids_[i]) \in ToSet(ids_[i])
      BY <3>2 DEF ToSet
    <3> QED BY <1>1, <1>5, <3>3 DEF Selected, Homes, Maybe
  <2>2. Outweighed(running_id_[i])
    BY <1>5, <2>1, SharedOutweighs DEF canReplace
  <2>3. \A sm : Outweighed(sm)' <=> Outweighed(sm)
    BY <1>1 DEF Outweighed, Priority
  <2>4. \A r : MachinesOf(r)' = MachinesOf(r)
    BY <1>1 DEF MachinesOf
  <2>5. Homes'
    BY <1>1, <1>5, <2>4 DEF Selected, Homes
  <2>6. Marks'
    <3> SUFFICES ASSUME NEW r \in Resources, preempt_'[r], running_id_[r] # None
                 PROVE  Outweighed(running_id_[r])
      BY <1>1, <2>3 DEF Marks
    <3>1. preempt_ \in [Resources -> BOOLEAN]
      BY DEF TypeOK
    <3>2. CASE r = i
      BY <2>2, <3>2
    <3>3. CASE r # i
      BY <1>1, <1>5, <3>1, <3>3 DEF Selected, Marks
    <3> QED BY <3>2, <3>3
  <2>7. Coherence' /\ Elections'
    BY <1>5 DEF Coherence, Elections, ToSend, Dispatching
  <2> QED BY <2>5, <2>6, <2>7 DEF Selected
<1> QED BY <1>2, <1>3, <1>4, <1>5 DEF Candidate

\* The dispatch sends, or cancels and sends, on one resource after the other.
LEMMA SelectedDispatch ==
  ASSUME TypeOK, Selected,
         \/ Skip \/ Replace \/ ReplacedIsRemoved \/ publishPreemptStatus
         \/ SendCall \/ KeepId \/ ResetState \/ SendReturns
  PROVE  Selected'
<1>1. /\ pc \in Dispatching /\ i \in Resources /\ UNCHANGED metas
      /\ N \in Nat /\ Resources = 1 .. N
  BY NAssumption DEF TypeOK, Resources, Skip, Replace, ReplacedIsRemoved,
                     publishPreemptStatus, SendCall, KeepId, ResetState, SendReturns,
                     Dispatching
<1>2. UNCHANGED <<done_, preempt_, state_machines_>>
  BY DEF Skip, Replace, ReplacedIsRemoved, publishPreemptStatus, SendCall, KeepId,
         ResetState, SendReturns, selection, holders, removeSm
<1>3. NextResource => pc' = "sleep" \/ (pc' = "dispatch" /\ i' = i + 1)
  BY DEF NextResource
<1>4. CASE Skip
  <2>1. pc = "dispatch" /\ UNCHANGED <<ids_, running_id_>> /\ NextResource
    BY <1>4 DEF Skip, selection, holders
  <2>2. ToSend' \subseteq ToSend
    BY <1>1, <1>3, <2>1 DEF ToSend, Dispatching
  <2>3. pc' \in Dispatching \cup {"sleep"} /\ pc' \notin {"called", "kept", "sent"}
    BY <1>3, <2>1 DEF Dispatching
  <2> QED BY <1>1, <1>2, <2>1, <2>2, <2>3, SelectedKept
<1>5. CASE Replace \/ publishPreemptStatus
  <2>1. /\ UNCHANGED <<ids_, running_id_, i>>
        /\ pc' \in {"replace", "send"}
    BY <1>5 DEF Replace, publishPreemptStatus, selection, holders
  <2>2. ToSend' \subseteq ToSend
    BY <1>1, <2>1 DEF ToSend, Dispatching
  <2>3. pc' \in Dispatching /\ pc' \notin {"called", "kept", "sent"}
    BY <2>1 DEF Dispatching
  <2> QED BY <1>1, <1>2, <2>1, <2>2, <2>3, SelectedKept
<1>6. CASE ReplacedIsRemoved
  <2>1. /\ UNCHANGED <<running_id_, i>> /\ \E ids : ids_' = Without(ids_, ids)
        /\ pc = "replace" /\ pc' = "preempted"
    BY <1>6 DEF ReplacedIsRemoved, removeSm, holders
  <2>2. ToSend' \subseteq ToSend
    BY <1>1, <2>1 DEF ToSend, Dispatching
  <2>3. pc' \in Dispatching /\ pc' \notin {"called", "kept", "sent"}
    BY <2>1 DEF Dispatching
  <2> QED BY <1>1, <1>2, <2>1, <2>2, <2>3, SelectedKept
<1>7. CASE SendCall
  <2>1. UNCHANGED <<ids_, running_id_, i>> /\ pc \in {"dispatch", "send"}
    BY <1>7 DEF SendCall, selection
  <2>2. CASE ids_[i] = <<>>
    <3>1. pc' = pc /\ pc' = "send"
      BY <1>7, <2>2 DEF SendCall
    <3>2. ToSend' \subseteq ToSend
      BY <2>1, <3>1 DEF ToSend
    <3> QED BY <1>2, <1>1, <2>1, <3>1, <3>2, SelectedKept
  <2>3. CASE ids_[i] # <<>>
    <3>1. pc' \in {"called", "sent"} /\ pc' \in Dispatching
      BY <1>7, <2>3 DEF SendCall, Dispatching
    <3>2. ToSend' \subseteq ToSend
      BY <1>1, <2>1, <3>1 DEF ToSend, Dispatching
    <3>3. work'[Loop].id \in Maybe(MachinesOf(i'))
      <4>1. PICK id : id = IF running_id_[i] = None /\ Head(ids_[i]) \in state_machines_[i]
                           THEN Head(ids_[i]) ELSE None
        OBVIOUS
      <4>2. work' = [work EXCEPT ![Loop] = [id |-> id, at |-> 0]]
        BY <1>7, <2>3, <4>1, Zenon DEF SendCall
      <4>3. Loop \in DOMAIN work
        BY NAssumption DEF TypeOK, Loop, Threads
      <4>4. work'[Loop].id = id
        BY <4>2, <4>3
      <4>5. id \in Maybe(MachinesOf(i))
        BY <1>1, <4>1 DEF Selected, Homes, Maybe
      <4> QED BY <2>1, <4>4, <4>5
    <3> QED BY <1>2, <1>1, <2>1, <3>1, <3>2, <3>3, SelectedKept
  <2> QED BY <2>2, <2>3
<1>8. CASE SendReturns
  <2>1. pc = "sent" /\ UNCHANGED ids_
    BY <1>8 DEF SendReturns, selection
  <2>2. pc' \in Dispatching \cup {"sleep"} /\ i \notin ToSend' /\ ToSend' \subseteq ToSend
    <3>1. CASE ids_[i] = <<>>
      <4>1. UNCHANGED <<pc, i>>
        BY <1>8, <3>1 DEF SendReturns
      <4> QED BY <1>1, <2>1, <4>1 DEF ToSend, Dispatching
    <3>2. CASE ids_[i] # <<>>
      <4>1. NextResource
        BY <1>8, <3>2 DEF SendReturns
      <4> QED BY <1>1, <1>3, <2>1, <4>1 DEF ToSend, Dispatching
    <3> QED BY <3>1, <3>2
  <2>3. \A r \in Resources :
          \/ running_id_'[r] \in {running_id_[r], None}
          \/ r \notin ToSend' /\ running_id_'[r] \in MachinesOf(r)
    <3>1. CASE work[Loop].id = None
      BY <1>8, <3>1 DEF SendReturns
    <3>2. CASE work[Loop].id # None
      <4>1. /\ running_id_' = [running_id_ EXCEPT ![i] = work[Loop].id]
            /\ DOMAIN running_id_ = Resources
        BY <1>8, <3>2 DEF SendReturns, TypeOK
      <4>2. work[Loop].id \in MachinesOf(i)
        BY <2>1, <3>2 DEF Selected, Homes, Maybe
      <4> QED BY <1>1, <2>2, <4>1, <4>2
    <3> QED BY <3>1, <3>2
  <2>4. work'[Loop].id \in Maybe(MachinesOf(i'))
    <3>1. Loop \in DOMAIN work
      BY NAssumption DEF TypeOK, Loop, Threads
    <3>2. work'[Loop].id = None
      BY <1>8, <3>1 DEF SendReturns, NoWork
    <3> QED BY <3>2 DEF Maybe
  <2> QED BY <1>1, <1>2, <2>1, <2>2, <2>3, <2>4, SelectedKept
<1>9. CASE KeepId \/ ResetState
  <2>1. /\ UNCHANGED <<ids_, running_id_, i, work>> /\ pc \in {"called", "kept"}
        /\ pc' \in {"kept", "sent"}
    BY <1>9 DEF KeepId, ResetState, selection, holders
  <2>2. ToSend' \subseteq ToSend
    BY <1>1, <2>1 DEF ToSend, Dispatching
  <2>3. pc' \in Dispatching
    BY <2>1 DEF Dispatching
  <2>4. work'[Loop].id \in Maybe(MachinesOf(i'))
    BY <2>1 DEF Selected, Homes
  <2> QED BY <1>1, <1>2, <2>1, <2>2, <2>3, <2>4, SelectedKept
<1> QED BY <1>4, <1>5, <1>6, <1>7, <1>8, <1>9

\* The threads of the clients, and the cancellations of any thread.
LEMMA SelectedClient ==
  ASSUME TypeOK, Selected, NEW t \in Threads, NEW r \in Resources,
         \/ Cancels(t) \/ RelayStatus(r) \/ publishStatus(r) \/ removeStatusIfNeeded(r)
         \/ stateMachineStatus(r) \/ \E e \in Events : statusCallback(r, e)
  PROVE  Selected'
<1>1. UNCHANGED <<metas, done_, preempt_, pc, i>>
  BY DEF Cancels, CancelHolder, ResultIsIn, RelayStatus, publishStatus, removeStatusIfNeeded,
         stateMachineStatus, statusCallback, selection, removeSm
<1>2. ToSend' \subseteq ToSend
  BY <1>1 DEF ToSend
<1>3. \A q \in Resources : state_machines_'[q] \subseteq state_machines_[q]
  <2>1. CASE UNCHANGED state_machines_
    BY <2>1
  <2>2. ASSUME NEW q \in Resources, NEW ids,
               state_machines_' = [state_machines_ EXCEPT ![q] = @ \ ids]
        PROVE  \A p \in Resources : state_machines_'[p] \subseteq state_machines_[p]
    BY <2>2 DEF TypeOK
  <2>3. CASE Cancels(t)
    <3>1. CASE Erase(t, work[t].at) /\ work[t].at \in Resources
      BY <3>1, <2>2 DEF Erase
    <3> QED BY <2>1, <2>3, <3>1 DEF Cancels, CancelHolder, ResultIsIn
  <2>4. CASE stateMachineStatus(r)
    BY <2>2, <2>4 DEF stateMachineStatus
  <2> QED BY <2>1, <2>3, <2>4 DEF RelayStatus, publishStatus, removeStatusIfNeeded,
                                  statusCallback, holders
<1>4. \A q \in Resources : running_id_'[q] \in {running_id_[q], None}
  <2>1. CASE stateMachineStatus(r)
    BY <2>1 DEF stateMachineStatus, TypeOK
  <2> QED BY <2>1 DEF Cancels, CancelHolder, ResultIsIn, RelayStatus, publishStatus,
                      removeStatusIfNeeded, statusCallback, holders
<1>5. ids_' = ids_ \/ \E ids : ids_' = Without(ids_, ids)
  BY DEF Cancels, CancelHolder, ResultIsIn, RelayStatus, publishStatus, removeStatusIfNeeded,
         stateMachineStatus, statusCallback, selection, removeSm
<1>6. pc' \in {"called", "kept", "sent"} => work'[Loop].id \in Maybe(MachinesOf(i'))
  <2>1. work'[Loop].id = work[Loop].id
    <3>1. Loop \in Threads /\ r \in Threads /\ r # Loop /\ DOMAIN work = Threads
      BY NAssumption DEF TypeOK, Loop, Threads, Resources
    <3>2. CASE Cancels(t)
      <4>1. work' = work \/ work' = [work EXCEPT ![t].at = @ + 1]
        BY <3>2 DEF Cancels, CancelHolder, ResultIsIn, Erase
      <4>2. work[t] \in [id : Maybe(1 .. Len(metas)), at : 0 .. N + 1]
        BY DEF TypeOK
      <4> QED BY <3>1, <4>1, <4>2
    <3>3. CASE ~ Cancels(t)
      BY <3>1, <3>3 DEF RelayStatus, publishStatus, removeStatusIfNeeded, stateMachineStatus,
                        statusCallback
    <3> QED BY <3>2, <3>3
  <2> QED BY <1>1, <2>1 DEF Selected, Homes, MachinesOf
<1> QED BY <1>1, <1>2, <1>3, <1>4, <1>5, <1>6, SelectedKept

\* Between two selections nothing is elected; machines are registered in the meantime, with
\* the holders of their resources.
LEMMA SelectedOutside ==
  ASSUME TypeOK, Selected,
         \/ Wake \/ applyConstraints \/ publishLateStatus \/ LateIsRemoved
         \/ \E meta \in Sent : registerMetaStateMachine(meta)
  PROVE  Selected'
<1>1. pc' \in {"sleep", "constraints", "late", "cancel"}
  BY DEF Wake, applyConstraints, publishLateStatus, LateIsRemoved, registerMetaStateMachine
<1>2. Coherence' /\ Marks' /\ Elections'
  BY <1>1 DEF Coherence, Marks, Elections, ToSend, Dispatching
<1>3. UNCHANGED running_id_
  BY DEF Wake, applyConstraints, publishLateStatus, LateIsRemoved,
         registerMetaStateMachine, holders
<1>4. \A r \in Resources : ToSet(ids_'[r]) \subseteq ToSet(ids_[r])
  <2>1. CASE UNCHANGED ids_
    BY <2>1
  <2>2. CASE removeSm(Loop)
    <3>1. PICK ids : ids_' = Without(ids_, ids)
      BY <2>2 DEF removeSm
    <3>2. PICK S : S = 1 .. Len(metas)
      OBVIOUS
    <3>3. ids_ \in [Resources -> Seq(S)]
      BY <3>2 DEF TypeOK
    <3>4. \A r \in Resources : ids_'[r] = Erased(ids_[r], ids) /\ ids_[r] \in Seq(S)
      BY <3>1, <3>3, WithoutFacts
    <3> QED BY <3>4, ErasedFacts
  <2> QED BY <2>1, <2>2 DEF Wake, applyConstraints, publishLateStatus, LateIsRemoved,
                            registerMetaStateMachine, selection
<1>5. CASE UNCHANGED <<metas, state_machines_>>
  <2>1. \A r : MachinesOf(r)' = MachinesOf(r)
    BY <1>5 DEF MachinesOf
  <2>2. Homes'
    BY <1>1, <1>3, <1>4, <1>5, <2>1 DEF Selected, Homes
  <2> QED BY <1>2, <2>2 DEF Selected
<1>6. ASSUME NEW meta \in Sent, registerMetaStateMachine(meta)
      PROVE  Selected'
  <2>1. PICK n \in Nat : n = Len(metas) /\ DOMAIN metas = 1 .. n
    BY DEF TypeOK
  <2>2. metas \in Seq(Metas) /\ meta \in Metas /\ metas' = Append(metas, meta)
    BY <1>6, SentAssumption DEF registerMetaStateMachine, TypeOK
  <2>3. /\ Len(metas') = n + 1 /\ metas'[n + 1] = meta
        /\ \A id \in 1 .. n : metas'[id] = metas[id]
    BY <2>1, <2>2
  <2>4. \A r \in Resources : /\ MachinesOf(r) \subseteq MachinesOf(r)'
                             /\ r \in meta.subs => n + 1 \in MachinesOf(r)'
    BY <2>1, <2>3 DEF MachinesOf
  <2>5. \A r \in Resources : state_machines_'[r] \subseteq MachinesOf(r)'
    <3> TAKE r \in Resources
    <3>1. state_machines_'[r] = IF r \in meta.subs THEN state_machines_[r] \cup {n + 1}
                                ELSE state_machines_[r]
      BY <1>6, <2>1 DEF registerMetaStateMachine
    <3> QED BY <2>4, <3>1 DEF Selected, Homes
  <2>6. \A r \in Resources : Maybe(MachinesOf(r)) \subseteq Maybe(MachinesOf(r))'
    BY <2>4 DEF Maybe
  <2>7. Homes'
    BY <1>1, <1>3, <1>4, <2>4, <2>5, <2>6 DEF Selected, Homes
  <2> QED BY <1>2, <2>7 DEF Selected
<1> QED BY <1>5, <1>6 DEF Wake, applyConstraints, publishLateStatus, LateIsRemoved, holders

LEMMA SelectedNext == TypeOK /\ Selected /\ [Next]_vars => Selected'
<1> SUFFICES ASSUME TypeOK, Selected, [Next]_vars PROVE Selected'
  OBVIOUS
<1>1. Resources \subseteq Threads /\ Loop \in Threads /\ 1 \in Resources
  BY NAssumption DEF Resources, Threads, Loop
<1>2. ASSUME UNCHANGED <<metas, state_machines_, running_id_, ids_, done_, preempt_, pc, i,
                         work>>
      PROVE  Selected'
  <2>1. /\ \A r : MachinesOf(r)' = MachinesOf(r)
        /\ \A sm : Outweighed(sm)' <=> Outweighed(sm)
        /\ ToSend' = ToSend
    BY <1>2 DEF MachinesOf, Outweighed, Priority, ToSend
  <2>2. Homes'
    BY <1>2, <2>1 DEF Selected, Homes
  <2>3. Coherence'
    BY <1>2 DEF Selected, Coherence, Coherent, NoRepeats, Listed, Firsts, Short
  <2>4. Marks' /\ Elections'
    BY <1>2, <2>1 DEF Selected, Marks, Elections
  <2> QED BY <2>2, <2>3, <2>4 DEF Selected
<1>3. CASE UNCHANGED vars
  BY <1>2, <1>3 DEF vars, holders, selection
<1>4. CASE Manager
  <2>1. CASE Cancels(Loop)
    BY <1>1, <2>1, SelectedClient
  <2> QED BY <1>4, <2>1, SelectedOutside, SelectedInit, SelectedReinit, SelectedNoCandidate,
             SelectedCandidate, SelectedDispatch DEF Manager
<1>5. ASSUME NEW r \in Resources, Client(r) PROVE Selected'
  <2>1. r \in Threads
    BY <1>1
  <2> QED BY <1>5, <2>1, SelectedClient DEF Client
<1>6. ASSUME NEW r \in Resources, Resource(r) PROVE Selected'
  <2>1. \E e \in Events : statusCallback(r, e)
    BY <1>6, StatusesAssumption DEF Resource, Obeys, Events
  <2> QED BY <1>1, <2>1, SelectedClient
<1>7. CASE Services
  <2>1. ASSUME NEW id \in Ids, stateMachineCancel(id) PROVE Selected'
    BY <1>2, <2>1 DEF stateMachineCancel, holders, selection
  <2> QED BY <1>7, <2>1, SelectedOutside DEF Services
<1> QED BY <1>3, <1>4, <1>5, <1>6, <1>7 DEF Next

LEMMA SelectedAtFirst == Init => Selected
<1> SUFFICES ASSUME Init PROVE Selected
  OBVIOUS
<1>1. Homes
  <2>1. \A r \in Resources : ToSet(ids_[r]) = {}
    BY DEF Init, ToSet
  <2> QED BY <2>1 DEF Init, Homes, Maybe
<1>2. Coherence /\ Marks /\ Elections
  BY DEF Init, Coherence, Marks, Elections, ToSend, Dispatching
<1> QED BY <1>1, <1>2 DEF Selected

\* The lists of candidates stay coherent through the selection and the dispatch, whatever
\* ends, is cancelled or forgotten meanwhile, and what is replaced is outweighed.
THEOREM SelectionCoherent == Spec => []Selected
<1>1. Init => Selected
  BY SelectedAtFirst
<1>2. TypeOK /\ Selected /\ [Next]_vars => Selected'
  BY SelectedNext
<1> QED BY <1>1, <1>2, MetaTypeCorrect, PTL DEF Spec

\* Only the loop leaves the selection, and it does so from it.
LEMMA LeavesSelection ==
  ASSUME [Next]_vars, pc = "select", pc' = "dispatch"
  PROVE  UNCHANGED state_machines_
BY DEF Next, vars, Manager, Client, Resource, Services, Obeys, Wake, applyConstraints,
       publishLateStatus, LateIsRemoved, init, NoCandidate, Candidate, reinit, Skip, Replace,
       ReplacedIsRemoved, publishPreemptStatus, SendCall, KeepId, ResetState, SendReturns,
       Cancels, CancelHolder, ResultIsIn, RelayStatus, publishStatus, removeStatusIfNeeded,
       stateMachineStatus, statusCallback,
       registerMetaStateMachine, stateMachineCancel, holders

\* A meta machine is selected on all of its resources or on none, for any number of
\* machines and resources.
THEOREM ElectedTogether == Spec => SelectedOnAll
<1>1. TypeOK /\ TypeOK' /\ Selected' /\ [Next]_vars =>
        [pc = "select" /\ pc' = "dispatch" =>
           \A r, q \in Resources :
             ids_'[r] # <<>> /\ Head(ids_'[r]) \in state_machines_[r] \cap state_machines_[q]
               => ids_'[q] # <<>> /\ Head(ids_'[q]) = Head(ids_'[r])]_vars
  <2> SUFFICES ASSUME TypeOK', Selected', [Next]_vars, pc = "select", pc' = "dispatch",
                      NEW r \in Resources, NEW q \in Resources, ids_'[r] # <<>>,
                      Head(ids_'[r]) \in state_machines_[r] \cap state_machines_[q]
               PROVE  ids_'[q] # <<>> /\ Head(ids_'[q]) = Head(ids_'[r])
    OBVIOUS
  <2>1. UNCHANGED state_machines_
    BY LeavesSelection
  <2>2. Coherent(ids_, done_)' /\ done_'[r]
    BY DEF Selected, Coherence, Dispatching
  <2>3. Head(ids_'[r]) \in ToSet(ids_'[r])
    <3>1. 1 \in DOMAIN ids_'[r] /\ ids_'[r][1] = Head(ids_'[r])
      BY DEF TypeOK
    <3> QED BY <3>1 DEF ToSet
  <2>4. Head(ids_'[r]) \in ToSet(ids_'[q])
    BY <2>1, <2>2, <2>3 DEF Coherent, Listed
  <2>5. Head(ids_'[q]) = Head(ids_'[r])
    BY <2>2, <2>4 DEF Coherent, Firsts
  <2>6. ids_'[q] # <<>>
    BY <2>4 DEF ToSet
  <2> QED BY <2>5, <2>6
<1> QED BY <1>1, MetaTypeCorrect, SelectionCoherent, PTL DEF Spec, SelectedOnAll

\* What is cancelled to make room is outweighed, on a resource it shares with a machine of
\* higher priority, for any number of machines and resources.
THEOREM ReplacedIfOutweighed == Spec => ReplacedForBetter
<1>1. TypeOK /\ Selected /\ [Next]_vars =>
        [pc = "dispatch" /\ pc' = "replace" => Outweighed(running_id_[i])]_vars
  <2> SUFFICES ASSUME TypeOK, Selected, [Next]_vars, pc = "dispatch", pc' = "replace"
               PROVE  Outweighed(running_id_[i])
    OBVIOUS
  <2>1. Replace
    BY DEF Next, vars, Manager, Client, Resource, Services, Obeys, Wake, applyConstraints,
       publishLateStatus, LateIsRemoved, init, NoCandidate, Candidate, reinit, Skip, Replace,
       ReplacedIsRemoved, publishPreemptStatus, SendCall, KeepId, ResetState, SendReturns,
       Cancels, CancelHolder, ResultIsIn, RelayStatus, publishStatus, removeStatusIfNeeded,
       stateMachineStatus, statusCallback,
       registerMetaStateMachine, stateMachineCancel, NextResource
  <2>2. i \in Resources /\ i <= i
    BY NAssumption DEF TypeOK, Resources
  <2>3. i \in ToSend /\ done_[i]
    BY <2>2 DEF ToSend, Selected, Coherence, Dispatching
  <2> QED BY <2>1, <2>3 DEF Replace, Selected, Elections
<1> QED BY <1>1, MetaTypeCorrect, SelectionCoherent, PTL DEF Spec, ReplacedForBetter
=============================================================================
