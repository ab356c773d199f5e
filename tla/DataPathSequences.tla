--------------------------- MODULE DataPathSequences ---------------------------
(***************************************************************************)
(* Facts about the sequences that the operators of DataPath return, for    *)
(* sequences of any length.                                                *)
(*                                                                         *)
(* The induction theorems of the library take an operator, which none of   *)
(* the provers can instantiate, but its theorem on minimal elements takes  *)
(* a set, and induction over a set of numbers follows from it.             *)
(***************************************************************************)
EXTENDS DataPath, SequenceTheorems, FunctionTheorems, FiniteSetTheorems,
        WellFoundedInduction, TLAPS

\* Numbers are well-founded, and so a set of them has a least one.
LEMMA LessWellFounded == IsWellFoundedOn({ss \in Nat \X Nat : ss[1] < ss[2]}, Nat)
  BY NatLessThanWellFounded, Zenon DEF OpToRel

LEMMA Least ==
  ASSUME NEW T \in SUBSET Nat, T # {}
  PROVE  \E x \in T : \A y \in T : x <= y
<1> DEFINE R == {ss \in Nat \X Nat : ss[1] < ss[2]}
<1>1. IsWellFoundedOn(R, Nat)
  BY LessWellFounded
<1> HIDE DEF R
<1>2. \E x \in T : \A y \in T : <<y, x>> \notin R
  BY <1>1, WFMin, Zenon
<1>3. ASSUME NEW x \in Nat, NEW y \in Nat, y < x
      PROVE  <<y, x>> \in R
  <2>1. <<y, x>> \in Nat \X Nat /\ <<y, x>>[1] < <<y, x>>[2]
    BY <1>3
  <2> QED
    BY <2>1 DEF R
<1>4. \A x, y \in Nat : x <= y \/ y < x
  OBVIOUS
<1> QED
  BY <1>2, <1>3, <1>4

\* A set with 0, and with the successor of each of its numbers, has all numbers.
LEMMA Induction ==
  ASSUME NEW T \in SUBSET Nat, 0 \in T, \A n \in T : n + 1 \in T
  PROVE  Nat \subseteq T
<1> SUFFICES ASSUME Nat \ T # {} PROVE FALSE
  OBVIOUS
<1>1. PICK x \in Nat \ T : \A y \in Nat \ T : x <= y
  BY Least
<1>2. x - 1 \in Nat /\ x - 1 \notin Nat \ T
  BY <1>1
<1>3. x - 1 \in T
 BY <1>2
<1> QED
  BY <1>1, <1>3

\* f starts at zero, and goes on by the steps.
Stepwise(f, zero, N, step) ==
  \A m \in 0 .. N : f[m] = IF m = 0 THEN zero ELSE step[m][f[m - 1]]

\* A function that is defined by steps from zero exists, up to any number.
LEMMA StepwiseFunction ==
  ASSUME NEW R, NEW zero \in R, NEW N \in Nat, NEW step \in [1 .. N -> [R -> R]]
  PROVE  \E f \in [0 .. N -> R] : Stepwise(f, zero, N, step)
<1> DEFINE Steps(n) == \E f \in [0 .. n -> R] :
             \A m \in 0 .. n : f[m] = IF m = 0 THEN zero ELSE step[m][f[m - 1]]
           T == {n \in Nat : n <= N => Steps(n)}
<1>1. Steps(0)
  <2> DEFINE f == [m \in 0 .. 0 |-> zero]
  <2>1. f \in [0 .. 0 -> R] /\ \A m \in 0 .. 0 : m = 0 /\ f[m] = zero
    OBVIOUS
  <2> HIDE DEF f
  <2> QED
    BY <2>1
<1>2. ASSUME NEW n \in Nat, n + 1 <= N, Steps(n) PROVE Steps(n + 1)
  <2>1. PICK f \in [0 .. n -> R] :
          \A m \in 0 .. n : f[m] = IF m = 0 THEN zero ELSE step[m][f[m - 1]]
    BY <1>2
  <2> DEFINE g == [m \in 0 .. n + 1 |-> IF m = n + 1 THEN step[m][f[n]] ELSE f[m]]
  <2>2. step[n + 1][f[n]] \in R
    <3>1. f[n] \in R /\ n + 1 \in 1 .. N
      BY <1>2
    <3> QED
      BY <3>1
  <2>3. g \in [0 .. n + 1 -> R]
    <3>1. ASSUME NEW m \in 0 .. n + 1, m # n + 1 PROVE f[m] \in R
      BY <3>1
    <3> QED
      BY <2>2, <3>1
  <2>4. /\ g[n + 1] = step[n + 1][f[n]]
        /\ \A m \in 0 .. n : g[m] = f[m]
    OBVIOUS
  <2> HIDE DEF g
  <2>5. ASSUME NEW m \in 0 .. n + 1
        PROVE  g[m] = IF m = 0 THEN zero ELSE step[m][g[m - 1]]
    <3>1. CASE m = n + 1
      <4>1. m # 0 /\ m - 1 = n /\ n \in 0 .. n
        BY <3>1
      <4> QED
        BY <2>4, <3>1, <4>1
    <3>2. CASE m # n + 1
      <4>1. m \in 0 .. n /\ (m # 0 => m - 1 \in 0 .. n)
        BY <3>2
      <4> QED
        BY <2>1, <2>4, <4>1
    <3> QED
      BY <3>1, <3>2
  <2> QED
    BY <2>3, <2>5
<1> HIDE DEF Steps
<1>3. T \in SUBSET Nat /\ 0 \in T
  BY <1>1
<1>4. ASSUME NEW n \in T PROVE n + 1 \in T
  BY <1>2
<1> HIDE DEF T
<1>5. N \in T
  BY <1>3, <1>4, Induction
<1> QED
  BY <1>5 DEF T, Steps, Stepwise

----
\* s lists the places in D, each once and in some order, by what v has there.
Listing(b, s, D, v) ==
  /\ b \in [DOMAIN s -> D]
  /\ \A m, n \in DOMAIN s : b[m] = b[n] => m = n
  /\ \A d \in D : \E n \in DOMAIN s : b[n] = d
  /\ \A n \in DOMAIN s : s[n] = v[b[n]]

Lists(s, D, v) == \E b : Listing(b, s, D, v)

\* The empty sequence lists no place.
LEMMA ListsNothing ==
  ASSUME NEW v
  PROVE  Lists(<<>>, {}, v)
<1> DEFINE b == [n \in {} |-> n]
<1>1. DOMAIN <<>> = {}
  OBVIOUS
<1>2. Listing(b, <<>>, {}, v)
  BY <1>1 DEF Listing
<1> QED
  BY <1>2 DEF Lists

\* A place is added at the end.
LEMMA ListsAppend ==
  ASSUME NEW S, NEW s \in Seq(S), NEW D, NEW v, Lists(s, D, v),
         NEW d, d \notin D, v[d] \in S
  PROVE  Lists(Append(s, v[d]), D \cup {d}, v)
<1> DEFINE t == Append(s, v[d])
           N == Len(s)
<1>1. /\ N \in Nat /\ DOMAIN s = 1 .. N
      /\ t \in Seq(S) /\ Len(t) = N + 1 /\ t[N + 1] = v[d]
      /\ \A n \in 1 .. N : t[n] = s[n]
  BY LenProperties, AppendProperties
<1>2. DOMAIN t = 1 .. N + 1
  BY <1>1, LenProperties
<1>3. PICK b : Listing(b, s, D, v)
  BY DEF Lists
<1> DEFINE c == [n \in 1 .. N + 1 |-> IF n = N + 1 THEN d ELSE b[n]]
<1> HIDE DEF t, N
<1>4. c[N + 1] = d /\ \A n \in 1 .. N : c[n] = b[n] /\ b[n] \in D
  BY <1>1, <1>3 DEF Listing
<1>5. c \in [1 .. N + 1 -> D \cup {d}]
  BY <1>1, <1>3 DEF Listing
<1> HIDE DEF c
<1>6. \A n \in 1 .. N + 1 : n = N + 1 \/ n \in 1 .. N
  BY <1>1
<1>7. Listing(c, t, D \cup {d}, v)
  <2>1. ASSUME NEW m \in 1 .. N + 1, NEW n \in 1 .. N + 1, c[m] = c[n]
        PROVE  m = n
    <3>1. \A k, l \in 1 .. N : b[k] = b[l] => k = l
      BY <1>1, <1>3 DEF Listing
    <3> QED
      BY <1>4, <1>6, <2>1, <3>1
  <2>2. ASSUME NEW e \in D \cup {d} PROVE \E n \in 1 .. N + 1 : c[n] = e
    <3>1. CASE e \in D
      <4>1. PICK n \in 1 .. N : b[n] = e
        BY <1>1, <1>3, <3>1 DEF Listing
      <4> QED
        BY <1>1, <1>4, <4>1
    <3>2. CASE e = d
      BY <1>1, <1>4, <3>2
    <3> QED
      BY <3>1, <3>2
  <2>3. ASSUME NEW n \in 1 .. N + 1 PROVE t[n] = v[c[n]]
    BY <1>1, <1>3, <1>4, <1>6 DEF Listing
  <2> QED
    BY <1>2, <1>5, <2>1, <2>2, <2>3 DEF Listing
<1> QED
  BY <1>7 DEF Lists, t

\* Kept goes through the sequence element by element.
LEMMA KeptSteps ==
  ASSUME NEW S, NEW s \in Seq(S), NEW I
  PROVE  \E f \in [0 .. Len(s) -> Seq(S)] :
           /\ f[0] = <<>>
           /\ \A m \in 1 .. Len(s) :
                f[m] = IF m \in I THEN Append(f[m - 1], s[m]) ELSE f[m - 1]
           /\ Kept(s, I) = f[Len(s)]
<1> DEFINE N == Len(s)
           next(f, m) == IF m = 0 THEN <<>>
                         ELSE IF m \in I THEN Append(f[m - 1], s[m])
                         ELSE f[m - 1]
           kept == CHOOSE f : f = [m \in 0 .. N |-> next(f, m)]
           after == [m \in 1 .. N |-> [r \in Seq(S) |->
                       IF m \in I THEN Append(r, s[m]) ELSE r]]
<1>1. N \in Nat /\ \A n \in 1 .. N : s[n] \in S
  BY LenProperties, ElementOfSeq
<1>2. <<>> \in Seq(S) /\ \A r \in Seq(S), e \in S : Append(r, e) \in Seq(S)
  BY EmptySeq, AppendProperties
<1>3. Kept(s, I) = kept[N]
  BY DEF Kept
<1> HIDE DEF N
<1>4. after \in [1 .. N -> [Seq(S) -> Seq(S)]]
  BY <1>1, <1>2
<1>5. \A m \in 1 .. N : \A r \in Seq(S) :
        after[m][r] = IF m \in I THEN Append(r, s[m]) ELSE r
  OBVIOUS
<1> HIDE DEF after
<1>6. PICK f \in [0 .. N -> Seq(S)] : Stepwise(f, <<>>, N, after)
  <2>1. N \in Nat /\ <<>> \in Seq(S)
    BY <1>1, <1>2
  <2> QED
    BY <1>4, <2>1, StepwiseFunction, Zenon
<1>7. ASSUME NEW m \in 0 .. N PROVE f[m] = next(f, m)
  <2>1. CASE m = 0
    BY <1>6, <2>1 DEF Stepwise
  <2>2. CASE m # 0
    <3>1. m \in 1 .. N /\ m - 1 \in 0 .. N
      BY <1>1, <2>2
    <3>2. f[m - 1] \in Seq(S) /\ f[m] = after[m][f[m - 1]]
      BY <1>6, <2>2, <3>1 DEF Stepwise
    <3> QED
      BY <1>5, <2>2, <3>1, <3>2
  <2> QED
    BY <2>1, <2>2
<1>8. f = [m \in 0 .. N |-> next(f, m)]
  <2> HIDE DEF next
  <2> QED
    BY <1>7
<1>9. kept = [m \in 0 .. N |-> next(kept, m)]
  BY <1>8
<1> HIDE DEF kept
<1>10. \A m \in 0 .. N : kept[m] = next(kept, m)
  <2> HIDE DEF next
  <2> QED
    BY <1>9
<1>11. 0 \in 0 .. N /\ \A m \in 1 .. N : m \in 0 .. N /\ m # 0
  BY <1>1
<1>12. /\ kept[0] = <<>>
       /\ \A m \in 1 .. N :
            kept[m] = IF m \in I THEN Append(kept[m - 1], s[m]) ELSE kept[m - 1]
  BY <1>10, <1>11
<1> DEFINE U == {n \in Nat : n <= N => kept[n] \in Seq(S)}
<1>13. U \in SUBSET Nat /\ 0 \in U
  BY <1>2, <1>12
<1>14. ASSUME NEW n \in U PROVE n + 1 \in U
  <2> SUFFICES ASSUME n + 1 <= N PROVE kept[n + 1] \in Seq(S)
    OBVIOUS
  <2>1. /\ n \in Nat /\ kept[n] \in Seq(S)
        /\ n + 1 \in 1 .. N /\ (n + 1) - 1 = n
    BY <1>1
  <2> QED
    BY <1>1, <1>2, <1>12, <2>1
<1> HIDE DEF U
<1>15. Nat \subseteq U
  BY <1>13, <1>14, Induction
<1>16. ASSUME NEW n \in 0 .. N PROVE kept[n] \in Seq(S)
  BY <1>1, <1>15 DEF U
<1>17. kept \in [0 .. N -> Seq(S)]
  <2> HIDE DEF next
  <2> QED
    BY <1>9, <1>16
<1> QED
  BY <1>3, <1>12, <1>17 DEF N

\* What is kept lists the positions it is kept from.
LEMMA KeptLists ==
  ASSUME NEW S, NEW s \in Seq(S), NEW I \in SUBSET DOMAIN s
  PROVE  Kept(s, I) \in Seq(S) /\ Lists(Kept(s, I), I, s)
<1> DEFINE N == Len(s)
<1>1. N \in Nat /\ DOMAIN s = 1 .. N /\ \A n \in 1 .. N : s[n] \in S
  BY LenProperties, ElementOfSeq
<1>2. PICK f \in [0 .. N -> Seq(S)] :
        /\ f[0] = <<>>
        /\ \A m \in 1 .. N : f[m] = IF m \in I THEN Append(f[m - 1], s[m]) ELSE f[m - 1]
        /\ Kept(s, I) = f[N]
  BY KeptSteps, Zenon
<1> HIDE DEF N
<1> DEFINE U == {n \in Nat : n <= N => Lists(f[n], I \cap 1 .. n, s)}
<1>3. U \in SUBSET Nat /\ 0 \in U
  <2>1. I \cap 1 .. 0 = {}
    OBVIOUS
  <2> QED
    BY <1>2, <2>1, ListsNothing
<1>4. ASSUME NEW n \in U PROVE n + 1 \in U
  <2> SUFFICES ASSUME n + 1 <= N PROVE Lists(f[n + 1], I \cap 1 .. n + 1, s)
    OBVIOUS
  <2>1. /\ n \in Nat /\ n + 1 \in 1 .. N /\ (n + 1) - 1 = n /\ n \in 0 .. N
        /\ Lists(f[n], I \cap 1 .. n, s)
    BY <1>1
  <2>2. f[n] \in Seq(S) /\ s[n + 1] \in S
    BY <1>1, <1>2, <2>1
  <2>3. CASE n + 1 \in I
    <3>1. f[n + 1] = Append(f[n], s[n + 1])
      BY <1>2, <2>1, <2>3
    <3>2. I \cap 1 .. n + 1 = (I \cap 1 .. n) \cup {n + 1} /\ n + 1 \notin I \cap 1 .. n
      BY <2>1, <2>3
    <3>3. Lists(Append(f[n], s[n + 1]), (I \cap 1 .. n) \cup {n + 1}, s)
      BY <2>1, <2>2, <3>2, ListsAppend
    <3> QED
      BY <3>1, <3>2, <3>3
  <2>4. CASE n + 1 \notin I
    <3>1. f[n + 1] = f[n] /\ I \cap 1 .. n + 1 = I \cap 1 .. n
      BY <1>2, <2>1, <2>4
    <3> QED
      BY <2>1, <3>1
  <2> QED
    BY <2>3, <2>4
<1> HIDE DEF U
<1>5. N \in U
  BY <1>1, <1>3, <1>4, Induction
<1>6. I \cap 1 .. N = I /\ N \in 0 .. N /\ N <= N
  BY <1>1 DEF N
<1>7. Lists(f[N], I, s)
  BY <1>5, <1>6 DEF U
<1>8. f[N] \in Seq(S)
  BY <1>2, <1>6
<1> QED
  BY <1>2, <1>7, <1>8

\* The places in D whose value is in T.
Chosen(D, v, T) == {d \in D : v[d] \in T}

\* What is kept of a sequence that lists D by its values lists those of D whose
\* values are in T.
LEMMA ListsChosen ==
  ASSUME NEW s, NEW t, NEW D, NEW v, NEW T,
         Lists(t, D, v), Lists(s, Chosen(DOMAIN t, t, T), t)
  PROVE  Lists(s, Chosen(D, v, T), v)
<1> DEFINE I == {i \in DOMAIN t : t[i] \in T}
           E == {d \in D : v[d] \in T}
<1> USE DEF Chosen
<1>1. PICK b : Listing(b, s, I, t)
  BY DEF Lists
<1>2. PICK c : Listing(c, t, D, v)
  BY DEF Lists
<1> DEFINE a == [n \in DOMAIN s |-> c[b[n]]]
<1>3. \A n \in DOMAIN s : b[n] \in DOMAIN t /\ t[b[n]] \in T /\ s[n] = t[b[n]]
  BY <1>1 DEF Listing
<1>4. \A i \in DOMAIN t : c[i] \in D /\ t[i] = v[c[i]]
  BY <1>2 DEF Listing
<1>5. \A n \in DOMAIN s : a[n] = c[b[n]] /\ c[b[n]] \in E /\ s[n] = v[a[n]]
  BY <1>3, <1>4
<1>6. a \in [DOMAIN s -> E]
  BY <1>5
<1> HIDE DEF a
<1>7. ASSUME NEW m \in DOMAIN s, NEW n \in DOMAIN s, a[m] = a[n] PROVE m = n
  <2>1. b[m] = b[n]
    BY <1>2, <1>3, <1>5, <1>7 DEF Listing
  <2> QED
    BY <1>1, <2>1 DEF Listing
<1>8. ASSUME NEW d \in E PROVE \E n \in DOMAIN s : a[n] = d
  <2>1. PICK i \in DOMAIN t : c[i] = d
    BY <1>2 DEF Listing
  <2>2. i \in I
    BY <1>4, <2>1
  <2>3. PICK n \in DOMAIN s : b[n] = i
    BY <1>1, <2>2 DEF Listing
  <2> QED
    BY <1>5, <2>1, <2>3
<1>9. Listing(a, s, E, v)
  BY <1>5, <1>6, <1>7, <1>8 DEF Listing
<1> QED
  BY <1>9 DEF Lists

\* The sequences in a sequence, one after the other, have its values at pairs of
\* a position in it and one in the sequence there; the former do not decrease.
InSeqs(ss) == UNION {{i} \X DOMAIN ss[i] : i \in DOMAIN ss}

AtPairs(ss) == [d \in InSeqs(ss) |-> ss[d[1]][d[2]]]

Ascending(b) == \A m, n \in DOMAIN b : m <= n => b[m][1] <= b[n][1]

\* FlattenSeq appends one sequence after the other.
LEMMA FlattenSteps ==
  ASSUME NEW S, NEW ss \in Seq(Seq(S))
  PROVE  \E f \in [0 .. Len(ss) -> Seq(S)] :
           /\ f[0] = <<>>
           /\ \A i \in 1 .. Len(ss) : f[i] = f[i - 1] \o ss[i]
           /\ FlattenSeq(ss) = f[Len(ss)]
<1> DEFINE N == Len(ss)
           joined(f) == [i \in 1 .. N |-> IF i = 1 THEN ss[i] ELSE f[i - 1] \o ss[i]]
           flat == CHOOSE f : f = joined(f)
           after == [i \in 1 .. N |-> [r \in Seq(S) |-> r \o ss[i]]]
<1>1. N \in Nat /\ \A i \in 1 .. N : ss[i] \in Seq(S)
  BY LenProperties, ElementOfSeq
<1>2. <<>> \in Seq(S) /\ \A r, t \in Seq(S) : r \o t \in Seq(S) /\ <<>> \o t = t
  BY EmptySeq, ConcatProperties, ConcatEmptySeq
<1>3. N # 0 => FlattenSeq(ss) = flat[N]
  BY DEF FlattenSeq
<1>4. N = 0 => FlattenSeq(ss) = <<>>
  BY EmptySeq DEF FlattenSeq
<1> HIDE DEF N
<1>5. after \in [1 .. N -> [Seq(S) -> Seq(S)]]
  BY <1>1, <1>2
<1>6. \A i \in 1 .. N : \A r \in Seq(S) : after[i][r] = r \o ss[i]
  OBVIOUS
<1> HIDE DEF after
<1>7. PICK f \in [0 .. N -> Seq(S)] : Stepwise(f, <<>>, N, after)
  <2>1. N \in Nat /\ <<>> \in Seq(S)
    BY <1>1, <1>2
  <2> QED
    BY <1>5, <2>1, StepwiseFunction, Zenon
<1>8. f[0] = <<>>
  BY <1>1, <1>7 DEF Stepwise
<1>9. ASSUME NEW i \in 1 .. N PROVE f[i] = f[i - 1] \o ss[i]
  <2>1. i \in 0 .. N /\ i # 0 /\ i - 1 \in 0 .. N
    BY <1>1
  <2>2. f[i - 1] \in Seq(S) /\ f[i] = after[i][f[i - 1]]
    BY <1>7, <2>1 DEF Stepwise
  <2> QED
    BY <1>6, <2>2
<1> DEFINE g == [i \in 1 .. N |-> f[i]]
<1>10. g = joined(g)
  <2>1. ASSUME NEW i \in 1 .. N
        PROVE  g[i] = IF i = 1 THEN ss[i] ELSE g[i - 1] \o ss[i]
    <3>1. CASE i = 1
      <4>1. i - 1 = 0
        BY <3>1
      <4> QED
        BY <1>1, <1>2, <1>8, <1>9, <3>1, <4>1
    <3>2. CASE i # 1
      <4>1. i - 1 \in 1 .. N
        BY <1>1, <3>2
      <4> QED
        BY <1>9, <3>2, <4>1
    <3> QED
      BY <3>1, <3>2
  <2> QED
    BY <2>1
<1>11. flat = joined(flat)
  BY <1>10
<1> HIDE DEF flat
<1>12. \A i \in 1 .. N : flat[i] = IF i = 1 THEN ss[i] ELSE flat[i - 1] \o ss[i]
  BY <1>11
<1> DEFINE U == {n \in Nat : n + 1 \in 1 .. N => flat[n + 1] = f[n + 1]}
<1>13. U \in SUBSET Nat /\ 0 \in U
  <2> SUFFICES ASSUME 1 \in 1 .. N PROVE flat[1] = f[1]
    OBVIOUS
  <2>1. f[1] = f[0] \o ss[1]
    <3>1. 1 - 1 = 0
      OBVIOUS
    <3> HIDE DEF N
    <3> QED
      BY <1>9, <3>1
  <2>2. flat[1] = ss[1]
    BY <1>12
  <2> QED
    BY <1>1, <1>2, <1>8, <2>1, <2>2
<1>14. ASSUME NEW n \in U PROVE n + 1 \in U
  <2> SUFFICES ASSUME (n + 1) + 1 \in 1 .. N
               PROVE  flat[(n + 1) + 1] = f[(n + 1) + 1]
    OBVIOUS
  <2> DEFINE i == (n + 1) + 1
  <2>1. n + 1 \in 1 .. N /\ i \in 1 .. N /\ i # 1 /\ i - 1 = n + 1
    BY <1>1
  <2>2. flat[n + 1] = f[n + 1]
    BY <2>1
  <2> HIDE DEF i, U
  <2>3. f[i] = f[n + 1] \o ss[i]
    BY <1>9, <2>1
  <2>4. flat[i] = flat[n + 1] \o ss[i]
    BY <1>12, <2>1
  <2> QED
    BY <2>2, <2>3, <2>4 DEF i
<1> HIDE DEF U
<1>15. Nat \subseteq U
  BY <1>13, <1>14, Induction
<1>16. N # 0 => flat[N] = f[N]
  <2> SUFFICES ASSUME N # 0 PROVE flat[N] = f[N]
    OBVIOUS
  <2>1. N - 1 \in U /\ (N - 1) + 1 = N /\ N \in 1 .. N
    BY <1>1, <1>15
  <2> QED
    BY <2>1 DEF U
<1>17. FlattenSeq(ss) = f[N]
  BY <1>3, <1>4, <1>8, <1>16
<1> QED
  BY <1>8, <1>9, <1>17 DEF N

\* The sequences at the first n positions.
InFirst(ss, n) == UNION {{i} \X DOMAIN ss[i] : i \in 1 .. n}

Flat(b, s, ss, n) == Listing(b, s, InFirst(ss, n), AtPairs(ss)) /\ Ascending(b)

\* One of these steps appends the places in one sequence.
LEMMA FlatStep ==
  ASSUME NEW S, NEW ss \in Seq(Seq(S)), NEW n \in Nat, n + 1 \in 1 .. Len(ss),
         NEW s \in Seq(S), NEW b, Flat(b, s, ss, n)
  PROVE  \E c : Flat(c, s \o ss[n + 1], ss, n + 1)
<1> DEFINE L == Len(s)
           K == Len(ss[n + 1])
           u == s \o ss[n + 1]
           v == AtPairs(ss)
           c == [m \in 1 .. L + K |-> IF m <= L THEN b[m] ELSE <<n + 1, m - L>>]
<1>1. ss[n + 1] \in Seq(S) /\ DOMAIN ss = 1 .. Len(ss) /\ Len(ss) \in Nat
  BY ElementOfSeq, LenProperties
<1>2. L \in Nat /\ DOMAIN s = 1 .. L /\ K \in Nat /\ DOMAIN ss[n + 1] = 1 .. K
  BY <1>1, LenProperties
<1>3. /\ u \in Seq(S) /\ Len(u) = L + K
      /\ \A m \in 1 .. L + K : u[m] = IF m <= L THEN s[m] ELSE ss[n + 1][m - L]
  BY <1>1, ConcatProperties
<1>4. DOMAIN u = 1 .. L + K
  BY <1>3, LenProperties
<1> HIDE DEF L, K, u
<1>5. \A i, k : <<i, k>> \in InFirst(ss, n + 1) <=>
        \/ <<i, k>> \in InFirst(ss, n)
        \/ i = n + 1 /\ k \in 1 .. K
  <2>1. 1 .. n + 1 = (1 .. n) \cup {n + 1}
    OBVIOUS
  <2> QED
    BY <1>2, <2>1 DEF InFirst
<1>6. \A d \in InFirst(ss, n) :
        d \in InFirst(ss, n + 1) /\ d[1] \in 1 .. n /\ d[1] # n + 1
  BY DEF InFirst
<1>7. ASSUME NEW k \in 1 .. K
      PROVE  /\ <<n + 1, k>> \in InFirst(ss, n + 1)
             /\ v[<<n + 1, k>>] = ss[n + 1][k]
  <2>1. <<n + 1, k>> \in InSeqs(ss)
    BY <1>1, <1>2 DEF InSeqs
  <2> QED
    BY <1>5, <2>1 DEF AtPairs
<1>8. ASSUME NEW m \in 1 .. L
      PROVE  /\ m \in 1 .. L + K /\ c[m] = b[m] /\ u[m] = v[b[m]]
             /\ b[m] \in InFirst(ss, n)
  <2>1. m \in 1 .. L + K /\ m <= L
    BY <1>2
  <2> QED
    BY <1>2, <1>3, <2>1 DEF Flat, Listing
<1>9. ASSUME NEW k \in 1 .. K
      PROVE  /\ L + k \in 1 .. L + K /\ c[L + k] = <<n + 1, k>>
             /\ u[L + k] = v[c[L + k]]
  <2>1. L + k \in 1 .. L + K /\ ~(L + k <= L) /\ (L + k) - L = k
    BY <1>2
  <2> QED
    BY <1>3, <1>7, <2>1
<1>10. \A m \in 1 .. L + K : m \in 1 .. L \/ \E k \in 1 .. K : m = L + k
  <2> SUFFICES ASSUME NEW m \in 1 .. L + K, m \notin 1 .. L
               PROVE  \E k \in 1 .. K : m = L + k
    OBVIOUS
  <2>1. m - L \in 1 .. K /\ m = L + (m - L)
    BY <1>2
  <2> QED
    BY <2>1
<1> HIDE DEF c, v
<1>11. ASSUME NEW m \in 1 .. L + K
       PROVE  c[m] \in InFirst(ss, n + 1) /\ u[m] = v[c[m]]
  <2>1. CASE m \in 1 .. L
    BY <1>6, <1>8, <2>1
  <2>2. CASE m \notin 1 .. L
    <3>1. PICK k \in 1 .. K : m = L + k
      BY <1>10, <2>2
    <3> QED
      BY <1>7, <1>9, <3>1
  <2> QED
    BY <2>1, <2>2
<1>12. /\ \A k \in 1 .. L : c[k][1] \in 1 .. n /\ c[k][1] # n + 1
       /\ \A k \in 1 .. L + K : k \notin 1 .. L => c[k][1] = n + 1
  <2>1. \A k \in 1 .. L : c[k][1] \in 1 .. n
    BY <1>6, <1>8
  <2>2. \A k \in 1 .. L + K : k \notin 1 .. L => c[k][1] = n + 1
    BY <1>9, <1>10
  <2> QED
    BY <2>1, <2>2
<1>13. c \in [DOMAIN u -> InFirst(ss, n + 1)]
  BY <1>4, <1>11 DEF c
<1>14. ASSUME NEW l \in 1 .. L + K, NEW m \in 1 .. L + K, c[l] = c[m]
       PROVE  l = m
  <2>1. CASE l \in 1 .. L /\ m \in 1 .. L
    BY <1>2, <1>8, <1>14, <2>1 DEF Flat, Listing
  <2>2. CASE l \in 1 .. L /\ m \notin 1 .. L
    BY <1>14, <1>12, <2>2
  <2>3. CASE l \notin 1 .. L /\ m \in 1 .. L
    BY <1>14, <1>12, <2>3
  <2>4. CASE l \notin 1 .. L /\ m \notin 1 .. L
    BY <1>9, <1>10, <1>14, <2>4
  <2> QED
    BY <2>1, <2>2, <2>3, <2>4
<1>15. ASSUME NEW d \in InFirst(ss, n + 1)
       PROVE  \E m \in 1 .. L + K : c[m] = d
  <2>1. d = <<d[1], d[2]>>
    BY DEF InFirst
  <2>2. CASE d \in InFirst(ss, n)
    BY <1>2, <1>8, <2>2 DEF Flat, Listing
  <2>3. CASE d[1] = n + 1 /\ d[2] \in 1 .. K
    BY <1>9, <2>1, <2>3
  <2> QED
    BY <1>5, <2>1, <2>2, <2>3
<1>16. ASSUME NEW l \in 1 .. L + K, NEW m \in 1 .. L + K, l <= m
       PROVE  c[l][1] <= c[m][1]
  <2>1. CASE m \in 1 .. L
    <3>1. l \in 1 .. L
      BY <1>2, <1>16, <2>1
    <3>2. l \in DOMAIN b /\ m \in DOMAIN b
      BY <1>2, <2>1, <3>1 DEF Flat, Listing
    <3> QED
      BY <1>8, <1>16, <2>1, <3>1, <3>2 DEF Flat, Ascending
  <2>2. CASE m \notin 1 .. L
    <3>1. c[m][1] = n + 1
      BY <1>12, <2>2
    <3>2. c[l][1] \in 1 .. n \/ c[l][1] = n + 1
      BY <1>12
    <3> QED
      BY <3>1, <3>2
  <2> QED
    BY <2>1, <2>2
<1>17. Listing(c, u, InFirst(ss, n + 1), v)
  BY <1>4, <1>11, <1>13, <1>14, <1>15 DEF Listing
<1>18. Ascending(c)
  <2>1. DOMAIN c = 1 .. L + K
    BY <1>4, <1>13
  <2> QED
    BY <1>16, <2>1 DEF Ascending
<1> QED
  BY <1>17, <1>18 DEF Flat, u, v

\* The places in FlattenSeq are those in the sequences it joins.
LEMMA FlattenLists ==
  ASSUME NEW S, NEW ss \in Seq(Seq(S))
  PROVE  /\ FlattenSeq(ss) \in Seq(S)
         /\ \E b : /\ Listing(b, FlattenSeq(ss), InSeqs(ss), AtPairs(ss))
                   /\ Ascending(b)
<1> DEFINE N == Len(ss)
<1>1. N \in Nat /\ DOMAIN ss = 1 .. N
  BY LenProperties
<1>2. PICK f \in [0 .. N -> Seq(S)] :
        /\ f[0] = <<>>
        /\ \A i \in 1 .. N : f[i] = f[i - 1] \o ss[i]
        /\ FlattenSeq(ss) = f[N]
  BY FlattenSteps
<1> DEFINE U == {n \in Nat : n <= N => \E b : Flat(b, f[n], ss, n)}
<1>3. U \in SUBSET Nat /\ 0 \in U
  <2> DEFINE b == [n \in {} |-> n]
  <2>1. InFirst(ss, 0) = {} /\ DOMAIN <<>> = {}
    BY DEF InFirst
  <2>2. Flat(b, <<>>, ss, 0)
    BY <2>1 DEF Flat, Listing, Ascending
  <2> QED
    BY <1>2, <2>2
<1>4. ASSUME NEW n \in U PROVE n + 1 \in U
  <2> SUFFICES ASSUME n + 1 <= N PROVE \E b : Flat(b, f[n + 1], ss, n + 1)
    OBVIOUS
  <2>1. /\ n \in Nat /\ n + 1 \in 1 .. N /\ n \in 0 .. N /\ (n + 1) - 1 = n
        /\ \E b : Flat(b, f[n], ss, n)
    BY <1>1
  <2>2. f[n + 1] = f[n] \o ss[n + 1] /\ f[n] \in Seq(S)
    BY <1>2, <2>1
  <2> QED
    BY <2>1, <2>2, FlatStep
<1> HIDE DEF U
<1>5. N \in U
  BY <1>1, <1>3, <1>4, Induction
<1>6. N \in 0 .. N /\ InFirst(ss, N) = InSeqs(ss)
  BY <1>1 DEF InFirst, InSeqs
<1>7. \E b : Flat(b, f[N], ss, N)
  BY <1>5, <1>6 DEF U
<1> QED
  BY <1>2, <1>6, <1>7 DEF Flat

\* If the sequences in a sequence list sets of places that do not overlap, then
\* FlattenSeq lists all these places.
LEMMA FlattenOfLists ==
  ASSUME NEW S, NEW ss \in Seq(Seq(S)), NEW E, NEW v,
         \A i \in DOMAIN ss : Lists(ss[i], E[i], v),
         \A i, j \in DOMAIN ss : i # j => E[i] \cap E[j] = {}
  PROVE  Lists(FlattenSeq(ss), UNION {E[i] : i \in DOMAIN ss}, v)
<1> DEFINE s == FlattenSeq(ss)
           D == UNION {E[i] : i \in DOMAIN ss}
           p == [i \in DOMAIN ss |-> CHOOSE b : Listing(b, ss[i], E[i], v)]
<1>1. PICK b : Listing(b, s, InSeqs(ss), AtPairs(ss))
  BY FlattenLists
<1>2. \A i \in DOMAIN ss : Listing(p[i], ss[i], E[i], v)
  BY Zenon DEF Lists
<1> DEFINE a == [n \in DOMAIN s |-> p[b[n][1]][b[n][2]]]
<1>3. \A i \in DOMAIN ss : \A k \in DOMAIN ss[i] :
        <<i, k>> \in InSeqs(ss) /\ AtPairs(ss)[<<i, k>>] = ss[i][k]
  BY DEF InSeqs, AtPairs
<1> HIDE DEF p, s
<1>4. ASSUME NEW n \in DOMAIN s
      PROVE  /\ b[n][1] \in DOMAIN ss /\ b[n][2] \in DOMAIN ss[b[n][1]]
             /\ b[n] = <<b[n][1], b[n][2]>>
             /\ s[n] = ss[b[n][1]][b[n][2]]
  <2>1. b[n] \in InSeqs(ss) /\ s[n] = AtPairs(ss)[b[n]]
    BY <1>1 DEF Listing
  <2>2. PICK i \in DOMAIN ss : b[n] \in {i} \X DOMAIN ss[i]
    BY <2>1 DEF InSeqs
  <2>3. PICK k \in DOMAIN ss[i] : b[n] = <<i, k>>
    BY <2>2
  <2> QED
    BY <1>3, <2>1, <2>3
<1>5. ASSUME NEW n \in DOMAIN s
      PROVE  a[n] \in E[b[n][1]] /\ a[n] \in D /\ s[n] = v[a[n]]
  <2>1. a[n] = p[b[n][1]][b[n][2]]
    OBVIOUS
  <2>2. /\ p[b[n][1]][b[n][2]] \in E[b[n][1]]
        /\ ss[b[n][1]][b[n][2]] = v[p[b[n][1]][b[n][2]]]
    BY <1>2, <1>4 DEF Listing
  <2> HIDE DEF a
  <2> QED
    BY <1>4, <2>1, <2>2
<1>6. a \in [DOMAIN s -> D]
  <2> HIDE DEF D
  <2> QED
    BY <1>5
<1>7. ASSUME NEW m \in DOMAIN s, NEW n \in DOMAIN s, a[m] = a[n] PROVE m = n
  <2> HIDE DEF D
  <2>1. b[m][1] = b[n][1]
    <3> HIDE DEF a
    <3> QED
      BY <1>4, <1>5, <1>7
  <2>2. b[m][2] = b[n][2]
    BY <1>2, <1>4, <1>7, <2>1 DEF Listing
  <2>3. b[m] = b[n]
    BY <1>4, <2>1, <2>2
  <2> QED
    BY <1>1, <2>3 DEF Listing
<1>8. ASSUME NEW d \in D PROVE \E n \in DOMAIN s : a[n] = d
  <2>1. PICK i \in DOMAIN ss : d \in E[i]
    OBVIOUS
  <2>2. PICK k \in DOMAIN ss[i] : p[i][k] = d
    BY <1>2, <2>1 DEF Listing
  <2>3. PICK n \in DOMAIN s : b[n] = <<i, k>>
    BY <1>1, <1>3 DEF Listing
  <2> QED
    BY <2>2, <2>3
<1> HIDE DEF a
<1>9. Listing(a, s, D, v)
  BY <1>5, <1>6, <1>7, <1>8 DEF Listing
<1> QED
  BY <1>9 DEF Lists, s

\* Every order of a finite set has each of its elements.
LEMMA OrderOfAll ==
  ASSUME NEW ids, IsFiniteSet(ids), NEW order \in Orders(ids)
  PROVE  /\ order \in Seq(ids) /\ DOMAIN order = 1 .. Len(order)
         /\ \A i, j \in DOMAIN order : order[i] = order[j] => i = j
         /\ \A i \in ids : \E n \in DOMAIN order : order[n] = i
<1> DEFINE N == Cardinality(ids)
<1>1. N \in Nat
  BY FS_CardinalityType
<1>2. /\ order \in [1 .. N -> ids]
      /\ \A i, j \in 1 .. N : order[i] = order[j] => i = j
  BY DEF Orders
<1>3. IsFiniteSet(1 .. N) /\ Cardinality(1 .. N) = N
  BY <1>1, FS_Interval
<1> HIDE DEF N
<1>4. order \in Injection(1 .. N, ids)
  BY <1>2, Fun_IsInj
<1>5. order \in Surjection(1 .. N, ids)
  BY <1>3, <1>4, FS_Injection DEF N
<1>6. \A i \in ids : \E n \in 1 .. N : order[n] = i
  BY <1>5 DEF Surjection
<1>7. order \in Seq(ids)
  BY <1>1, <1>2, SeqDef
<1> QED
  BY <1>2, <1>6, <1>7, LenProperties

\* The objects list places, each of them its own.
ListEach(objects, ids, S, E, v) ==
  /\ \A i \in ids : objects[i] \in Seq(S) /\ Lists(objects[i], E[i], v)
  /\ \A i, j \in ids : i # j => E[i] \cap E[j] = {}

\* The places of all of them.
Joined(E, ids) == UNION {E[i] : i \in ids}

\* So objects that are read in any order list what they list together.
LEMMA ReadLists ==
  ASSUME NEW S, NEW objects, NEW ids, IsFiniteSet(ids), NEW order \in Orders(ids),
         NEW E, NEW v, ListEach(objects, ids, S, E, v)
  PROVE  /\ Read(objects, order) \in Seq(S)
         /\ Lists(Read(objects, order), Joined(E, ids), v)
<1> USE DEF ListEach, Joined
<1> DEFINE ss == [i \in DOMAIN order |-> objects[order[i]]]
           F == [i \in DOMAIN order |-> E[order[i]]]
<1>1. /\ order \in Seq(ids) /\ DOMAIN order = 1 .. Len(order)
      /\ \A i, j \in DOMAIN order : order[i] = order[j] => i = j
      /\ \A i \in ids : \E n \in DOMAIN order : order[n] = i
  BY OrderOfAll
<1>2. Len(order) \in Nat /\ \A n \in DOMAIN order : order[n] \in ids
  BY <1>1, LenProperties, ElementOfSeq
<1>3. ss \in [1 .. Len(order) -> Seq(S)]
  BY <1>1, <1>2
<1>4. ss \in Seq(Seq(S)) /\ DOMAIN ss = DOMAIN order
  BY <1>2, <1>3, SeqDef
<1>5. \A n \in DOMAIN ss : Lists(ss[n], F[n], v)
  BY <1>2
<1>6. \A m, n \in DOMAIN ss : m # n => F[m] \cap F[n] = {}
  BY <1>1, <1>2
<1>7. UNION {F[n] : n \in DOMAIN ss} = UNION {E[i] : i \in ids}
  BY <1>1, <1>2
<1> HIDE DEF F
<1>8. Read(objects, order) = FlattenSeq(ss)
  BY DEF Read
<1> HIDE DEF ss
<1>9. FlattenSeq(ss) \in Seq(S)
  BY <1>4, FlattenLists
<1>10. Lists(FlattenSeq(ss), UNION {F[n] : n \in DOMAIN ss}, v)
  BY <1>4, <1>5, <1>6, FlattenOfLists
<1> QED
  BY <1>7, <1>8, <1>9, <1>10

\* A sequence that lists D is as long as D is large, and has its values.
LEMMA ListsSize ==
  ASSUME NEW S, NEW s \in Seq(S), NEW D, NEW v, Lists(s, D, v)
  PROVE  /\ IsFiniteSet(D) /\ Cardinality(D) = Len(s)
         /\ ToSet(s) = {v[d] : d \in D}
<1>1. PICK b : Listing(b, s, D, v)
  BY DEF Lists
<1>2. Len(s) \in Nat /\ DOMAIN s = 1 .. Len(s)
  BY LenProperties
<1>3. b \in Bijection(1 .. Len(s), D)
  BY <1>1, <1>2, Fun_IsBij DEF Listing
<1>4. ExistsBijection(1 .. Len(s), D)
  BY <1>3 DEF ExistsBijection
<1>5. IsFiniteSet(1 .. Len(s)) /\ Cardinality(1 .. Len(s)) = Len(s)
  <2> DEFINE n == Len(s)
  <2> HIDE DEF n
  <2>1. n \in Nat /\ n \in Int /\ 1 \in Int
    BY <1>2 DEF n
  <2>2. /\ IsFiniteSet(1 .. n)
        /\ Cardinality(1 .. n) = IF 1 > n THEN 0 ELSE n - 1 + 1
    BY <2>1, FS_Interval
  <2> QED
    BY <2>1, <2>2 DEF n
<1>6. IsFiniteSet(D) /\ Cardinality(D) = Len(s)
  BY <1>4, <1>5, FS_Bijection
<1>7. ToSet(s) = {v[d] : d \in D}
  BY <1>1 DEF Listing, ToSet
<1> QED
  BY <1>6, <1>7

\* How many of the places in D have the value x in v.
Times(D, v, x) == Cardinality({d \in D : v[d] = x})

\* An element is in it as often as it is a value of D.
LEMMA ListsCount ==
  ASSUME NEW s, NEW D, NEW v, NEW x, Lists(s, D, v), IsFiniteSet(D)
  PROVE  Times(DOMAIN s, s, x) = Times(D, v, x)
<1> DEFINE at == {i \in DOMAIN s : s[i] = x}
           of == {d \in D : v[d] = x}
<1>1. PICK b : Listing(b, s, D, v)
  BY DEF Lists
<1> DEFINE a == [i \in at |-> b[i]]
<1>2. \A i \in at : a[i] = b[i] /\ b[i] \in of
  BY <1>1 DEF Listing
<1>3. a \in [at -> of]
  BY <1>2
<1>4. \A i, j \in at : a[i] = a[j] => i = j
  BY <1>1 DEF Listing
<1>5. \A d \in of : \E i \in at : a[i] = d
  BY <1>1 DEF Listing
<1> HIDE DEF a, at, of
<1>6. a \in Bijection(at, of)
  BY <1>3, <1>4, <1>5, Fun_IsBij
<1>7. ExistsBijection(of, at)
  BY <1>6, Fun_ExistsBijSymmetric DEF ExistsBijection
<1>8. IsFiniteSet(of)
  BY FS_Subset DEF of
<1>9. Cardinality(at) = Cardinality(of)
  BY <1>7, <1>8, FS_Bijection
<1> QED
  BY <1>9 DEF at, of, Times

\* Two sequences that list the same hold each element equally often.
LEMMA ListsBag ==
  ASSUME NEW S, NEW s \in Seq(S), NEW t \in Seq(S), NEW D, NEW v,
         Lists(s, D, v), Lists(t, D, v)
  PROVE  ToBag(s) = ToBag(t)
<1> DEFINE values == {v[d] : d \in D}
<1>1. IsFiniteSet(D)
  BY ListsSize
<1>2. Range(s) = values /\ Range(t) = values
  <2>1. PICK b : Listing(b, s, D, v)
    BY DEF Lists
  <2>2. PICK c : Listing(c, t, D, v)
    BY DEF Lists
  <2>3. Range(s) = values
    BY <2>1 DEF Listing, Range
  <2>4. Range(t) = values
    BY <2>2 DEF Listing, Range
  <2> QED
    BY <2>3, <2>4
<1>3. ASSUME NEW x
      PROVE  /\ Times(DOMAIN s, s, x) = Times(D, v, x)
             /\ Times(DOMAIN t, t, x) = Times(D, v, x)
  BY <1>1, ListsCount
<1> HIDE DEF values
<1>4. ToBag(s) = [x \in values |-> Times(DOMAIN s, s, x)]
  BY <1>2 DEF ToBag, Times
<1>5. ToBag(t) = [x \in values |-> Times(DOMAIN t, t, x)]
  BY <1>2 DEF ToBag, Times
<1> QED
  BY <1>3, <1>4, <1>5

\* The sum of ones is their number.
LEMMA SumOfOnes ==
  ASSUME NEW s \in Seq({1})
  PROVE  Sum(s) = Len(s)
<1> DEFINE N == Len(s)
           next(f, m) == IF m = 0 THEN 0 ELSE f[m - 1] + s[m]
           sum == CHOOSE f : f = [m \in 0 .. N |-> next(f, m)]
           g == [m \in 0 .. N |-> m]
<1>1. N \in Nat /\ \A n \in 1 .. N : s[n] = 1
  BY LenProperties, ElementOfSeq
<1>2. Sum(s) = sum[N]
  BY DEF Sum
<1> HIDE DEF N
<1>3. ASSUME NEW m \in 0 .. N PROVE next(g, m) = m
  <2>1. CASE m = 0
    BY <2>1
  <2>2. CASE m # 0
    <3>1. m \in 1 .. N /\ m - 1 \in 0 .. N
      BY <1>1, <2>2
    <3> QED
      BY <1>1, <2>2, <3>1
  <2> QED
    BY <2>1, <2>2
<1>4. g = [m \in 0 .. N |-> next(g, m)]
  <2> HIDE DEF next
  <2> QED
    BY <1>3
<1>5. sum = [m \in 0 .. N |-> next(sum, m)]
  BY <1>4
<1> HIDE DEF sum
<1>6. \A m \in 0 .. N : sum[m] = next(sum, m)
  <2> HIDE DEF next
  <2> QED
    BY <1>5
<1> DEFINE U == {n \in Nat : n <= N => sum[n] = n}
<1>7. U \in SUBSET Nat /\ 0 \in U
  BY <1>1, <1>6
<1>8. ASSUME NEW n \in U PROVE n + 1 \in U
  <2> SUFFICES ASSUME n + 1 <= N PROVE sum[n + 1] = n + 1
    OBVIOUS
  <2>1. /\ n + 1 \in 1 .. N /\ n + 1 \in 0 .. N /\ n + 1 # 0 /\ (n + 1) - 1 = n
        /\ n \in Nat /\ sum[n] = n
    BY <1>1
  <2>2. sum[n + 1] = sum[n] + s[n + 1]
    BY <1>6, <2>1
  <2> QED
    BY <1>1, <2>1, <2>2
<1> HIDE DEF U
<1>9. N \in U
  BY <1>1, <1>7, <1>8, Induction
<1> QED
  BY <1>1, <1>2, <1>9 DEF U, N

\* g takes the places in D to those in E, each to one with the same value.
Matches(g, D, v, E, u) ==
  /\ g \in [D -> E]
  /\ \A d, e \in D : g[d] = g[e] => d = e
  /\ \A e \in E : \E d \in D : g[d] = e
  /\ \A d \in D : v[d] = u[g[d]]

\* The places may be renamed.
LEMMA ListsMoved ==
  ASSUME NEW s, NEW D, NEW v, NEW E, NEW u, NEW g,
         Lists(s, D, v), Matches(g, D, v, E, u)
  PROVE  Lists(s, E, u)
<1> USE DEF Matches
<1>1. PICK b : Listing(b, s, D, v)
  BY DEF Lists
<1> DEFINE a == [n \in DOMAIN s |-> g[b[n]]]
<1>2. \A n \in DOMAIN s : a[n] = g[b[n]] /\ b[n] \in D /\ s[n] = v[b[n]]
  BY <1>1 DEF Listing
<1>3. a \in [DOMAIN s -> E]
  BY <1>2
<1> HIDE DEF a
<1>4. ASSUME NEW m \in DOMAIN s, NEW n \in DOMAIN s, a[m] = a[n] PROVE m = n
  <2>1. b[m] = b[n]
    BY <1>2, <1>4
  <2> QED
    BY <1>1, <2>1 DEF Listing
<1>5. ASSUME NEW e \in E PROVE \E n \in DOMAIN s : a[n] = e
  <2>1. PICK d \in D : g[d] = e
    OBVIOUS
  <2>2. PICK n \in DOMAIN s : b[n] = d
    BY <1>1 DEF Listing
  <2> QED
    BY <1>2, <2>1, <2>2
<1>6. \A n \in DOMAIN s : s[n] = u[a[n]]
  BY <1>2
<1> QED
  BY <1>3, <1>4, <1>5, <1>6 DEF Lists, Listing

\* Two sets that one sequence lists correspond.
LEMMA ListsSame ==
  ASSUME NEW s, NEW D, NEW v, NEW E, NEW u, Lists(s, D, v), Lists(s, E, u)
  PROVE  \E g : Matches(g, D, v, E, u)
<1>1. PICK b : Listing(b, s, D, v)
  BY DEF Lists
<1>2. PICK c : Listing(c, s, E, u)
  BY DEF Lists
<1> DEFINE at == [d \in D |-> CHOOSE n \in DOMAIN s : b[n] = d]
           g == [d \in D |-> c[at[d]]]
<1>3. \A d \in D : at[d] \in DOMAIN s /\ b[at[d]] = d
  BY <1>1 DEF Listing
<1>4. \A n \in DOMAIN s : b[n] \in D /\ at[b[n]] = n
  BY <1>1, <1>3 DEF Listing
<1> HIDE DEF at
<1>5. \A d \in D : g[d] = c[at[d]] /\ g[d] \in E /\ u[g[d]] = s[at[d]] /\ s[at[d]] = v[d]
  BY <1>1, <1>2, <1>3 DEF Listing
<1>6. g \in [D -> E]
  BY <1>5
<1> HIDE DEF g
<1>7. ASSUME NEW d \in D, NEW e \in D, g[d] = g[e] PROVE d = e
  <2>1. at[d] = at[e]
    BY <1>2, <1>3, <1>5, <1>7 DEF Listing
  <2> QED
    BY <1>3, <2>1
<1>8. ASSUME NEW e \in E PROVE \E d \in D : g[d] = e
  <2>1. PICK n \in DOMAIN s : c[n] = e
    BY <1>2 DEF Listing
  <2> QED
    BY <1>4, <1>5, <2>1
<1> QED
  BY <1>5, <1>6, <1>7, <1>8 DEF Matches

\* What is kept of the elements in T, by the places of the sequence they are
\* kept from.
LEMMA KeptOf ==
  ASSUME NEW S, NEW s \in Seq(S), NEW D, NEW v, Lists(s, D, v), NEW T, NEW I,
         I = Chosen(DOMAIN s, s, T)
  PROVE  Kept(s, I) \in Seq(S) /\ Lists(Kept(s, I), Chosen(D, v, T), v)
<1>1. I \in SUBSET DOMAIN s
  BY DEF Chosen
<1>2. Kept(s, I) \in Seq(S) /\ Lists(Kept(s, I), I, s)
  BY <1>1, KeptLists
<1> QED
  BY <1>2, ListsChosen

\* The values of the places that a sequence lists are its elements.
LEMMA ListsValues ==
  ASSUME NEW S, NEW s \in Seq(S), NEW D, NEW v, Lists(s, D, v)
  PROVE  \A d \in D : v[d] \in S
<1>1. PICK b : Listing(b, s, D, v)
  BY DEF Lists
<1>2. \A n \in DOMAIN s : s[n] \in S
  BY LenProperties, ElementOfSeq
<1> QED
  BY <1>1, <1>2 DEF Listing

----
\* The places in D that have the key w.
At(D, v, w) == {d \in D : v[d][1] = w}

\* The pairs of one key.
LEMMA OfKeyLists ==
  ASSUME NEW V, NEW s \in Seq(Words \X V), NEW D, NEW v, Lists(s, D, v), NEW w
  PROVE  /\ OfKey(w, s) \in Seq(Words \X V)
         /\ Lists(OfKey(w, s), At(D, v, w), v)
         /\ \A n \in DOMAIN OfKey(w, s) : OfKey(w, s)[n][1] = w
<1> DEFINE P == Words \X V
           T == {x \in P : x[1] = w}
           I == {i \in DOMAIN s : Key(s[i]) = w}
<1>1. \A n \in DOMAIN s : s[n] \in P
  BY LenProperties, ElementOfSeq
<1>2. \A d \in D : v[d] \in P
  BY ListsValues
<1>3. I = Chosen(DOMAIN s, s, T)
  BY <1>1 DEF Key, Chosen
<1>4. Chosen(D, v, T) = At(D, v, w)
  BY <1>2 DEF Chosen, At
<1> HIDE DEF I, T, P
<1>5. Kept(s, I) \in Seq(P) /\ Lists(Kept(s, I), Chosen(D, v, T), v)
  BY <1>3, KeptOf DEF P
<1>6. OfKey(w, s) = Kept(s, I)
  BY DEF OfKey, I
<1>7. \A n \in DOMAIN Kept(s, I) : Kept(s, I)[n][1] = w
  <2> DEFINE C == Chosen(D, v, T)
             k == Kept(s, I)
  <2>1. \A d \in C : v[d][1] = w
    BY <1>4 DEF At
  <2> HIDE DEF C, k
  <2>2. PICK b : Listing(b, k, C, v)
    BY <1>5 DEF Lists, C, k
  <2>3. \A n \in DOMAIN k : b[n] \in C /\ k[n] = v[b[n]]
    BY <2>2 DEF Listing
  <2>4. \A n \in DOMAIN k : k[n][1] = w
    BY <2>1, <2>3
  <2> QED
    BY <2>4 DEF k
<1> QED
  BY <1>4, <1>5, <1>6, <1>7 DEF P

\* Pairs that are sorted by key are the same pairs.
LEMMA ByKeyLists ==
  ASSUME NEW V, NEW s \in Seq(Words \X V), NEW D, NEW v, Lists(s, D, v)
  PROVE  /\ ByKey(s) \in Seq(Words \X V)
         /\ Lists(ByKey(s), D, v)
         /\ \A m, n \in DOMAIN ByKey(s) : m <= n => ByKey(s)[m][1] <= ByKey(s)[n][1]
<1> DEFINE P == Words \X V
           ss == [w \in Words |-> OfKey(w, s)]
           E == [w \in Words |-> At(D, v, w)]
<1>1. ASSUME NEW w \in Words
      PROVE  /\ ss[w] \in Seq(P) /\ Lists(ss[w], E[w], v)
             /\ \A n \in DOMAIN ss[w] : ss[w][n][1] = w
  <2>1. ss[w] = OfKey(w, s) /\ E[w] = At(D, v, w)
    OBVIOUS
  <2>2. /\ OfKey(w, s) \in Seq(P)
        /\ Lists(OfKey(w, s), At(D, v, w), v)
        /\ \A n \in DOMAIN OfKey(w, s) : OfKey(w, s)[n][1] = w
    BY OfKeyLists
  <2> QED
    BY <2>1, <2>2
<1>2. NumWords \in Nat /\ Words = 1 .. NumWords
  BY WordsAssumption DEF Words
<1>3. ss \in Seq(Seq(P)) /\ DOMAIN ss = Words
  <2>1. ss \in [1 .. NumWords -> Seq(P)]
    BY <1>1, <1>2
  <2> QED
    BY <1>2, <2>1, SeqDef
<1>4. \A i, j \in DOMAIN ss : i # j => E[i] \cap E[j] = {}
  BY <1>3 DEF At
<1>5. UNION {E[i] : i \in DOMAIN ss} = D
  <2>1. \A d \in D : v[d][1] \in Words
    BY ListsValues
  <2> QED
    BY <1>3, <2>1 DEF At
<1>6. ByKey(s) = FlattenSeq(ss)
  BY DEF ByKey
<1> HIDE DEF ss, E, P
<1>7. Lists(FlattenSeq(ss), UNION {E[i] : i \in DOMAIN ss}, v)
  BY <1>1, <1>3, <1>4, FlattenOfLists
<1>8. FlattenSeq(ss) \in Seq(P)
  BY <1>3, FlattenLists
<1>9. PICK b : /\ Listing(b, FlattenSeq(ss), InSeqs(ss), AtPairs(ss))
               /\ Ascending(b)
  BY <1>3, FlattenLists
<1>10. ASSUME NEW n \in DOMAIN FlattenSeq(ss)
       PROVE  n \in DOMAIN b /\ FlattenSeq(ss)[n][1] = b[n][1]
  <2>1. /\ n \in DOMAIN b /\ b[n] \in InSeqs(ss)
        /\ FlattenSeq(ss)[n] = AtPairs(ss)[b[n]]
    BY <1>9 DEF Listing
  <2>2. AtPairs(ss)[b[n]] = ss[b[n][1]][b[n][2]]
    BY <2>1 DEF AtPairs
  <2>3. b[n][1] \in Words /\ b[n][2] \in DOMAIN ss[b[n][1]]
    BY <1>3, <2>1 DEF InSeqs
  <2> QED
    BY <1>1, <2>1, <2>2, <2>3
<1>11. \A m, n \in DOMAIN FlattenSeq(ss) :
         m <= n => FlattenSeq(ss)[m][1] <= FlattenSeq(ss)[n][1]
  BY <1>9, <1>10 DEF Ascending
<1> QED
  BY <1>5, <1>6, <1>7, <1>8, <1>11 DEF P

\* The places in D whose key is routed to p.
RoutedTo(D, v, route, p) == {d \in D : route[v[d][1]] = p}

\* The pairs of the keys that are routed to p.
LEMMA RoutedLists ==
  ASSUME NEW V, NEW s \in Seq(Words \X V), NEW D, NEW v, Lists(s, D, v),
         NEW route, NEW p
  PROVE  /\ Routed(s, route, p) \in Seq(Words \X V)
         /\ Lists(Routed(s, route, p), RoutedTo(D, v, route, p), v)
<1> DEFINE P == Words \X V
           T == {x \in P : route[x[1]] = p}
           I == {i \in DOMAIN s : route[Key(s[i])] = p}
<1>1. \A n \in DOMAIN s : s[n] \in P
  BY LenProperties, ElementOfSeq
<1>2. \A d \in D : v[d] \in P
  BY ListsValues
<1>3. I = Chosen(DOMAIN s, s, T)
  BY <1>1 DEF Key, Chosen
<1>4. Chosen(D, v, T) = RoutedTo(D, v, route, p)
  BY <1>2 DEF Chosen, RoutedTo
<1> HIDE DEF I, T, P
<1>5. Kept(s, I) \in Seq(P) /\ Lists(Kept(s, I), Chosen(D, v, T), v)
  BY <1>3, KeptOf DEF P
<1>6. Routed(s, route, p) = Kept(s, I)
  BY DEF Routed, I
<1> QED
  BY <1>4, <1>5, <1>6 DEF P

\* The keys of the places in D, and what the script combines the values of
\* those of one key to, in whatever order they are read.
KeysOf(D, v) == {w \in Words : At(D, v, w) # {}}

Total(script, D, v, w) ==
  IF script = "count" THEN Cardinality(At(D, v, w))
                      ELSE {v[d][2] : d \in At(D, v, w)}

Totals(script, D, v) == [w \in Words |-> <<w, Total(script, D, v, w)>>]

\* The values of a key are combined to its total.
LEMMA CombinedTotal ==
  ASSUME NEW script, NEW V, script = "count" => V = {1},
         NEW s \in Seq(Words \X V), NEW D, NEW v, Lists(s, D, v), NEW w
  PROVE  /\ Combined(script, ValuesOf(w, s)) = Total(script, D, v, w)
         /\ script = "count" => Total(script, D, v, w) \in Nat
         /\ script # "count" => Total(script, D, v, w) \subseteq V
<1> DEFINE own == OfKey(w, s)
           A == At(D, v, w)
           values == [i \in DOMAIN own |-> Value(own[i])]
<1>1. own \in Seq(Words \X V) /\ Lists(own, A, v)
  BY OfKeyLists
<1>2. ValuesOf(w, s) = values
  BY DEF ValuesOf
<1> HIDE DEF own, A
<1>3. /\ Len(own) \in Nat /\ DOMAIN own = 1 .. Len(own)
      /\ \A i \in DOMAIN own : own[i] \in Words \X V
  BY <1>1, LenProperties, ElementOfSeq
<1>4. \A i \in DOMAIN own : values[i] = own[i][2] /\ values[i] \in V
  BY <1>3 DEF Value
<1>5. DOMAIN values = DOMAIN own
  OBVIOUS
<1>6. values \in Seq(V)
  <2>1. values \in [1 .. Len(own) -> V]
    BY <1>3, <1>4
  <2> QED
    BY <1>3, <2>1, SeqDef
<1>7. IsFiniteSet(A) /\ Cardinality(A) = Len(own)
  BY <1>1, ListsSize
<1>8. CASE script = "count"
  <2>1. Sum(values) = Len(values)
    BY <1>6, <1>8, SumOfOnes
  <2>2. Len(values) = Len(own)
    <3> HIDE DEF values
    <3>1. Len(values) \in Nat /\ DOMAIN values = 1 .. Len(values)
      BY <1>6, LenProperties
    <3> QED
      BY <1>3, <1>5, <3>1
  <2> QED
    BY <1>2, <1>3, <1>7, <1>8, <2>1, <2>2 DEF Combined, Counted, Total, A
<1>9. CASE script # "count"
  <2>1. PICK b : Listing(b, own, A, v)
    BY <1>1 DEF Lists
  <2>2. ToSet(values) = {v[d][2] : d \in A}
    <3>1. \A i \in DOMAIN own : b[i] \in A /\ values[i] = v[b[i]][2]
      BY <1>4, <2>1 DEF Listing
    <3>2. \A d \in A : \E i \in DOMAIN own : values[i] = v[d][2]
      BY <1>4, <2>1 DEF Listing
    <3> HIDE DEF values
    <3> QED
      BY <1>5, <3>1, <3>2 DEF ToSet
  <2>3. ToSet(values) \subseteq V
    <3> HIDE DEF values
    <3> QED
      BY <1>4, <1>5 DEF ToSet
  <2> QED
    BY <1>2, <1>9, <2>2, <2>3 DEF Combined, Total, A
<1> QED
  BY <1>8, <1>9

\* What reducing pairs returns has one line for each of their keys.
LEMMA ReducedLists ==
  ASSUME NEW script, NEW V, script = "count" => V = {1}, NEW W,
         script = "count" => W = Nat, script # "count" => W = SUBSET V,
         NEW s \in Seq(Words \X V), NEW D, NEW v, Lists(s, D, v)
  PROVE  /\ Reduced(script, s) \in Seq(Words \X W)
         /\ Lists(Reduced(script, s), KeysOf(D, v), Totals(script, D, v))
<1> DEFINE I == {Key(s[i]) : i \in DOMAIN s}
           all == [w \in Words |-> w]
           keys == Kept(all, I)
           r == [k \in DOMAIN keys |-> <<keys[k], Combined(script, ValuesOf(keys[k], s))>>]
           K == KeysOf(D, v)
           T == Totals(script, D, v)
<1>1. I = K
  <2>1. PICK b : Listing(b, s, D, v)
    BY DEF Lists
  <2>2. \A i \in DOMAIN s : Key(s[i]) \in Words /\ Key(s[i]) = s[i][1]
    BY LenProperties, ElementOfSeq DEF Key
  <2>3. \A d \in D : v[d][1] \in Words
    BY ListsValues
  <2>4. ASSUME NEW w \in I PROVE w \in K
    <3>1. PICK i \in DOMAIN s : w = Key(s[i])
      OBVIOUS
    <3>2. w \in Words /\ b[i] \in D /\ v[b[i]][1] = w
      BY <2>1, <2>2, <3>1 DEF Listing
    <3> QED
      BY <3>2 DEF KeysOf, At
  <2>5. ASSUME NEW w \in K PROVE w \in I
    <3>1. PICK d \in D : v[d][1] = w
      BY DEF KeysOf, At
    <3>2. PICK i \in DOMAIN s : b[i] = d
      BY <2>1 DEF Listing
    <3> QED
      BY <2>1, <2>2, <3>1, <3>2 DEF Listing
  <2> QED
    BY <2>4, <2>5
<1>2. NumWords \in Nat /\ Words = 1 .. NumWords
  BY WordsAssumption DEF Words
<1>3. all \in Seq(Words) /\ DOMAIN all = Words
  <2>1. all \in [1 .. NumWords -> Words]
    BY <1>2
  <2> QED
    BY <1>2, <2>1, SeqDef
<1>4. K \in SUBSET DOMAIN all
  BY <1>3 DEF KeysOf
<1>5. Reduced(script, s) = r
  BY DEF Reduced
<1>6. \A w \in Words : all[w] = w
  OBVIOUS
<1>7. \A w \in Words : T[w] = <<w, Total(script, D, v, w)>>
  BY DEF Totals
<1> HIDE DEF I, all, K, T
<1>8. keys \in Seq(Words) /\ Lists(keys, K, all)
  BY <1>1, <1>3, <1>4, KeptLists
<1> HIDE DEF keys
<1>9. PICK b : Listing(b, keys, K, all)
  BY <1>8 DEF Lists
<1>10. ASSUME NEW k \in DOMAIN keys
       PROVE  r[k] = T[b[k]] /\ r[k] \in Words \X W
  <2>1. b[k] \in K /\ b[k] \in Words /\ keys[k] = b[k]
    BY <1>3, <1>4, <1>6, <1>9 DEF Listing
  <2> DEFINE w == b[k]
  <2> HIDE DEF w
  <2>2. /\ Combined(script, ValuesOf(w, s)) = Total(script, D, v, w)
        /\ script = "count" => Total(script, D, v, w) \in Nat
        /\ script # "count" => Total(script, D, v, w) \subseteq V
    BY CombinedTotal, Zenon
  <2>3. Total(script, D, v, w) \in W
    BY <2>2
  <2> QED
    BY <1>7, <2>1, <2>2, <2>3 DEF w
<1>11. Len(keys) \in Nat /\ DOMAIN keys = 1 .. Len(keys) /\ DOMAIN r = DOMAIN keys
  BY <1>8, LenProperties
<1> HIDE DEF r
<1>12. r \in [1 .. Len(keys) -> Words \X W]
  BY <1>10, <1>11 DEF r
<1>13. r \in Seq(Words \X W)
  BY <1>11, <1>12, SeqDef
<1>14. Listing(b, r, K, T)
  BY <1>9, <1>10, <1>11 DEF Listing
<1> QED
  BY <1>5, <1>13, <1>14 DEF Lists, K, T
=============================================================================
