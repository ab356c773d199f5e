---------------------------- MODULE DataPathProofs ----------------------------
(***************************************************************************)
(* For any input file, any numbers of mappers and reducers, any hash and   *)
(* any order of the tasks: the split loses no line, the parts hold what    *)
(* was read of the outputs, and what is reduced and merged is the answer   *)
(* for the input, or, where objects were left out, for what was read.      *)
(***************************************************************************)
EXTENDS DataPathSequences

\* The least number of slices of size b that hold a lines.
LEMMA ChunkSizeType ==
  ASSUME NEW a \in Nat \ {0}, NEW b \in Nat \ {0}
  PROVE  /\ ChunkSize(a, b) \in Nat \ {0}
         /\ b * ChunkSize(a, b) >= a
         /\ b * (ChunkSize(a, b) - 1) < a
<1>1. ChunkSize(a, b) \in Nat
  BY DEF ChunkSize
<1>2. b * ChunkSize(a, b) >= a
  BY DEF ChunkSize
<1>3. b * (ChunkSize(a, b) - 1) < a
  BY DEF ChunkSize
<1> QED
  BY <1>1, <1>2, <1>3

\* A slice starts within the lines, and only the last one may be short.
LEMMA SliceBounds ==
  ASSUME NEW a \in Nat \ {0}, NEW k \in Nat \ {0}, NEW i \in 1 .. ChunkSize(a, k)
  PROVE  /\ (i - 1) * k \in 0 .. a - 1
         /\ i * k = (i - 1) * k + k
         /\ i # ChunkSize(a, k) => i * k < a
         /\ i = ChunkSize(a, k) => i * k >= a
<1> DEFINE n == ChunkSize(a, k)
<1>1. n \in Nat \ {0} /\ k * n >= a /\ k * (n - 1) < a
  BY ChunkSizeType
<1> HIDE DEF n
<1>2. (i - 1) * k <= (n - 1) * k /\ (i - 1) * k \in Nat /\ i * k \in Nat
  BY <1>1 DEF n
<1>3. i * k = (i - 1) * k + k
  BY <1>1
<1>4. i # n => i * k <= (n - 1) * k
  BY <1>1 DEF n
<1> QED
  BY <1>1, <1>2, <1>3, <1>4 DEF n

\* The slices are sequences of lines, none of them empty.
LEMMA SlicesType ==
  ASSUME NEW S, NEW ls \in Seq(S), ls # <<>>, NEW k \in Nat \ {0}
  PROVE  /\ Slices(ls, k) \in Seq(Seq(S))
         /\ Len(Slices(ls, k)) = ChunkSize(Len(ls), k)
         /\ \A i \in 1 .. ChunkSize(Len(ls), k) : Slices(ls, k)[i] # <<>>
<1> DEFINE n == ChunkSize(Len(ls), k)
           first(i) == (i - 1) * k + 1
           last(i) == IF i * k < Len(ls) THEN i * k ELSE Len(ls)
<1>1. Len(ls) \in Nat \ {0} /\ \A i \in 1 .. Len(ls) : ls[i] \in S
  BY EmptySeq, ElementOfSeq
<1>2. n \in Nat \ {0}
  BY <1>1, ChunkSizeType
<1>3. Slices(ls, k) = [i \in 1 .. n |-> SubSeq(ls, first(i), last(i))]
  BY DEF Slices
<1>4. ASSUME NEW i \in 1 .. n
      PROVE  SubSeq(ls, first(i), last(i)) \in Seq(S) \ {<<>>}
  <2>1. first(i) \in 1 .. Len(ls) /\ last(i) \in first(i) .. Len(ls)
    BY <1>1, <1>2, SliceBounds
  <2> HIDE DEF first, last
  <2>2. /\ SubSeq(ls, first(i), last(i)) \in Seq(S)
        /\ Len(SubSeq(ls, first(i), last(i))) = last(i) - first(i) + 1
    BY <1>1, <2>1, SubSeqProperties
  <2>3. Len(SubSeq(ls, first(i), last(i))) # 0
    BY <1>1, <2>1, <2>2
  <2>4. Len(<<>>) = 0
    BY EmptySeq
  <2> QED
    BY <2>2, <2>3, <2>4
<1> HIDE DEF n, first, last
<1>5. Slices(ls, k) \in [1 .. n -> Seq(S)]
  BY <1>3, <1>4
<1>6. Slices(ls, k) \in Seq(Seq(S))
  BY <1>2, <1>5, SeqDef
<1>7. 1 .. Len(Slices(ls, k)) = 1 .. n /\ Len(Slices(ls, k)) \in Nat
  BY <1>5, <1>6, LenProperties
<1>8. Len(Slices(ls, k)) = n
  BY <1>2, <1>7
<1> QED
  BY <1>3, <1>4, <1>6, <1>8 DEF n

\* Put together they are the lines: up to the i-th they are those up to its end.
LEMMA SlicesFlatten ==
  ASSUME NEW S, NEW ls \in Seq(S), ls # <<>>, NEW k \in Nat \ {0}
  PROVE  FlattenSeq(Slices(ls, k)) = ls
<1> DEFINE c == Slices(ls, k)
           n == ChunkSize(Len(ls), k)
           last(i) == IF i * k < Len(ls) THEN i * k ELSE Len(ls)
           joined(f) == [i \in 1 .. n |-> IF i = 1 THEN c[i] ELSE f[i - 1] \o c[i]]
           g == [i \in 1 .. n |-> SubSeq(ls, 1, last(i))]
           flat == CHOOSE f : f = joined(f)
<1>1. Len(ls) \in Nat \ {0} /\ \A i \in 1 .. Len(ls) : ls[i] \in S
  BY EmptySeq, ElementOfSeq
<1>2. n \in Nat \ {0} /\ Len(c) = n
  BY <1>1, ChunkSizeType, SlicesType
<1>3. FlattenSeq(c) = flat[n]
  BY <1>2 DEF FlattenSeq
<1>15. \A i \in 1 .. n : c[i] = SubSeq(ls, (i - 1) * k + 1, last(i))
  <2> HIDE DEF n
  <2>1. c = [i \in 1 .. n |-> SubSeq(ls, (i - 1) * k + 1, last(i))]
    BY DEF Slices, n
  <2> HIDE DEF c, last
  <2> QED
    BY <2>1
<1>4. ASSUME NEW i \in 2 .. n
      PROVE  SubSeq(ls, 1, last(i - 1)) \o c[i] = SubSeq(ls, 1, last(i))
  <2>1. /\ last(i - 1) = (i - 1) * k /\ last(i - 1) \in 0 .. Len(ls) - 1
        /\ last(i) \in last(i - 1) .. Len(ls)
    <3>1. i \in 1 .. n /\ i - 1 \in 1 .. n /\ i - 1 # n
      BY <1>2
    <3> QED
      BY <1>1, <3>1, SliceBounds
  <2>2. c[i] = SubSeq(ls, last(i - 1) + 1, last(i))
    <3>1. i \in 1 .. n
      BY <1>2
    <3> HIDE DEF c, n, last
    <3> QED
      BY <1>15, <2>1, <3>1
  <2> HIDE DEF last, c, n
  <2>3. /\ last(i - 1) \in 1 - 1 .. Len(ls) /\ last(i) \in last(i - 1) .. Len(ls)
        /\ 1 \in 1 .. Len(ls) + 1
    BY <1>1, <2>1
  <2>4. SubSeq(ls, 1, last(i - 1)) \o SubSeq(ls, last(i - 1) + 1, last(i))
          = SubSeq(ls, 1, last(i))
    BY <2>3, ConcatAdjacentSubSeq
  <2> QED
    BY <2>2, <2>4
<1>5. c[1] = SubSeq(ls, 1, last(1))
  <2> HIDE DEF last, c, n
  <2>1. 1 \in 1 .. n /\ (1 - 1) * k + 1 = 1
    BY <1>2
  <2> QED
    BY <1>15, <2>1
<1> HIDE DEF last, c, n
<1>6. g = joined(g)
  <2>1. ASSUME NEW i \in 1 .. n
        PROVE  SubSeq(ls, 1, last(i)) = IF i = 1 THEN c[i] ELSE g[i - 1] \o c[i]
    <3>1. CASE i = 1
      BY <1>5, <3>1
    <3>2. CASE i # 1
      <4>1. i \in 2 .. n /\ i - 1 \in 1 .. n
        BY <1>2, <3>2
      <4> QED
        BY <1>4, <3>2, <4>1
    <3> QED
      BY <3>1, <3>2
  <2> QED
    BY <2>1
<1>7. flat = joined(flat)
  BY <1>6
<1> HIDE DEF flat
<1>8. \A i \in 1 .. n : flat[i] = IF i = 1 THEN c[i] ELSE flat[i - 1] \o c[i]
  BY <1>7
<1>9. ASSUME NEW i \in Nat, i + 2 \in 1 .. n,
             i + 1 \in 1 .. n => flat[i + 1] = SubSeq(ls, 1, last(i + 1))
      PROVE  flat[i + 2] = SubSeq(ls, 1, last(i + 2))
  <2>1. i + 2 \in 2 .. n /\ i + 1 \in 1 .. n /\ i + 2 # 1 /\ (i + 2) - 1 = i + 1
    BY <1>2, <1>9
  <2> QED
    BY <1>4, <1>8, <1>9, <2>1
<1> DEFINE T == {i \in Nat : i + 1 \in 1 .. n => flat[i + 1] = SubSeq(ls, 1, last(i + 1))}
<1>10. 0 \in T
  BY <1>2, <1>5, <1>8
<1>11. \A i \in T : i + 1 \in T
  <2> SUFFICES ASSUME NEW i \in T PROVE i + 1 \in T
    OBVIOUS
  <2>1. (i + 1) + 1 = i + 2 /\ i + 1 \in Nat
    OBVIOUS
  <2> QED
    BY <1>9, <2>1
<1>12. n - 1 \in T
  <2> HIDE DEF T
  <2>1. T \in SUBSET Nat
    BY DEF T
  <2> QED
    BY <1>2, <1>10, <1>11, <2>1, Induction
<1>13. flat[n] = SubSeq(ls, 1, last(n))
  BY <1>2, <1>12
<1>14. last(n) = Len(ls)
  BY <1>1, <1>2, SliceBounds DEF last, n
<1> QED
  BY <1>3, <1>13, <1>14, SubSeqFull DEF c

\* What the split does not skip is a sequence of lines.
LEMMA NonBlankType ==
  ASSUME NEW S, NEW ls \in Seq(S)
  PROVE  NonBlank(ls) \in Seq(S)
<1>1. {n \in DOMAIN ls : ~Blank(ls[n])} \in SUBSET DOMAIN ls
  OBVIOUS
<1> QED
  BY <1>1, KeptLists DEF NonBlank

\* The invariant of the split, and what it says of the chunks.
LEMMA InitSplit == Init => SplitInv
  BY DEF Init, SplitInv

LEMMA SplitStep == SplitInv /\ [Next]_vars => SplitInv'
<1> SUFFICES ASSUME SplitInv, [Next]_vars PROVE SplitInv'
  OBVIOUS
<1>1. CASE Split
  BY <1>1 DEF Split, SplitInv, job
<1>2. CASE UNCHANGED <<job, chunks>>
  BY <1>2 DEF SplitInv, job
<1> QED
  BY <1>1, <1>2 DEF Next, MapTask, ReduceTask, Shuffle, FinalMerge, vars, job

\* As many slices as there may be, and one for each line if that is enough.
LEMMA ChunksFew ==
  ASSUME NEW a \in Nat \ {0}, NEW n \in Nat \ {0}
  PROVE  /\ ChunkSize(a, n) \in Nat \ {0}
         /\ ChunkSize(a, ChunkSize(a, n)) <= n
         /\ a <= n => ChunkSize(a, ChunkSize(a, n)) = a
<1> DEFINE k == ChunkSize(a, n)
           c == ChunkSize(a, k)
<1>1. k \in Nat \ {0} /\ n * k >= a /\ n * (k - 1) < a
  BY ChunkSizeType
<1>2. c \in Nat \ {0} /\ k * c >= a /\ k * (c - 1) < a
  BY <1>1, ChunkSizeType
<1> HIDE DEF k, c
<1>3. c <= n
  BY <1>1, <1>2
<1>4. ASSUME a <= n PROVE c = a
  <2>1. k = 1
    BY <1>1, <1>4
  <2> QED
    BY <1>2, <2>1
<1> QED
  BY <1>1, <1>3, <1>4 DEF k, c

LEMMA SplitHolds == SplitInv => SplitKeepsLines
<1> SUFFICES ASSUME SplitInv, chunks # <<>> PROVE SplitKeepsLines
  BY DEF SplitKeepsLines
<1> DEFINE S == [doc : Words \cup {None}, words : Seq(Words \cup {0})]
           ls == NonBlank(lines)
           k == ChunkSize(Len(ls), mappers)
<1>1. ls \in Seq(S) /\ ls # <<>> /\ chunks = Slices(ls, k)
  <2>1. lines \in Seq(S)
    BY InputsAssumption DEF SplitInv
  <2> QED
    BY <2>1, NonBlankType DEF SplitInv
<1>2. mappers \in Nat \ {0}
  BY SizesAssumption DEF SplitInv
<1> HIDE DEF ls, S
<1>3. Len(ls) \in Nat \ {0}
  BY <1>1, EmptySeq
<1>4. /\ k \in Nat \ {0} /\ ChunkSize(Len(ls), k) <= mappers
      /\ Len(ls) <= mappers => ChunkSize(Len(ls), k) = Len(ls)
  BY <1>2, <1>3, ChunksFew
<1> HIDE DEF k
<1>5. FlattenSeq(chunks) = ls
  BY <1>1, <1>4, SlicesFlatten
<1>6. /\ chunks \in Seq(Seq(S)) /\ Len(chunks) = ChunkSize(Len(ls), k)
      /\ \A i \in 1 .. ChunkSize(Len(ls), k) : chunks[i] # <<>>
  BY <1>1, <1>4, SlicesType
<1>7. DOMAIN chunks = 1 .. Len(chunks)
  BY <1>6, LenProperties
<1> QED
  BY <1>4, <1>5, <1>6, <1>7 DEF SplitKeepsLines, ls

\* The split loses no line, repeats none and keeps their order, makes no chunk
\* empty and no more chunks than mappers, for any input and any num_mappers.
THEOREM SplitLosesNothing == Spec => []SplitKeepsLines
  BY InitSplit, SplitStep, SplitHolds, PTL DEF Spec

----
\* There are as many chunks as mappers at most, and they are made of lines.
LineSet == [doc : Words \cup {None}, words : Seq(Words \cup {0})]

LEMMA ChunksType ==
  ASSUME SplitInv
  PROVE  /\ lines \in Seq(LineSet) /\ mappers \in Nat \ {0}
         /\ chunks \in Seq(Seq(LineSet)) /\ DOMAIN chunks = 1 .. Len(chunks)
         /\ DOMAIN chunks \subseteq 1 .. mappers
<1>1. lines \in Seq(LineSet) /\ mappers \in Nat \ {0}
  <2>1. lines \in Inputs /\ Inputs \subseteq Seq(LineSet)
    BY InputsAssumption DEF SplitInv, LineSet
  <2>2. mappers \in 1 .. MaxMappers
    BY DEF SplitInv
  <2> QED
    BY <2>1, <2>2, SizesAssumption
<1> DEFINE ls == NonBlank(lines)
           k == ChunkSize(Len(ls), mappers)
<1>2. ls \in Seq(LineSet)
  BY <1>1, NonBlankType
<1>3. CASE chunks = <<>>
  BY <1>1, <1>3, EmptySeq
<1>4. CASE chunks # <<>>
  <2>1. ls # <<>> /\ chunks = Slices(ls, k)
    BY <1>4 DEF SplitInv
  <2> HIDE DEF ls
  <2>2. Len(ls) \in Nat \ {0}
    BY <1>2, <2>1, EmptySeq
  <2>3. k \in Nat \ {0}
    BY <1>1, <2>2, ChunkSizeType
  <2> HIDE DEF k
  <2>4. chunks \in Seq(Seq(LineSet))
    BY <1>2, <2>1, <2>3, SlicesType
  <2>5. Len(chunks) <= mappers
    BY <1>4, SplitHolds DEF SplitKeepsLines
  <2>6. Len(chunks) \in Nat /\ DOMAIN chunks = 1 .. Len(chunks)
    BY <2>4, LenProperties
  <2> QED
    BY <1>1, <2>4, <2>5, <2>6
<1> QED
  BY <1>3, <1>4

\* DataInv is inductive: each kind of object by the steps that write it.
LEMMA DataInit == Init => DataInv
<1> SUFFICES ASSUME Init PROVE DataInv
  OBVIOUS
<1>1. /\ chunks = <<>> /\ mapOut = <<>> /\ reduceOut = <<>> /\ parts = <<>>
      /\ final = <<>> /\ unread = {}
  BY DEF Init
<1>2. DOMAIN <<>> = {}
  OBVIOUS
<1>3. MapInv
  BY <1>1, <1>2 DEF MapInv
<1>4. ReduceInv
  BY <1>1, <1>2 DEF ReduceInv
<1> QED
  BY <1>1, <1>3, <1>4 DEF Init, DataInv, JobInv, ShuffleInv, FinalInv

LEMMA MapStep ==
  ASSUME DataInv, [Next]_vars
  PROVE  MapInv'
<1>1. CASE UNCHANGED <<job, chunks, mapOut>>
  BY <1>1 DEF DataInv, MapInv, job
<1>2. CASE Split
  <2>1. chunks = <<>> /\ mapOut' = mapOut /\ app' = app
    BY <1>2 DEF Split, job
  <2>2. DOMAIN mapOut \subseteq DOMAIN <<>> /\ DOMAIN <<>> = {}
    BY <2>1 DEF DataInv, MapInv
  <2>3. DOMAIN mapOut = {}
    BY <2>2
  <2> QED
    BY <2>1, <2>3 DEF DataInv, MapInv
<1>3. ASSUME NEW i \in 1 .. MaxMappers, MapTask(i)
      PROVE  MapInv'
  <2>1. /\ i \in DOMAIN chunks /\ chunks' = chunks /\ app' = app
        /\ mapOut' = Put(mapOut, i, Mapped(app, chunks[i]))
    BY <1>3 DEF MapTask, job
  <2>2. \A j \in DOMAIN mapOut : mapOut[j] = Mapped(app, chunks[j])
    BY DEF DataInv, MapInv
  <2>3. mapOut' = [j \in DOMAIN mapOut \cup {i} |-> Mapped(app, chunks[j])]
    BY <2>1, <2>2 DEF Put
  <2> QED
    BY <2>1, <2>3 DEF DataInv, MapInv
<1> QED
  BY <1>1, <1>2, <1>3 DEF Next, ReduceTask, Shuffle, FinalMerge, vars, job

\* A MAP task that is run again after the shuffle changes nothing: there is an
\* output of every chunk by then.
LEMMA MapAgain ==
  ASSUME SplitInv, DataInv, parts # <<>>, NEW i \in DOMAIN chunks
  PROVE  Put(mapOut, i, Mapped(app, chunks[i])) = mapOut
<1>1. i \in DOMAIN mapOut
  BY ChunksType DEF DataInv, ShuffleInv
<1>2. /\ mapOut = [j \in DOMAIN mapOut |-> Mapped(app, chunks[j])]
      /\ mapOut[i] = Mapped(app, chunks[i])
  BY <1>1 DEF DataInv, MapInv
<1>3. \A j \in DOMAIN mapOut : mapOut[j] = Mapped(app, chunks[j])
  BY <1>2
<1>4. DOMAIN mapOut \cup {i} = DOMAIN mapOut
  BY <1>1
<1>5. Put(mapOut, i, Mapped(app, chunks[i]))
        = [j \in DOMAIN mapOut |-> Mapped(app, chunks[j])]
  BY <1>3, <1>4 DEF Put
<1> QED
  BY <1>2, <1>5

LEMMA ShuffleStep ==
  ASSUME SplitInv, DataInv, [Next]_vars
  PROVE  ShuffleInv'
<1>1. CASE UNCHANGED <<job, mapOut, parts, unread>>
  BY <1>1 DEF DataInv, ShuffleInv, MapsRead, job
<1>2. ASSUME NEW i \in 1 .. MaxMappers, MapTask(i)
      PROVE  ShuffleInv'
  <2>1. /\ i \in DOMAIN chunks /\ UNCHANGED <<job, parts, unread>>
        /\ mapOut' = Put(mapOut, i, Mapped(app, chunks[i]))
    BY <1>2 DEF MapTask
  <2>2. CASE parts = <<>>
    BY <2>1, <2>2 DEF DataInv, ShuffleInv
  <2>3. CASE parts # <<>>
    <3>1. mapOut' = mapOut
      BY <2>1, <2>3, MapAgain
    <3> QED
      BY <1>1, <2>1, <3>1
  <2> QED
    BY <2>2, <2>3
<1>3. CASE Shuffle
  <2>1. /\ parts = <<>> /\ DOMAIN mapOut = 1 .. mappers
        /\ UNCHANGED <<job, mapOut>>
    BY <1>3 DEF Shuffle
  <2>2. PICK lost \in SUBSET DOMAIN mapOut :
          /\ unread' = unread \cup {<<"map", i>> : i \in lost}
          /\ \E order \in Orders(DOMAIN mapOut \ lost) :
               parts' = Shuffled(Read(mapOut, order), hash, reducers)
    BY <1>3 DEF Shuffle
  <2>3. \A i \in DOMAIN mapOut : <<"map", i>> \notin unread
    <3>1. mappers \in 1 .. MaxMappers
      BY DEF SplitInv
    <3>2. 1 .. mappers \subseteq 1 .. MaxMappers
      BY <3>1, SizesAssumption
    <3> QED
      BY <2>1, <3>2 DEF DataInv, ShuffleInv
  <2>4. MapsRead' = DOMAIN mapOut \ lost
    BY <2>1, <2>2, <2>3 DEF MapsRead
  <2>5. parts' # <<>>
    <3>1. DOMAIN parts' = 1 .. reducers /\ reducers \in Nat \ {0}
      BY <2>2, SizesAssumption DEF Shuffled, DataInv, JobInv
    <3>2. 1 \in DOMAIN parts'
      BY <3>1
    <3> QED
      BY <3>2
  <2> QED
    BY <2>1, <2>2, <2>4, <2>5 DEF ShuffleInv, job
<1>4. CASE FinalMerge
  <2>1. UNCHANGED <<job, mapOut, parts>>
    BY <1>4 DEF FinalMerge
  <2>2. \A i : <<"map", i>> \in unread' <=> <<"map", i>> \in unread
    BY <1>4 DEF FinalMerge
  <2>3. MapsRead' = MapsRead
    BY <2>1, <2>2 DEF MapsRead
  <2> QED
    BY <2>1, <2>2, <2>3 DEF DataInv, ShuffleInv, job
<1> QED
  BY <1>1, <1>2, <1>3, <1>4 DEF Next, Split, ReduceTask, vars, job

\* There are as many parts as reducers.
LEMMA PartsDomain ==
  ASSUME DataInv, parts # <<>>
  PROVE  DOMAIN parts = 1 .. reducers /\ DOMAIN parts \subseteq 1 .. MaxReducers
<1>1. DOMAIN parts = 1 .. reducers
  BY DEF DataInv, ShuffleInv, Shuffled
<1>2. reducers \in 1 .. MaxReducers
  BY DEF DataInv, JobInv
<1> QED
  BY <1>1, <1>2, SizesAssumption

\* A REDUCE task that is run again changes nothing either.
LEMMA ReduceAgain ==
  ASSUME DataInv, NEW p \in DOMAIN reduceOut
  PROVE  Put(reduceOut, p, Reduced(app, parts[p])) = reduceOut
<1>1. reduceOut = [q \in DOMAIN reduceOut |-> Reduced(app, parts[q])]
  BY DEF DataInv, ReduceInv
<1>2. \A q \in DOMAIN reduceOut : reduceOut[q] = Reduced(app, parts[q])
  BY <1>1
<1>3. DOMAIN reduceOut \cup {p} = DOMAIN reduceOut
  OBVIOUS
<1>4. Put(reduceOut, p, Reduced(app, parts[p]))
        = [q \in DOMAIN reduceOut |-> Reduced(app, parts[q])]
  BY <1>2, <1>3 DEF Put
<1> QED
  BY <1>1, <1>4

LEMMA ReduceStep ==
  ASSUME DataInv, [Next]_vars
  PROVE  ReduceInv'
<1>1. CASE UNCHANGED <<job, parts, reduceOut>>
  BY <1>1 DEF DataInv, ReduceInv, job
<1>2. CASE Shuffle
  <2>1. parts = <<>> /\ reduceOut' = reduceOut
    BY <1>2 DEF Shuffle
  <2>2. DOMAIN reduceOut \subseteq DOMAIN <<>> /\ DOMAIN <<>> = {}
    BY <2>1 DEF DataInv, ReduceInv
  <2>3. DOMAIN reduceOut = {}
    BY <2>2
  <2> QED
    BY <2>1, <2>3 DEF DataInv, ReduceInv
<1>3. ASSUME NEW p \in 1 .. MaxReducers, ReduceTask(p)
      PROVE  ReduceInv'
  <2>1. /\ p \in DOMAIN parts /\ parts' = parts /\ app' = app
        /\ reduceOut' = Put(reduceOut, p, Reduced(app, parts[p]))
    BY <1>3 DEF ReduceTask, job
  <2>2. \A q \in DOMAIN reduceOut : reduceOut[q] = Reduced(app, parts[q])
    BY DEF DataInv, ReduceInv
  <2>3. reduceOut' = [q \in DOMAIN reduceOut \cup {p} |-> Reduced(app, parts[q])]
    BY <2>1, <2>2 DEF Put
  <2> QED
    BY <2>1, <2>3 DEF DataInv, ReduceInv
<1> QED
  BY <1>1, <1>2, <1>3 DEF Next, Split, MapTask, FinalMerge, vars, job

LEMMA FinalStep ==
  ASSUME DataInv, [Next]_vars
  PROVE  FinalInv'
<1>1. CASE UNCHANGED <<job, parts, reduceOut, final, unread>>
  BY <1>1 DEF DataInv, FinalInv, PartsRead, job
<1>2. CASE Shuffle
  <2>1. /\ parts = <<>> /\ UNCHANGED <<job, reduceOut, final>>
        /\ DOMAIN parts = {} => DOMAIN reduceOut = {}
    BY <1>2 DEF Shuffle, DataInv, ReduceInv
  <2>2. \A p : <<"reduce", p>> \in unread' <=> <<"reduce", p>> \in unread
    BY <1>2 DEF Shuffle
  <2>3. PartsRead' = PartsRead
    BY <2>1, <2>2 DEF PartsRead
  <2>4. final = <<>>
    BY <2>1 DEF DataInv, FinalInv
  <2> QED
    BY <2>1, <2>2, <2>4 DEF DataInv, FinalInv
<1>3. ASSUME NEW p \in 1 .. MaxReducers, ReduceTask(p)
      PROVE  FinalInv'
  <2>1. /\ p \in DOMAIN parts /\ UNCHANGED <<job, parts, final, unread>>
        /\ reduceOut' = Put(reduceOut, p, Reduced(app, parts[p]))
    BY <1>3 DEF ReduceTask
  <2>2. CASE final = <<>>
    BY <2>1, <2>2 DEF DataInv, FinalInv
  <2>3. CASE final # <<>>
    <3>1. p \in DOMAIN reduceOut
      BY <2>1, <2>3 DEF DataInv, FinalInv
    <3>2. reduceOut' = reduceOut
      BY <2>1, <3>1, ReduceAgain
    <3> QED
      BY <1>1, <2>1, <3>2
  <2> QED
    BY <2>2, <2>3
<1>4. CASE FinalMerge
  <2>1. /\ app = "count" /\ final = <<>> /\ parts # <<>>
        /\ DOMAIN reduceOut = DOMAIN parts
        /\ UNCHANGED <<job, parts, reduceOut>>
    BY <1>4 DEF FinalMerge
  <2>2. PICK lost \in SUBSET DOMAIN parts :
          /\ unread' = unread \cup {<<"reduce", p>> : p \in lost}
          /\ \E order \in Orders(DOMAIN parts \ lost) :
               final' = <<SortedLines(Read(reduceOut, order))>>
    BY <1>4 DEF FinalMerge
  <2>3. \A p \in DOMAIN parts : <<"reduce", p>> \notin unread
    BY <2>1, PartsDomain DEF DataInv, FinalInv
  <2>4. PartsRead' = DOMAIN parts \ lost
    BY <2>1, <2>2, <2>3 DEF PartsRead
  <2>5. final' # <<>>
    BY <2>2
  <2> QED
    BY <2>1, <2>2, <2>4, <2>5 DEF FinalInv, job
<1> QED
  BY <1>1, <1>2, <1>3, <1>4 DEF Next, Split, MapTask, vars, job

LEMMA DataStep == SplitInv /\ DataInv /\ [Next]_vars => DataInv'
<1> SUFFICES ASSUME SplitInv, DataInv, [Next]_vars PROVE DataInv'
  OBVIOUS
<1>1. JobInv'
  BY DEF DataInv, JobInv, Next, Split, MapTask, Shuffle, ReduceTask, FinalMerge,
         vars, job
<1> QED
  BY <1>1, MapStep, ShuffleStep, ReduceStep, FinalStep DEF DataInv

----
\* Where the words of a line are that are counted, and the pair of each.
PlacesIn(line) == {i \in DOMAIN Counts(line) : Counts(line)[i] # 0}

ValueIn(line) == IF app = "count" THEN 1 ELSE line.doc

PairsIn(line) == [i \in DOMAIN Counts(line) |-> <<Counts(line)[i], ValueIn(line)>>]

Values == IF app = "count" THEN {1} ELSE Words

\* Words with the same value each, and those that cleaning leaves.
Paired(u, value) == [i \in DOMAIN u |-> <<u[i], value>>]

Left(u) == {i \in DOMAIN u : u[i] # 0}

LEMMA CleanedLists ==
  ASSUME NEW u \in Seq(Words \cup {0}), NEW V, NEW value \in V
  PROVE  /\ Paired(Cleaned(u), value) \in Seq(Words \X V)
         /\ Lists(Paired(Cleaned(u), value), Left(u), Paired(u, value))
<1> DEFINE I == {i \in DOMAIN u : u[i] # 0}
           k == Cleaned(u)
           pairs == [i \in DOMAIN k |-> <<k[i], value>>]
           v == [i \in DOMAIN u |-> <<u[i], value>>]
<1>1. \A i \in I : i \in DOMAIN u /\ u[i] \in Words
  BY LenProperties, ElementOfSeq
<1>2. k \in Seq(Words \cup {0}) /\ Lists(k, I, u)
  BY KeptLists DEF Cleaned
<1> HIDE DEF I, k
<1>3. PICK b : Listing(b, k, I, u)
  BY <1>2 DEF Lists
<1>4. \A n \in DOMAIN k : b[n] \in I /\ k[n] = u[b[n]]
  BY <1>3 DEF Listing
<1>5. \A n \in DOMAIN k : pairs[n] \in Words \X V /\ pairs[n] = v[b[n]]
  BY <1>1, <1>4
<1>6. Len(k) \in Nat /\ DOMAIN k = 1 .. Len(k) /\ DOMAIN pairs = DOMAIN k
  BY <1>2, LenProperties
<1> HIDE DEF pairs, v
<1>7. pairs \in [1 .. Len(k) -> Words \X V]
  BY <1>5, <1>6 DEF pairs
<1>8. pairs \in Seq(Words \X V)
  BY <1>6, <1>7, SeqDef
<1>9. Listing(b, pairs, I, v)
  BY <1>3, <1>5, <1>6 DEF Listing
<1> QED
  BY <1>8, <1>9 DEF Lists, Paired, Left, pairs, v, k, I

\* What a script emits for a line lists the places of its words.
LEMMA EmitLists ==
  ASSUME JobInv, NEW line \in LineSet
  PROVE  /\ Emit(app, line) \in Seq(Words \X Values)
         /\ Lists(Emit(app, line), PlacesIn(line), PairsIn(line))
<1>1. line.words \in Seq(Words \cup {0}) /\ line.doc \in Words \cup {None}
  BY DEF LineSet
<1>2. <<>> \o line.words = line.words
  BY <1>1, ConcatEmptySeq
<1>3. line.doc # None =>
        /\ <<line.doc>> \in Seq(Words \cup {0})
        /\ <<line.doc>> \o line.words \in Seq(Words \cup {0})
  <2> SUFFICES ASSUME line.doc # None
               PROVE  /\ <<line.doc>> \in Seq(Words \cup {0})
                      /\ <<line.doc>> \o line.words \in Seq(Words \cup {0})
    OBVIOUS
  <2>1. <<line.doc>> \in Seq(Words \cup {0})
    BY <1>1
  <2> QED
    BY <1>1, <2>1, ConcatProperties
<1>4. CASE app = "count"
  <2> DEFINE u == Counts(line)
  <2>1. u \in Seq(Words \cup {0})
    BY <1>1, <1>3, <1>4 DEF Counts
  <2>2. Emit(app, line) = Paired(Cleaned(u), 1)
    BY <1>2, <1>4 DEF Emit, Counts, Paired
  <2>3. Values = {1} /\ ValueIn(line) = 1
    BY <1>4 DEF Values, ValueIn
  <2>4. PlacesIn(line) = Left(u) /\ PairsIn(line) = Paired(u, 1)
    BY <2>3 DEF PlacesIn, PairsIn, Left, Paired
  <2> HIDE DEF u
  <2>5. 1 \in Values
    BY <2>3
  <2>6. /\ Emit(app, line) \in Seq(Words \X Values)
        /\ Lists(Emit(app, line), PlacesIn(line), PairsIn(line))
    BY <2>1, <2>2, <2>4, <2>5, CleanedLists
  <2> QED
    BY <2>6
<1>5. CASE app = "invert" /\ line.doc # None
  <2> DEFINE u == Counts(line)
             value == line.doc
  <2>1. u = line.words /\ u \in Seq(Words \cup {0})
    BY <1>1, <1>5 DEF Counts
  <2>2. Emit(app, line) = Paired(Cleaned(u), value)
    BY <1>5, <2>1 DEF Emit, Paired
  <2>3. Values = Words /\ ValueIn(line) = value /\ value \in Words
    BY <1>1, <1>5 DEF Values, ValueIn
  <2>4. PlacesIn(line) = Left(u) /\ PairsIn(line) = Paired(u, value)
    BY <2>3 DEF PlacesIn, PairsIn, Left, Paired
  <2> HIDE DEF u, value
  <2>5. /\ u \in Seq(Words \cup {0}) /\ value \in Words
    BY <2>1, <2>3
  <2>6. /\ Emit(app, line) \in Seq(Words \X Words)
        /\ Lists(Emit(app, line), PlacesIn(line), PairsIn(line))
    BY <2>2, <2>4, <2>5, CleanedLists
  <2> QED
    BY <2>3, <2>6
<1>6. CASE app = "invert" /\ line.doc = None
  <2>1. Counts(line) = <<>> /\ Emit(app, line) = <<>>
    BY <1>6 DEF Counts, Emit
  <2>2. DOMAIN <<>> = {}
    OBVIOUS
  <2>3. PlacesIn(line) = {}
    BY <2>1, <2>2 DEF PlacesIn
  <2>4. <<>> \in Seq(Words \X Values)
    BY EmptySeq
  <2> QED
    BY <2>1, <2>3, <2>4, ListsNothing
<1> QED
  BY <1>4, <1>5, <1>6 DEF JobInv

\* Where the words of the input are that are counted, and the pair of each.
Places == UNION {{l} \X PlacesIn(lines[l]) : l \in DOMAIN lines}

PairAt == [d \in Places |-> PairsIn(lines[d[1]])[d[2]]]

\* The same by the places of the input.
LEMMA LineLists ==
  ASSUME SplitInv, JobInv, NEW l \in DOMAIN lines
  PROVE  /\ Emit(app, lines[l]) \in Seq(Words \X Values)
         /\ Lists(Emit(app, lines[l]), {l} \X PlacesIn(lines[l]), PairAt)
<1> DEFINE line == lines[l]
           D == PlacesIn(line)
           E == {l} \X D
           g == [i \in D |-> <<l, i>>]
<1>1. line \in LineSet
  BY ChunksType, LenProperties, ElementOfSeq
<1>2. /\ Emit(app, line) \in Seq(Words \X Values)
      /\ Lists(Emit(app, line), D, PairsIn(line))
  BY <1>1, EmitLists
<1>3. /\ g \in [D -> E]
      /\ \A d, e \in D : g[d] = g[e] => d = e
      /\ \A e \in E : \E d \in D : g[d] = e
  OBVIOUS
<1>4. \A i \in D : PairsIn(line)[i] = PairAt[g[i]]
  <2> SUFFICES ASSUME NEW i \in D PROVE PairsIn(line)[i] = PairAt[<<l, i>>]
    OBVIOUS
  <2>1. <<l, i>> \in Places
    BY DEF Places
  <2> QED
    BY <2>1 DEF PairAt
<1> HIDE DEF D, E, g
<1>5. Lists(Emit(app, line), E, PairAt)
  BY <1>2, <1>3, <1>4, ListsMoved DEF Matches
<1> QED
  BY <1>2, <1>5 DEF E, D

\* Every line that is not blank is at one place in one chunk.
LEMMA LinesInChunks ==
  ASSUME SplitInv, chunks # <<>>
  PROVE  \E g \in [InSeqs(chunks) -> DOMAIN lines] :
           /\ \A d, e \in InSeqs(chunks) : g[d] = g[e] => d = e
           /\ \A l \in DOMAIN lines :
                Blank(lines[l]) \/ \E d \in InSeqs(chunks) : g[d] = l
           /\ \A d \in InSeqs(chunks) : chunks[d[1]][d[2]] = lines[g[d]]
<1> DEFINE I == {l \in DOMAIN lines : ~Blank(lines[l])}
           v == AtPairs(chunks)
<1>1. lines \in Seq(LineSet) /\ chunks \in Seq(Seq(LineSet))
  BY ChunksType
<1>2. FlattenSeq(chunks) = NonBlank(lines)
  BY SplitHolds DEF SplitKeepsLines
<1>3. Lists(FlattenSeq(chunks), InSeqs(chunks), v)
  BY <1>1, FlattenLists DEF Lists
<1>4. Lists(FlattenSeq(chunks), I, lines)
  <2>1. I \in SUBSET DOMAIN lines
    OBVIOUS
  <2> QED
    BY <1>1, <1>2, <2>1, KeptLists DEF NonBlank
<1>5. \A d \in InSeqs(chunks) : v[d] = chunks[d[1]][d[2]]
  BY DEF AtPairs
<1> HIDE DEF I, v
<1>6. PICK g : Matches(g, InSeqs(chunks), v, I, lines)
  BY <1>3, <1>4, ListsSame
<1>7. g \in [InSeqs(chunks) -> DOMAIN lines]
  BY <1>6 DEF I, Matches
<1>8. \A l \in DOMAIN lines :
        Blank(lines[l]) \/ \E d \in InSeqs(chunks) : g[d] = l
  BY <1>6 DEF I, Matches
<1> QED
  BY <1>5, <1>6, <1>7, <1>8 DEF Matches

\* The outputs of the MAP tasks list the places of the lines in their chunks;
\* those of all chunks are the places of the input, each in one of them.
MapPlaces(M) ==
  /\ M \in [DOMAIN chunks -> SUBSET Places]
  /\ \A i \in DOMAIN chunks : Mapped(app, chunks[i]) \in Seq(Words \X Values)
  /\ \A i \in DOMAIN chunks : Lists(Mapped(app, chunks[i]), M[i], PairAt)
  /\ \A i, j \in DOMAIN chunks : i # j => M[i] \cap M[j] = {}
  /\ UNION {M[i] : i \in DOMAIN chunks} = Places

\* With the places of a chunk those of the lines that were put in it.
LEMMA MapLists ==
  ASSUME SplitInv, JobInv, chunks # <<>>
  PROVE  \E M : MapPlaces(M)
<1>1. PICK g \in [InSeqs(chunks) -> DOMAIN lines] :
        /\ \A d, e \in InSeqs(chunks) : g[d] = g[e] => d = e
        /\ \A l \in DOMAIN lines :
             Blank(lines[l]) \/ \E d \in InSeqs(chunks) : g[d] = l
        /\ \A d \in InSeqs(chunks) : chunks[d[1]][d[2]] = lines[g[d]]
  BY LinesInChunks
<1> DEFINE of(l) == {l} \X PlacesIn(lines[l])
           M == [i \in DOMAIN chunks |->
                   UNION {of(g[<<i, k>>]) : k \in DOMAIN chunks[i]}]
<1>2. /\ chunks \in Seq(Seq(LineSet)) /\ lines \in Seq(LineSet)
      /\ \A i \in DOMAIN chunks : chunks[i] \in Seq(LineSet)
  BY ChunksType, LenProperties, ElementOfSeq
<1>3. \A i \in DOMAIN chunks : \A k \in DOMAIN chunks[i] :
        /\ <<i, k>> \in InSeqs(chunks) /\ g[<<i, k>>] \in DOMAIN lines
        /\ chunks[i][k] = lines[g[<<i, k>>]]
  BY <1>1 DEF InSeqs
<1>4. \A l, m \in DOMAIN lines : l # m => of(l) \cap of(m) = {}
  OBVIOUS
<1>5. \A l \in DOMAIN lines : of(l) \subseteq Places
  BY DEF Places
<1>11. \A i \in DOMAIN chunks : \A x :
         x \in M[i] <=> \E k \in DOMAIN chunks[i] : x \in of(g[<<i, k>>])
  <2> HIDE DEF of
  <2> QED
    OBVIOUS
<1>6. ASSUME NEW i \in DOMAIN chunks
      PROVE  /\ Mapped(app, chunks[i]) \in Seq(Words \X Values)
             /\ Lists(Mapped(app, chunks[i]), M[i], PairAt)
  <2> DEFINE c == chunks[i]
             ss == [k \in DOMAIN c |-> Emit(app, c[k])]
             E == [k \in DOMAIN c |-> of(g[<<i, k>>])]
  <2>1. Len(c) \in Nat /\ DOMAIN c = 1 .. Len(c)
    BY <1>2, LenProperties
  <2>2. ASSUME NEW k \in DOMAIN c
        PROVE  ss[k] \in Seq(Words \X Values) /\ Lists(ss[k], E[k], PairAt)
    <3>1. ss[k] = Emit(app, lines[g[<<i, k>>]]) /\ g[<<i, k>>] \in DOMAIN lines
      BY <1>3
    <3>2. E[k] = of(g[<<i, k>>])
      OBVIOUS
    <3> HIDE DEF ss, E
    <3> QED
      BY <3>1, <3>2, LineLists
  <2>3. \A k, l \in DOMAIN c : k # l => E[k] \cap E[l] = {}
    <3> SUFFICES ASSUME NEW k \in DOMAIN c, NEW l \in DOMAIN c, k # l
                 PROVE  E[k] \cap E[l] = {}
      OBVIOUS
    <3>1. /\ <<i, k>> \in InSeqs(chunks) /\ <<i, l>> \in InSeqs(chunks)
          /\ <<i, k>> # <<i, l>>
      BY <1>3
    <3>2. g[<<i, k>>] # g[<<i, l>>]
      BY <1>1, <3>1
    <3>3. g[<<i, k>>] \in DOMAIN lines /\ g[<<i, l>>] \in DOMAIN lines
      BY <1>3
    <3>4. of(g[<<i, k>>]) \cap of(g[<<i, l>>]) = {}
      BY <1>4, <3>2, <3>3
    <3> QED
      BY <3>4
  <2>4. DOMAIN ss = DOMAIN c /\ UNION {E[k] : k \in DOMAIN c} = M[i]
    OBVIOUS
  <2>5. Mapped(app, c) = FlattenSeq(ss)
    BY DEF Mapped
  <2> HIDE DEF ss, E, of, M, c
  <2>6. ss \in [1 .. Len(c) -> Seq(Words \X Values)]
    BY <2>1, <2>2, <2>4 DEF ss
  <2>7. ss \in Seq(Seq(Words \X Values))
    BY <2>1, <2>6, SeqDef
  <2>8. FlattenSeq(ss) \in Seq(Words \X Values)
    BY <2>7, FlattenLists
  <2>9. Lists(FlattenSeq(ss), UNION {E[k] : k \in DOMAIN ss}, PairAt)
    BY <2>2, <2>3, <2>4, <2>7, FlattenOfLists
  <2> QED
    BY <2>4, <2>5, <2>8, <2>9 DEF c
<1>7. M \in [DOMAIN chunks -> SUBSET Places]
  <2>1. DOMAIN M = DOMAIN chunks /\ M = [i \in DOMAIN M |-> M[i]]
    OBVIOUS
  <2> HIDE DEF of, M
  <2>2. \A i \in DOMAIN chunks : M[i] \subseteq Places
    BY <1>3, <1>5, <1>11
  <2> QED
    BY <2>1, <2>2
<1>8. ASSUME NEW i \in DOMAIN chunks, NEW j \in DOMAIN chunks, i # j
      PROVE  M[i] \cap M[j] = {}
  <2> HIDE DEF of
  <2>1. \A k \in DOMAIN chunks[i], l \in DOMAIN chunks[j] :
          of(g[<<i, k>>]) \cap of(g[<<j, l>>]) = {}
    <3> SUFFICES ASSUME NEW k \in DOMAIN chunks[i], NEW l \in DOMAIN chunks[j]
                 PROVE  of(g[<<i, k>>]) \cap of(g[<<j, l>>]) = {}
      OBVIOUS
    <3>1. /\ <<i, k>> \in InSeqs(chunks) /\ <<j, l>> \in InSeqs(chunks)
          /\ <<i, k>> # <<j, l>>
          /\ g[<<i, k>>] \in DOMAIN lines /\ g[<<j, l>>] \in DOMAIN lines
      BY <1>3, <1>8
    <3> QED
      BY <1>1, <1>4, <3>1
  <2> HIDE DEF M
  <2> QED
    BY <1>11, <2>1
<1>9. UNION {M[i] : i \in DOMAIN chunks} = Places
  <2>1. ASSUME NEW d \in Places PROVE \E i \in DOMAIN chunks : d \in M[i]
    <3>1. PICK l \in DOMAIN lines : d \in of(l)
      BY DEF Places
    <3>2. lines[l] \in LineSet
      BY <1>2, LenProperties, ElementOfSeq
    <3>3. ~Blank(lines[l])
      <4> SUFFICES ASSUME Blank(lines[l]) PROVE FALSE
        OBVIOUS
      <4>1. Counts(lines[l]) = <<>> /\ DOMAIN <<>> = {}
        BY DEF Blank, Counts, JobInv
      <4> QED
        BY <3>1, <4>1 DEF PlacesIn
    <3>4. PICK e \in InSeqs(chunks) : g[e] = l
      BY <1>1, <3>3
    <3>5. PICK i \in DOMAIN chunks : e \in {i} \X DOMAIN chunks[i]
      BY DEF InSeqs
    <3>6. PICK k \in DOMAIN chunks[i] : e = <<i, k>>
      BY <3>5
    <3> HIDE DEF of, M
    <3> QED
      BY <1>11, <3>1, <3>4, <3>6
  <2> HIDE DEF M
  <2> QED
    BY <1>7, <2>1
<1> HIDE DEF M
<1>10. MapPlaces(M)
  BY <1>6, <1>7, <1>8, <1>9 DEF MapPlaces
<1> QED
  BY <1>10

----
\* R is what was read of the input: all of it when no output was left out.
\* A part lists the places of R that are routed to it, sorted by key.
PartsOf(R) ==
  /\ R \subseteq Places
  /\ (\A i \in DOMAIN mapOut : <<"map", i>> \notin unread) => R = Places
  /\ DOMAIN parts = 1 .. reducers
  /\ \A p \in 1 .. reducers :
       /\ parts[p] \in Seq(Words \X Values)
       /\ Lists(parts[p], RoutedTo(R, PairAt, hash, p), PairAt)
       /\ \A m, n \in DOMAIN parts[p] : m <= n => parts[p][m][1] <= parts[p][n][1]

\* The outputs that were read.
Outputs == [i \in DOMAIN mapOut |->
              IF <<"map", i>> \in unread THEN <<>> ELSE mapOut[i]]

\* The parts are sorted and routed from what the outputs that were read list.
LEMMA PartsList ==
  ASSUME SplitInv, DataInv, parts # <<>>
  PROVE  \E R : /\ PartsOf(R)
                /\ FlattenSeq(Outputs) \in Seq(Words \X Values)
                /\ Lists(FlattenSeq(Outputs), R, PairAt)
<1> DEFINE P == Words \X Values
<1>1. /\ DOMAIN mapOut = 1 .. mappers /\ DOMAIN mapOut = DOMAIN chunks
      /\ mappers \in Nat \ {0} /\ JobInv
  BY ChunksType DEF DataInv, ShuffleInv, MapInv
<1>2. chunks # <<>>
  <2>1. 1 \in DOMAIN chunks
    BY <1>1
  <2> QED
    BY <2>1
<1>3. PICK M : MapPlaces(M)
  BY <1>1, <1>2, MapLists
<1>4. PICK order \in Orders(MapsRead) :
        parts = Shuffled(Read(mapOut, order), hash, reducers)
  BY DEF DataInv, ShuffleInv
<1>5. \A i \in DOMAIN mapOut :
        mapOut[i] = Mapped(app, chunks[i]) /\ mapOut[i] \in Seq(P)
        /\ Lists(mapOut[i], M[i], PairAt)
  BY <1>1, <1>3 DEF MapPlaces, DataInv, MapInv
<1>6. \A i, j \in DOMAIN mapOut : i # j => M[i] \cap M[j] = {}
  BY <1>1, <1>3 DEF MapPlaces
<1>7. MapsRead \subseteq DOMAIN mapOut /\ IsFiniteSet(MapsRead)
  <2>1. IsFiniteSet(1 .. mappers)
    BY <1>1, FS_Interval
  <2>2. MapsRead \in SUBSET (1 .. mappers)
    BY <1>1 DEF MapsRead
  <2> QED
    BY <1>1, <2>1, <2>2, FS_Subset
<1> DEFINE R == UNION {M[i] : i \in MapsRead}
           all == Read(mapOut, order)
<1>8. all \in Seq(P) /\ Lists(all, R, PairAt)
  <2>1. /\ \A i \in MapsRead : mapOut[i] \in Seq(P) /\ Lists(mapOut[i], M[i], PairAt)
        /\ \A i, j \in MapsRead : i # j => M[i] \cap M[j] = {}
    BY <1>5, <1>6, <1>7
  <2>2. ListEach(mapOut, MapsRead, P, M, PairAt)
    BY <2>1 DEF ListEach
  <2> HIDE DEF P
  <2>3. /\ Read(mapOut, order) \in Seq(P)
        /\ Lists(Read(mapOut, order), Joined(M, MapsRead), PairAt)
    BY <1>7, <2>2, ReadLists
  <2> QED
    BY <2>3 DEF Joined
<1>9. R \subseteq Places
  BY <1>1, <1>3, <1>7 DEF MapPlaces
<1>10. (\A i \in DOMAIN mapOut : <<"map", i>> \notin unread) => R = Places
  BY <1>1, <1>3 DEF MapPlaces, MapsRead
<1> HIDE DEF R, all
<1>11. parts = [p \in 1 .. reducers |-> ByKey(Routed(all, hash, p))]
  BY <1>4 DEF Shuffled, all
<1>12. ASSUME NEW p \in 1 .. reducers
       PROVE  /\ parts[p] \in Seq(P)
              /\ Lists(parts[p], RoutedTo(R, PairAt, hash, p), PairAt)
              /\ \A m, n \in DOMAIN parts[p] :
                   m <= n => parts[p][m][1] <= parts[p][n][1]
  <2>1. parts[p] = ByKey(Routed(all, hash, p))
    BY <1>11
  <2>2. /\ Routed(all, hash, p) \in Seq(P)
        /\ Lists(Routed(all, hash, p), RoutedTo(R, PairAt, hash, p), PairAt)
    BY <1>8, RoutedLists
  <2> DEFINE r == Routed(all, hash, p)
             D == RoutedTo(R, PairAt, hash, p)
  <2> HIDE DEF r, D
  <2>3. r \in Seq(Words \X Values) /\ Lists(r, D, PairAt)
    BY <2>2 DEF r, D
  <2>4. /\ ByKey(r) \in Seq(P) /\ Lists(ByKey(r), D, PairAt)
        /\ \A m, n \in DOMAIN ByKey(r) : m <= n => ByKey(r)[m][1] <= ByKey(r)[n][1]
    BY <2>3, ByKeyLists
  <2> QED
    BY <2>1, <2>4 DEF r, D
<1>13. PartsOf(R)
  BY <1>9, <1>10, <1>11, <1>12 DEF PartsOf
<1> DEFINE E == [i \in DOMAIN mapOut |-> IF i \in MapsRead THEN M[i] ELSE {}]
<1>14. ASSUME NEW i \in DOMAIN mapOut
       PROVE  Outputs[i] \in Seq(P) /\ Lists(Outputs[i], E[i], PairAt)
  <2>1. CASE i \in MapsRead
    <3>1. Outputs[i] = mapOut[i] /\ E[i] = M[i]
      BY <2>1 DEF Outputs, MapsRead
    <3> QED
      BY <1>5, <3>1
  <2>2. CASE i \notin MapsRead
    <3>1. Outputs[i] = <<>> /\ E[i] = {}
      BY <2>2 DEF Outputs, MapsRead
    <3> QED
      BY <3>1, EmptySeq, ListsNothing
  <2> QED
    BY <2>1, <2>2
<1>15. Outputs \in Seq(Seq(P)) /\ DOMAIN Outputs = DOMAIN mapOut
  <2>1. Outputs \in [1 .. mappers -> Seq(P)]
    BY <1>1, <1>14 DEF Outputs
  <2> QED
    BY <1>1, <2>1, SeqDef
<1>16. \A i, j \in DOMAIN Outputs : i # j => E[i] \cap E[j] = {}
  BY <1>6, <1>15
<1>17. UNION {E[i] : i \in DOMAIN Outputs} = R
  BY <1>7, <1>15 DEF R
<1> HIDE DEF E
<1>18. /\ FlattenSeq(Outputs) \in Seq(P)
       /\ Lists(FlattenSeq(Outputs), UNION {E[i] : i \in DOMAIN Outputs}, PairAt)
  BY <1>14, <1>15, <1>16, FlattenLists, FlattenOfLists
<1> QED
  BY <1>13, <1>17, <1>18

\* The places of the input are those of words, counted or with a document.
LEMMA PairTypes ==
  ASSUME SplitInv, JobInv
  PROVE  \A d \in Places : PairAt[d] \in Words \X Values
<1> SUFFICES ASSUME NEW d \in Places PROVE PairAt[d] \in Words \X Values
  OBVIOUS
<1>1. PICK l \in DOMAIN lines : d \in {l} \X PlacesIn(lines[l])
  BY DEF Places
<1>2. /\ Emit(app, lines[l]) \in Seq(Words \X Values)
      /\ Lists(Emit(app, lines[l]), {l} \X PlacesIn(lines[l]), PairAt)
  BY LineLists
<1>3. \A e \in {l} \X PlacesIn(lines[l]) : PairAt[e] \in Words \X Values
  BY <1>2, ListsValues
<1> QED
  BY <1>1, <1>3

\* The parts and these outputs list the same, so they hold the same pairs.
LEMMA PartsHold == SplitInv /\ DataInv => PartsHoldPairs
<1> SUFFICES ASSUME SplitInv, DataInv, parts # <<>>
             PROVE  /\ ToBag(FlattenSeq(parts)) = ToBag(FlattenSeq(Outputs))
                    /\ \A p \in DOMAIN parts :
                         /\ IsSorted(parts[p], LAMBDA a, b : Key(a) <= Key(b))
                         /\ \A i \in DOMAIN parts[p] : hash[Key(parts[p][i])] = p
  BY DEF PartsHoldPairs, Outputs
<1> DEFINE P == Words \X Values
<1>1. PICK R : /\ PartsOf(R)
               /\ FlattenSeq(Outputs) \in Seq(P)
               /\ Lists(FlattenSeq(Outputs), R, PairAt)
  BY PartsList
<1>2. reducers \in Nat \ {0} /\ hash \in [Words -> 1 .. reducers]
  BY SizesAssumption DEF DataInv, JobInv
<1> DEFINE E == [p \in 1 .. reducers |-> RoutedTo(R, PairAt, hash, p)]
<1>3. parts \in Seq(Seq(P))
  <2>1. parts \in [1 .. reducers -> Seq(P)]
    BY <1>1 DEF PartsOf, DataInv, ShuffleInv, Shuffled
  <2> QED
    BY <1>2, <2>1, SeqDef
<1>4. \A p \in DOMAIN parts : Lists(parts[p], E[p], PairAt)
  BY <1>1 DEF PartsOf
<1>5. \A p, q \in DOMAIN parts : p # q => E[p] \cap E[q] = {}
  BY <1>1 DEF PartsOf, RoutedTo
<1>6. UNION {E[p] : p \in DOMAIN parts} = R
  <2>1. \A d \in R : hash[PairAt[d][1]] \in 1 .. reducers
    BY <1>1, <1>2, PairTypes DEF PartsOf, DataInv
  <2> QED
    BY <1>1, <2>1 DEF PartsOf, RoutedTo
<1> HIDE DEF E, P
<1>7. FlattenSeq(parts) \in Seq(P)
  BY <1>3, FlattenLists
<1>8. Lists(FlattenSeq(parts), UNION {E[p] : p \in DOMAIN parts}, PairAt)
  BY <1>3, <1>4, <1>5, FlattenOfLists
<1>9. ToBag(FlattenSeq(parts)) = ToBag(FlattenSeq(Outputs))
  BY <1>1, <1>6, <1>7, <1>8, ListsBag DEF P
<1>10. ASSUME NEW p \in DOMAIN parts
       PROVE  /\ IsSorted(parts[p], LAMBDA a, b : Key(a) <= Key(b))
              /\ \A i \in DOMAIN parts[p] : hash[Key(parts[p][i])] = p
  <2>1. /\ parts[p] \in Seq(P)
        /\ Lists(parts[p], RoutedTo(R, PairAt, hash, p), PairAt)
        /\ \A m, n \in DOMAIN parts[p] : m <= n => parts[p][m][1] <= parts[p][n][1]
    BY <1>1 DEF PartsOf, P
  <2>2. DOMAIN parts[p] = 1 .. Len(parts[p]) /\ Len(parts[p]) \in Nat
    BY <2>1, LenProperties
  <2>3. IsSorted(parts[p], LAMBDA a, b : Key(a) <= Key(b))
    BY <2>1, <2>2 DEF IsSorted, Key
  <2>4. \A i \in DOMAIN parts[p] : hash[Key(parts[p][i])] = p
    BY <2>1 DEF Lists, Listing, RoutedTo, Key
  <2> QED
    BY <2>3, <2>4
<1> QED
  BY <1>9, <1>10

\* The parts hold what the outputs that were read do, each key in one part and
\* sorted by key, whatever was read and in whatever order.
THEOREM PartsHoldOutputs == Spec => []PartsHoldPairs
<1>1. Init => SplitInv /\ DataInv
  BY InitSplit, DataInit
<1>2. SplitInv /\ DataInv /\ [Next]_vars => (SplitInv /\ DataInv)'
  BY SplitStep, DataStep
<1>3. SplitInv /\ DataInv => PartsHoldPairs
  BY PartsHold
<1> QED
  BY <1>1, <1>2, <1>3, PTL DEF Spec

----
\* The output of the REDUCE task of a part has one line for each word that is
\* routed to the part and occurs in what was read of the input.
KeysIn(R, p) == KeysOf(RoutedTo(R, PairAt, hash, p), PairAt)

Results == IF app = "count" THEN Nat ELSE SUBSET Words

ReducedOf(R) ==
  \A p \in DOMAIN reduceOut :
    /\ reduceOut[p] \in Seq(Words \X Results)
    /\ Lists(reduceOut[p], KeysIn(R, p), Totals(app, R, PairAt))

\* A part has all the places of its words that were read, so that their totals
\* are those of what was read.
LEMMA ReducedList ==
  ASSUME SplitInv, DataInv, NEW R, PartsOf(R)
  PROVE  ReducedOf(R)
<1> SUFFICES ASSUME NEW p \in DOMAIN reduceOut
             PROVE  /\ reduceOut[p] \in Seq(Words \X Results)
                    /\ Lists(reduceOut[p], KeysIn(R, p), Totals(app, R, PairAt))
  BY DEF ReducedOf
<1> DEFINE s == parts[p]
           v == PairAt
           D == RoutedTo(R, v, hash, p)
           script == app
<1>1. p \in DOMAIN parts /\ reduceOut[p] = Reduced(script, s) /\ p \in 1 .. reducers
  BY DEF DataInv, ReduceInv, PartsOf
<1>2. s \in Seq(Words \X Values) /\ Lists(s, D, v)
  BY <1>1 DEF PartsOf
<1>3. /\ script = "count" => Values = {1}
      /\ script = "count" => Results = Nat
      /\ script # "count" => Results = SUBSET Values
  BY DEF Values, Results
<1> HIDE DEF s, v, D, script
<1>4. /\ Reduced(script, s) \in Seq(Words \X Results)
      /\ Lists(Reduced(script, s), KeysOf(D, v), Totals(script, D, v))
  BY <1>2, <1>3, ReducedLists
<1>5. \A w \in Words : At(D, v, w) = IF hash[w] = p THEN At(R, v, w) ELSE {}
  BY DEF D, At, RoutedTo
<1>6. ASSUME NEW w \in KeysOf(D, v)
      PROVE  Totals(script, D, v)[w] = Totals(script, R, v)[w]
  <2>1. w \in Words /\ At(D, v, w) = At(R, v, w)
    BY <1>5 DEF KeysOf
  <2> QED
    BY <2>1 DEF Totals, Total
<1> DEFINE K == KeysOf(D, v)
           r == Reduced(script, s)
<1>7. PICK b : Listing(b, r, K, Totals(script, D, v))
  BY <1>4 DEF Lists
<1>8. Listing(b, r, K, Totals(script, R, v))
  BY <1>6, <1>7 DEF Listing
<1>9. Lists(r, K, Totals(script, R, v))
  BY <1>8 DEF Lists
<1> QED
  BY <1>1, <1>4, <1>9 DEF KeysIn, D, v, script

\* What the objects list are pairs of a word and a value.
LEMMA TypesHold == SplitInv /\ DataInv => TypeOK
<1> SUFFICES ASSUME SplitInv, DataInv PROVE TypeOK
  OBVIOUS
<1>1. DOMAIN mapOut \subseteq DOMAIN chunks /\ DOMAIN reduceOut \subseteq DOMAIN parts
  BY DEF DataInv, MapInv, ReduceInv
<1>2. ASSUME NEW i \in DOMAIN mapOut
      PROVE  mapOut[i] \in Seq(Words \X Values)
  <2>1. i \in DOMAIN chunks /\ mapOut[i] = Mapped(app, chunks[i])
    BY DEF DataInv, MapInv
  <2>2. chunks # <<>>
    BY <2>1
  <2>3. PICK M : MapPlaces(M)
    BY <2>2, MapLists DEF DataInv
  <2> QED
    BY <2>1, <2>3 DEF MapPlaces
<1>3. ASSUME NEW p \in DOMAIN parts
      PROVE  parts[p] \in Seq(Words \X Words)
  <2>1. parts # <<>>
    OBVIOUS
  <2>2. PICK R : PartsOf(R)
    BY <2>1, PartsList
  <2>3. parts[p] \in Seq(Words \X Values)
    BY <2>2 DEF PartsOf
  <2>4. Values \subseteq Words
    BY WordsAssumption DEF Values, Words
  <2> DEFINE P == Words \X Values
             Q == Words \X Words
             s == parts[p]
  <2>5. P \subseteq Q
    BY <2>4
  <2> HIDE DEF P, Q, s
  <2>6. s \in Seq(P)
    BY <2>3 DEF P, s
  <2>7. s \in [1 .. Len(s) -> P] /\ Len(s) \in Nat
    BY <2>6, LenProperties
  <2>8. s \in [1 .. Len(s) -> Q]
    BY <2>5, <2>7
  <2>9. s \in Seq(Q)
    BY <2>7, <2>8, SeqDef
  <2> QED
    BY <2>9 DEF Q, s
<1>4. ASSUME NEW p \in DOMAIN reduceOut
      PROVE  reduceOut[p] \in Seq(Words \X Results)
  <2>1. parts # <<>>
    BY <1>1
  <2>2. PICK R : PartsOf(R)
    BY <2>1, PartsList
  <2> QED
    BY <2>2, ReducedList DEF ReducedOf
<1>5. Len(final) <= 1
  <2>1. CASE final = <<>>
    BY <2>1, EmptySeq
  <2>2. CASE final # <<>>
    <3>1. PICK x : final = <<x>>
      BY <2>2 DEF DataInv, FinalInv
    <3> QED
      BY <3>1
  <2> QED
    BY <2>1, <2>2
<1> QED
  BY <1>1, <1>2, <1>3, <1>4, <1>5 DEF TypeOK, Values, Results

\* Objects exist from first to last, and hold pairs of a word and a value, for
\* any inputs, numbers of mappers and reducers, orders and objects left out.
THEOREM ObjectsTyped == Spec => []TypeOK
<1>1. Init => SplitInv /\ DataInv
  BY InitSplit, DataInit
<1>2. SplitInv /\ DataInv /\ [Next]_vars => (SplitInv /\ DataInv)'
  BY SplitStep, DataStep
<1> QED
  BY <1>1, <1>2, TypesHold, PTL DEF Spec

----
\* The places of a word are its occurrences, and what they come to is what one
\* process that reads the whole input expects.
LEMMA PlacesAre ==
  ASSUME NEW w \in Words
  PROVE  /\ At(Places, PairAt, w) = Occurrences(w)
         /\ Total(app, Places, PairAt, w) = Expected(w)
<1>1. 0 \notin Words
  BY DEF Words
<1>2. ASSUME NEW l \in DOMAIN lines, NEW i \in PlacesIn(lines[l])
      PROVE  /\ <<l, i>> \in Places
             /\ PairAt[<<l, i>>] = <<Counts(lines[l])[i], ValueIn(lines[l])>>
  <2>1. <<l, i>> \in Places
    BY DEF Places
  <2>2. PairAt[<<l, i>>] = PairsIn(lines[l])[i]
    BY <2>1 DEF PairAt
  <2>3. i \in DOMAIN Counts(lines[l])
    BY DEF PlacesIn
  <2> QED
    BY <2>1, <2>2, <2>3 DEF PairsIn
<1>3. ASSUME NEW d \in Places
      PROVE  \E l \in DOMAIN lines : \E i \in PlacesIn(lines[l]) : d = <<l, i>>
  BY DEF Places
<1>4. ASSUME NEW d \in At(Places, PairAt, w)
      PROVE  d \in Occurrences(w) /\ PairAt[d][2] = ValueIn(lines[d[1]])
  <2>1. d \in Places /\ PairAt[d][1] = w
    BY DEF At
  <2>2. PICK l \in DOMAIN lines : \E i \in PlacesIn(lines[l]) : d = <<l, i>>
    BY <1>3, <2>1
  <2>3. PICK i \in PlacesIn(lines[l]) : d = <<l, i>>
    BY <2>2
  <2>4. /\ Counts(lines[l])[i] = w /\ i \in DOMAIN Counts(lines[l])
        /\ PairAt[d][2] = ValueIn(lines[l])
    BY <1>2, <2>1, <2>3 DEF PlacesIn
  <2> QED
    BY <2>3, <2>4 DEF Occurrences
<1>5. ASSUME NEW d \in Occurrences(w)
      PROVE  d \in At(Places, PairAt, w)
  <2>1. PICK l \in DOMAIN lines :
          d \in {<<l, i>> : i \in {k \in DOMAIN Counts(lines[l]) :
                                     Counts(lines[l])[k] = w}}
    BY DEF Occurrences
  <2>2. PICK i \in DOMAIN Counts(lines[l]) : Counts(lines[l])[i] = w /\ d = <<l, i>>
    BY <2>1
  <2>3. i \in PlacesIn(lines[l])
    BY <1>1, <2>2 DEF PlacesIn
  <2>4. d \in Places /\ PairAt[d][1] = w
    BY <1>2, <2>2, <2>3
  <2> QED
    BY <2>4 DEF At
<1>6. At(Places, PairAt, w) = Occurrences(w)
  BY <1>4, <1>5
<1>7. CASE app = "count"
  BY <1>6, <1>7 DEF Total, Expected
<1>8. CASE app # "count"
  <2>1. \A d \in Occurrences(w) : PairAt[d][2] = lines[d[1]].doc
    BY <1>4, <1>6, <1>8 DEF ValueIn
  <2>2. {PairAt[d][2] : d \in Occurrences(w)} = {lines[o[1]].doc : o \in Occurrences(w)}
    BY <2>1
  <2> QED
    BY <1>6, <1>8, <2>2 DEF Total, Expected
<1> QED
  BY <1>6, <1>7, <1>8

\* The input is finite: the one process lists all its places.
LEMMA PlacesFinite ==
  ASSUME SplitInv, JobInv
  PROVE  IsFiniteSet(Places)
<1> DEFINE P == Words \X Values
           ss == [l \in DOMAIN lines |-> Emit(app, lines[l])]
           E == [l \in DOMAIN lines |-> {l} \X PlacesIn(lines[l])]
<1>1. ASSUME NEW l \in DOMAIN lines
      PROVE  ss[l] \in Seq(P) /\ Lists(ss[l], E[l], PairAt)
  <2>1. /\ Emit(app, lines[l]) \in Seq(P)
        /\ Lists(Emit(app, lines[l]), {l} \X PlacesIn(lines[l]), PairAt)
    BY LineLists
  <2>2. ss[l] = Emit(app, lines[l]) /\ E[l] = {l} \X PlacesIn(lines[l])
    OBVIOUS
  <2> QED
    BY <2>1, <2>2
<1>2. Len(lines) \in Nat /\ DOMAIN lines = 1 .. Len(lines) /\ DOMAIN ss = DOMAIN lines
  BY ChunksType, LenProperties
<1>3. \A l, m \in DOMAIN lines : l # m => E[l] \cap E[m] = {}
  OBVIOUS
<1>4. UNION {E[l] : l \in DOMAIN lines} = Places
  BY DEF Places
<1> HIDE DEF P, E
<1>5. ss \in [1 .. Len(lines) -> Seq(P)]
  BY <1>1, <1>2
<1>6. ss \in Seq(Seq(P))
  BY <1>2, <1>5, SeqDef
<1> HIDE DEF ss
<1>7. Lists(FlattenSeq(ss), UNION {E[l] : l \in DOMAIN ss}, PairAt)
  BY <1>1, <1>2, <1>3, <1>6, FlattenOfLists
<1>8. FlattenSeq(ss) \in Seq(P)
  BY <1>6, FlattenLists
<1>9. Lists(FlattenSeq(ss), Places, PairAt)
  BY <1>2, <1>4, <1>7
<1> QED
  BY <1>8, <1>9, ListsSize

\* A total of what was read is not more than that of the input.
LEMMA NothingIsInvented == SplitInv /\ DataInv => NothingInvented
<1> SUFFICES ASSUME SplitInv, DataInv,
                    NEW p \in DOMAIN reduceOut, NEW i \in DOMAIN reduceOut[p]
             PROVE  LET key == Key(reduceOut[p][i])
                        value == Value(reduceOut[p][i])
                    IN  IF app = "count" THEN value <= Expected(key)
                                         ELSE value \subseteq Expected(key)
  BY DEF NothingInvented
<1> DEFINE key == Key(reduceOut[p][i])
           value == Value(reduceOut[p][i])
<1>1. parts # <<>>
  <2>1. p \in DOMAIN parts
    BY DEF DataInv, ReduceInv
  <2> QED
    BY <2>1
<1>2. PICK R : PartsOf(R)
  BY <1>1, PartsList
<1>3. Lists(reduceOut[p], KeysIn(R, p), Totals(app, R, PairAt))
  BY <1>2, ReducedList DEF ReducedOf
<1>4. PICK b : Listing(b, reduceOut[p], KeysIn(R, p), Totals(app, R, PairAt))
  BY <1>3 DEF Lists
<1>5. /\ b[i] \in KeysIn(R, p)
      /\ reduceOut[p][i] = Totals(app, R, PairAt)[b[i]]
  BY <1>4 DEF Listing
<1>6. b[i] \in Words
  BY <1>5 DEF KeysIn, KeysOf
<1>7. reduceOut[p][i] = <<b[i], Total(app, R, PairAt, b[i])>>
  BY <1>5, <1>6 DEF Totals
<1>8. key \in Words /\ value = Total(app, R, PairAt, key)
  BY <1>6, <1>7 DEF Key, Value
<1> HIDE DEF key, value
<1>9. At(R, PairAt, key) \subseteq At(Places, PairAt, key)
  BY <1>2 DEF PartsOf, At
<1>10. Total(app, Places, PairAt, key) = Expected(key)
  BY <1>8, PlacesAre
<1>11. CASE app = "count"
  <2>1. IsFiniteSet(At(Places, PairAt, key))
    <3>1. At(Places, PairAt, key) \subseteq Places
      BY DEF At
    <3> QED
      BY <3>1, PlacesFinite, FS_Subset DEF DataInv
  <2>2. Cardinality(At(R, PairAt, key)) <= Cardinality(At(Places, PairAt, key))
    BY <1>9, <2>1, FS_Subset
  <2>3. value <= Expected(key)
    BY <1>8, <1>10, <1>11, <2>2 DEF Total
  <2> QED
    BY <1>11, <2>3 DEF key, value
<1>12. CASE app # "count"
  <2>1. value \subseteq Expected(key)
    BY <1>8, <1>9, <1>10, <1>12 DEF Total
  <2> QED
    BY <1>12, <2>1 DEF key, value
<1> QED
  BY <1>11, <1>12

\* Whatever is left out, no output has a word more often, or in a document more,
\* than the input has it.
THEOREM NothingIsAdded == Spec => []NothingInvented
<1>1. Init => SplitInv /\ DataInv
  BY InitSplit, DataInit
<1>2. SplitInv /\ DataInv /\ [Next]_vars => (SplitInv /\ DataInv)'
  BY SplitStep, DataStep
<1> QED
  BY <1>1, <1>2, NothingIsInvented, PTL DEF Spec

----
\* The words that occur in the input, each with its answer.
Occurring == {w \in Words : Occurrences(w) # {}}

Answers == [w \in Words |-> <<w, Expected(w)>>]

\* When all of the input was read, the output of each part has the answers of
\* some words, and each word that occurs is in one of them.
LEMMA ReducedAnswers ==
  ASSUME SplitInv, DataInv, parts # <<>>,
         \A i \in DOMAIN mapOut : <<"map", i>> \notin unread,
         DOMAIN reduceOut = DOMAIN parts
  PROVE  \E K : /\ ListEach(reduceOut, DOMAIN parts, Words \X Results, K, Answers)
                /\ Joined(K, DOMAIN parts) = Occurring
<1> DEFINE K == [p \in DOMAIN parts |-> KeysIn(Places, p)]
<1>1. PartsOf(Places)
  BY PartsList DEF PartsOf
<1>2. ReducedOf(Places)
  BY <1>1, ReducedList
<1>3. Totals(app, Places, PairAt) = Answers
  BY PlacesAre DEF Totals, Answers
<1>4. ASSUME NEW p \in DOMAIN parts
      PROVE  K[p] = {w \in Words : hash[w] = p /\ Occurrences(w) # {}}
  <2>1. \A w \in Words : At(RoutedTo(Places, PairAt, hash, p), PairAt, w)
          = IF hash[w] = p THEN At(Places, PairAt, w) ELSE {}
    BY DEF At, RoutedTo
  <2>2. KeysIn(Places, p) = {w \in Words : hash[w] = p /\ Occurrences(w) # {}}
    BY <2>1, PlacesAre DEF KeysIn, KeysOf
  <2> QED
    BY <2>2
<1>5. \A p \in DOMAIN parts : K[p] = KeysIn(Places, p)
  OBVIOUS
<1> HIDE DEF K
<1>6. \A p \in DOMAIN parts : /\ reduceOut[p] \in Seq(Words \X Results)
                              /\ Lists(reduceOut[p], K[p], Answers)
  BY <1>2, <1>3, <1>5 DEF ReducedOf
<1>7. \A p, q \in DOMAIN parts : p # q => K[p] \cap K[q] = {}
  BY <1>4
<1>8. ListEach(reduceOut, DOMAIN parts, Words \X Results, K, Answers)
  BY <1>6, <1>7 DEF ListEach
<1>9. \A w \in Words : hash[w] \in DOMAIN parts
  BY <1>1 DEF PartsOf, DataInv, JobInv
<1>10. Joined(K, DOMAIN parts) = Occurring
  BY <1>4, <1>9 DEF Joined, Occurring
<1> QED
  BY <1>8, <1>10

\* A sequence that lists them is the answer, each key once.
LEMMA ListsAnswer ==
  ASSUME NEW S, NEW s \in Seq(S), Lists(s, Occurring, Answers)
  PROVE  ToSet(s) = Answer /\ Len(s) = Cardinality(Answer)
<1> DEFINE same == [a \in Answer |-> a]
           g == [w \in Occurring |-> <<w, Expected(w)>>]
<1>1. Answer = {<<w, Expected(w)>> : w \in Occurring}
  BY DEF Answer, Occurring
<1>2. \A w \in Occurring : w \in Words
  BY DEF Occurring
<1>3. \A w \in Occurring : g[w] \in Answer /\ g[w] = <<w, Expected(w)>>
  BY <1>1
<1>4. \A w \in Occurring : Answers[w] = same[g[w]]
  BY <1>2, <1>3 DEF Answers
<1>5. g \in [Occurring -> Answer]
  BY <1>1
<1>6. \A w, x \in Occurring : g[w] = g[x] => w = x
  BY <1>3
<1>7. \A a \in Answer : \E w \in Occurring : g[w] = a
  BY <1>1, <1>3
<1> HIDE DEF same, g
<1>8. Matches(g, Occurring, Answers, Answer, same)
  BY <1>4, <1>5, <1>6, <1>7 DEF Matches
<1>9. Lists(s, Answer, same)
  BY <1>8, ListsMoved
<1>10. Cardinality(Answer) = Len(s) /\ ToSet(s) = {same[a] : a \in Answer}
  BY <1>9, ListsSize
<1> QED
  BY <1>10 DEF same

\* The outputs list the words that occur, each part its own.
LEMMA ReducedIsAnswer == SplitInv /\ DataInv => ReducedToAnswer
<1> DEFINE all == [p \in DOMAIN parts |-> reduceOut[p]]
<1> SUFFICES ASSUME SplitInv, DataInv, parts # <<>>, DOMAIN reduceOut = DOMAIN parts,
                    \A i \in DOMAIN mapOut : <<"map", i>> \notin unread
             PROVE  /\ ToSet(FlattenSeq(all)) = Answer
                    /\ Len(FlattenSeq(all)) = Cardinality(Answer)
  BY DEF ReducedToAnswer
<1> DEFINE P == Words \X Results
<1>1. PICK K : /\ ListEach(reduceOut, DOMAIN parts, P, K, Answers)
               /\ Joined(K, DOMAIN parts) = Occurring
  BY ReducedAnswers
<1>2. DOMAIN parts = 1 .. reducers /\ reducers \in Nat
  BY PartsDomain, SizesAssumption DEF DataInv, JobInv
<1>3. \A p \in DOMAIN parts : all[p] \in Seq(P) /\ Lists(all[p], K[p], Answers)
  BY <1>1 DEF ListEach
<1>4. \A p, q \in DOMAIN parts : p # q => K[p] \cap K[q] = {}
  BY <1>1 DEF ListEach
<1>5. DOMAIN all = DOMAIN parts
  OBVIOUS
<1> HIDE DEF P
<1>6. all \in [1 .. reducers -> Seq(P)]
  BY <1>2, <1>3
<1>7. all \in Seq(Seq(P))
  BY <1>2, <1>6, SeqDef
<1> HIDE DEF all
<1>8. FlattenSeq(all) \in Seq(P)
  BY <1>7, FlattenLists
<1>9. Lists(FlattenSeq(all), UNION {K[p] : p \in DOMAIN all}, Answers)
  BY <1>3, <1>4, <1>5, <1>7, FlattenOfLists
<1>10. Lists(FlattenSeq(all), Occurring, Answers)
  BY <1>1, <1>5, <1>9 DEF Joined
<1> QED
  BY <1>8, <1>10, ListsAnswer

\* So does their merge, and the keys of its lines differ.
LEMMA FinalHolds == SplitInv /\ DataInv => FinalIsAnswer
<1> SUFFICES ASSUME SplitInv, DataInv, final # <<>>, unread = {}
             PROVE  /\ ToSet(final[1]) = Answer
                    /\ IsSorted(final[1], LAMBDA a, b : Key(a) < Key(b) \/ a = b)
                    /\ Len(final[1]) = Cardinality(Answer)
  BY DEF FinalIsAnswer
<1> DEFINE P == Words \X Results
           ids == DOMAIN parts
<1>1. parts # <<>> /\ DOMAIN reduceOut = ids /\ PartsRead = ids
  BY DEF DataInv, FinalInv, PartsRead
<1>2. PICK order \in Orders(ids) : final = <<SortedLines(Read(reduceOut, order))>>
  BY <1>1 DEF DataInv, FinalInv
<1>3. PICK K : /\ ListEach(reduceOut, ids, P, K, Answers)
               /\ Joined(K, ids) = Occurring
  BY <1>1, ReducedAnswers
<1>4. IsFiniteSet(ids)
  <2>1. ids = 1 .. reducers /\ reducers \in Nat
    BY <1>1, PartsDomain, SizesAssumption DEF DataInv, JobInv
  <2> QED
    BY <2>1, FS_Interval
<1> HIDE DEF P, ids
<1> DEFINE s == Read(reduceOut, order)
<1>5. s \in Seq(P) /\ Lists(s, Joined(K, ids), Answers)
  BY <1>3, <1>4, ReadLists
<1> HIDE DEF s
<1>6. s \in Seq(Words \X Results) /\ Lists(s, Occurring, Answers)
  BY <1>3, <1>5 DEF P
<1> DEFINE t == ByKey(s)
<1>7. /\ t \in Seq(Words \X Results)
      /\ Lists(t, Occurring, Answers)
      /\ \A m, n \in DOMAIN t : m <= n => t[m][1] <= t[n][1]
  BY <1>6, ByKeyLists
<1>8. final[1] = t
  BY <1>2 DEF SortedLines, s
<1> HIDE DEF t
<1>9. ToSet(t) = Answer /\ Len(t) = Cardinality(Answer)
  BY <1>7, ListsAnswer
<1>10. PICK at : Listing(at, t, Occurring, Answers)
  BY <1>7 DEF Lists
<1>11. \A n \in DOMAIN t : t[n][1] = at[n] /\ t[n] = Answers[at[n]]
  <2>1. \A n \in DOMAIN t : at[n] \in Occurring /\ t[n] = Answers[at[n]]
    BY <1>10 DEF Listing
  <2>2. \A w \in Occurring : Answers[w][1] = w
    BY DEF Occurring, Answers
  <2> QED
    BY <2>1, <2>2
<1>12. /\ DOMAIN t = 1 .. Len(t) /\ Len(t) \in Nat
       /\ \A n \in DOMAIN t : t[n][1] \in Int
  <2>1. \A n \in DOMAIN t : t[n] \in Words \X Results
    BY <1>7, LenProperties, ElementOfSeq
  <2> QED
    BY <1>7, <2>1, LenProperties, WordsAssumption DEF Words
<1>13. \A m, n \in DOMAIN t : m < n => t[m][1] < t[n][1] \/ t[m] = t[n]
  BY <1>7, <1>11, <1>12
<1>14. IsSorted(t, LAMBDA a, b : Key(a) < Key(b) \/ a = b)
  BY <1>12, <1>13 DEF IsSorted, Key
<1> QED
  BY <1>8, <1>9, <1>14

\* When no object was left out, the outputs of the REDUCE tasks are the answer for
\* the whole input and each key is in one of them, for any input, any numbers of
\* mappers and reducers, any hash, order of the tasks and repetition of them.
THEOREM ReducersAnswer == Spec => []ReducedToAnswer
<1>1. Init => SplitInv /\ DataInv
  BY InitSplit, DataInit
<1>2. SplitInv /\ DataInv /\ [Next]_vars => (SplitInv /\ DataInv)'
  BY SplitStep, DataStep
<1> QED
  BY <1>1, <1>2, ReducedIsAnswer, PTL DEF Spec

\* And the final output of a job that counts is the answer, sorted by key.
THEOREM OutputIsAnswer == Spec => []FinalIsAnswer
<1>1. Init => SplitInv /\ DataInv
  BY InitSplit, DataInit
<1>2. SplitInv /\ DataInv /\ [Next]_vars => (SplitInv /\ DataInv)'
  BY SplitStep, DataStep
<1> QED
  BY <1>1, <1>2, FinalHolds, PTL DEF Spec
=============================================================================
