------------------------------ MODULE DataPath ------------------------------
(***************************************************************************)
(* What the objects of a job hold, from the lines of its input to its      *)
(* output: the split, the sample scripts, the shuffle and the final merge  *)
(* (src/manager_service/app/utils).                                        *)
(*                                                                         *)
(* Scheduler decides when a step is taken; here a MAP or a REDUCE task     *)
(* runs in any order and any number of times, because a task whose pod was *)
(* killed is run again.  A word is a positive number, the order of numbers *)
(* standing for that of strings, and 0 a word of which cleaning leaves     *)
(* nothing.  A line is a document id, or None where it has no tab, and the *)
(* words after it.                                                         *)
(***************************************************************************)
EXTENDS Integers, Sequences, FiniteSets, SequencesExt

CONSTANTS
  NumWords,     \* how many words survive cleaning
  None,         \* no document id
  Inputs,       \* the input files, as sequences of lines
  MaxMappers,   \* the largest num_mappers
  MaxReducers   \* the largest num_reducers

Words == 1 .. NumWords

ASSUME WordsAssumption == NumWords \in Nat \ {0} /\ None \notin Nat

ASSUME InputsAssumption ==
  Inputs \subseteq Seq([doc : Words \cup {None}, words : Seq(Words \cup {0})])

ASSUME SizesAssumption ==
  MaxMappers \in Nat \ {0} /\ MaxReducers \in Nat \ {0}

VARIABLES
  app,        \* the scripts of the job: "count" words or "invert" an index
  lines,      \* its input
  mappers, reducers,  \* num_mappers and num_reducers
  hash,       \* md5 of a word modulo num_reducers
  chunks,     \* objects <id>_chunk_<i>: the lines of each chunk
  mapOut,     \* objects <id>_map_<i>: key and value pairs
  parts,      \* objects <id>_part_<i>
  reduceOut,  \* objects <id>_reduce_<i>
  final,      \* object output_path, once it is written
  unread      \* objects that a merge failed to read and left out

vars == <<app, lines, mappers, reducers, hash, chunks, mapOut, parts,
          reduceOut, final, unread>>
job == <<app, lines, mappers, reducers, hash>>

Init ==
  /\ app \in {"count", "invert"}
  /\ lines \in Inputs
  /\ mappers \in 1 .. MaxMappers
  /\ reducers \in 1 .. MaxReducers
  /\ hash \in [Words -> 1 .. reducers]
  /\ chunks = <<>> /\ mapOut = <<>> /\ parts = <<>> /\ reduceOut = <<>>
  /\ final = <<>> /\ unread = {}

----
\* split_input_file_to_chunks
Blank(line) == line.doc = None /\ line.words = <<>>

\* The elements of seq at the positions in I, in their order.
Kept(seq, I) ==
  LET kept[n \in 0 .. Len(seq)] ==
        IF n = 0 THEN <<>>
        ELSE IF n \in I THEN Append(kept[n - 1], seq[n])
        ELSE kept[n - 1]
  IN  kept[Len(seq)]

NonBlank(ls) == Kept(ls, {n \in DOMAIN ls : ~Blank(ls[n])})

\* Defect: the size is rounded down.
FloorSize(length, n) == IF length < n THEN 1 ELSE length \div n

ChunkSize(length, n) == (length + n - 1) \div n

Slices(ls, size) ==
  [i \in 1 .. ChunkSize(Len(ls), size) |->
     SubSeq(ls, (i - 1) * size + 1,
            IF i * size < Len(ls) THEN i * size ELSE Len(ls))]

Split ==
  /\ chunks = <<>>
  /\ NonBlank(lines) # <<>>
  /\ chunks' = Slices(NonBlank(lines), ChunkSize(Len(NonBlank(lines)), mappers))
  /\ UNCHANGED <<job, mapOut, parts, reduceOut, final, unread>>

----
\* map.py and invert_map.py
\* Defect: what cleaning leaves is not looked at.
Uncleaned(words) == words

Cleaned(words) == Kept(words, {i \in DOMAIN words : words[i] # 0})

Emit(script, line) ==
  LET pairs(words, value) == [i \in DOMAIN words |-> <<words[i], value>>]
      docId == IF line.doc = None THEN <<>> ELSE <<line.doc>>
  IN  CASE script = "count" -> pairs(Cleaned(docId \o line.words), 1)
        [] script = "invert" /\ line.doc = None -> <<>>
        [] script = "invert" /\ line.doc # None ->
             pairs(Cleaned(line.words), line.doc)

Mapped(script, chunk) ==
  FlattenSeq([l \in DOMAIN chunk |-> Emit(script, chunk[l])])

\* An object is uploaded over the one of the same name, if there is one.
Put(objects, i, data) ==
  [j \in DOMAIN objects \cup {i} |-> IF j = i THEN data ELSE objects[j]]

MapTask(i) ==
  /\ i \in DOMAIN chunks
  /\ mapOut' = Put(mapOut, i, Mapped(app, chunks[i]))
  /\ UNCHANGED <<job, chunks, parts, reduceOut, final, unread>>

----
\* merge_and_partition_map: the outputs are read in the order of a query that
\* asks for none, the pairs sorted by key, those of one key as they were read.
Key(pair) == pair[1]
Value(pair) == pair[2]

\* Defect: the pairs are left as they were read.
AsRead(pairs) == pairs

OfKey(w, pairs) == Kept(pairs, {i \in DOMAIN pairs : Key(pairs[i]) = w})

ByKey(pairs) == FlattenSeq([w \in Words |-> OfKey(w, pairs)])

Routed(pairs, route, p) ==
  Kept(pairs, {i \in DOMAIN pairs : route[Key(pairs[i])] = p})

Shuffled(pairs, route, num) ==
  [p \in 1 .. num |-> ByKey(Routed(pairs, route, p))]

Orders(ids) == {o \in [1 .. Cardinality(ids) -> ids] : \A i, j \in DOMAIN o :
                  o[i] = o[j] => i = j}

Read(objects, order) == FlattenSeq([i \in DOMAIN order |-> objects[order[i]]])

\* The job is shuffled when it has as many outputs as num_mappers asked for.
Shuffle ==
  /\ parts = <<>>
  /\ DOMAIN mapOut = 1 .. mappers
  /\ \E lost \in SUBSET DOMAIN mapOut :
     \E order \in Orders(DOMAIN mapOut \ lost) :
       /\ parts' = Shuffled(Read(mapOut, order), hash, reducers)
       /\ unread' = unread \cup {<<"map", i>> : i \in lost}
  /\ UNCHANGED <<job, chunks, mapOut, reduceOut, final>>

----
\* reduce.py and invert_reduce.py
Sum(values) ==
  LET sum[n \in 0 .. Len(values)] == IF n = 0 THEN 0 ELSE sum[n - 1] + values[n]
  IN  sum[Len(values)]

\* Defect: a value that was seen already is not added.
SumOfDistinct(values) == Sum(SetToSeq(ToSet(values)))

Counted(values) == Sum(values)

Combined(script, values) ==
  IF script = "count" THEN Counted(values) ELSE ToSet(values)

\* Defect: the values of the keys before are not cleared.
ValuesSoFar(key, pairs) ==
  LET own == Kept(pairs, {i \in DOMAIN pairs : Key(pairs[i]) <= key})
  IN  [i \in DOMAIN own |-> Value(own[i])]

ValuesOf(key, pairs) ==
  LET own == OfKey(key, pairs)
  IN  [i \in DOMAIN own |-> Value(own[i])]

Reduced(script, pairs) ==
  LET keys == Kept([w \in Words |-> w], {Key(pairs[i]) : i \in DOMAIN pairs})
  IN  [k \in DOMAIN keys |-> <<keys[k], Combined(script, ValuesOf(keys[k], pairs))>>]

ReduceTask(p) ==
  /\ p \in DOMAIN parts
  /\ reduceOut' = Put(reduceOut, p, Reduced(app, parts[p]))
  /\ UNCHANGED <<job, chunks, mapOut, parts, final, unread>>

\* The lines of the output; each key has one, so they are sorted by key.
SortedLines(pairs) == ByKey(pairs)

\* final_reduce_merge, which the jobs reach whose values are integers.
FinalMerge ==
  /\ app = "count"
  /\ final = <<>>
  /\ parts # <<>> /\ DOMAIN reduceOut = DOMAIN parts
  /\ \E lost \in SUBSET DOMAIN parts :
     \E order \in Orders(DOMAIN parts \ lost) :
       /\ final' = <<SortedLines(Read(reduceOut, order))>>
       /\ unread' = unread \cup {<<"reduce", p>> : p \in lost}
  /\ UNCHANGED <<job, chunks, mapOut, parts, reduceOut>>

Next ==
  \/ Split \/ Shuffle \/ FinalMerge
  \/ \E i \in 1 .. MaxMappers : MapTask(i)
  \/ \E p \in 1 .. MaxReducers : ReduceTask(p)

Spec == Init /\ [][Next]_vars

----
\* Objects exist from first to last, and hold pairs of a word and a value.
TypeOK ==
  /\ DOMAIN mapOut \subseteq DOMAIN chunks
  /\ DOMAIN reduceOut \subseteq DOMAIN parts
  /\ \A i \in DOMAIN mapOut :
       mapOut[i] \in Seq(Words \X (IF app = "count" THEN {1} ELSE Words))
  /\ \A p \in DOMAIN parts : parts[p] \in Seq(Words \X Words)
  /\ \A p \in DOMAIN reduceOut :
       reduceOut[p] \in Seq(Words \X (IF app = "count" THEN Nat ELSE SUBSET Words))
  /\ Len(final) <= 1

\* utility.py:127-137: the chunks hold the lines that are not blank, in their
\* order and each once; none is empty and there are at most num_mappers, one for
\* each line when there are no more lines than mappers.
SplitKeepsLines ==
  chunks # <<>> =>
    /\ FlattenSeq(chunks) = NonBlank(lines)
    /\ \A i \in DOMAIN chunks : chunks[i] # <<>>
    /\ Len(chunks) <= mappers
    /\ Len(NonBlank(lines)) <= mappers => Len(chunks) = Len(NonBlank(lines))

\* The inductive invariant: the chunks are the slices of the input that the job
\* was submitted with.
SplitInv ==
  /\ lines \in Inputs /\ mappers \in 1 .. MaxMappers
  /\ chunks # <<>> =>
       /\ NonBlank(lines) # <<>>
       /\ chunks = Slices(NonBlank(lines),
                          ChunkSize(Len(NonBlank(lines)), mappers))

\* The inductive invariant of the rest: what is read was submitted, and every
\* object is what its task makes of the objects before it, whenever it is run.
JobInv ==
  /\ app \in {"count", "invert"}
  /\ reducers \in 1 .. MaxReducers /\ hash \in [Words -> 1 .. reducers]

MapInv ==
  /\ DOMAIN mapOut \subseteq DOMAIN chunks
  /\ mapOut = [i \in DOMAIN mapOut |-> Mapped(app, chunks[i])]

MapsRead == {i \in DOMAIN mapOut : <<"map", i>> \notin unread}

ShuffleInv ==
  /\ parts = <<>> => \A i \in 1 .. MaxMappers : <<"map", i>> \notin unread
  /\ parts # <<>> =>
       /\ DOMAIN mapOut = 1 .. mappers
       /\ \E order \in Orders(MapsRead) :
            parts = Shuffled(Read(mapOut, order), hash, reducers)

ReduceInv ==
  /\ DOMAIN reduceOut \subseteq DOMAIN parts
  /\ reduceOut = [p \in DOMAIN reduceOut |-> Reduced(app, parts[p])]

PartsRead == {p \in DOMAIN reduceOut : <<"reduce", p>> \notin unread}

FinalInv ==
  /\ final = <<>> => \A p \in 1 .. MaxReducers : <<"reduce", p>> \notin unread
  /\ final # <<>> =>
       /\ app = "count" /\ parts # <<>> /\ DOMAIN reduceOut = DOMAIN parts
       /\ \E order \in Orders(PartsRead) :
            final = <<SortedLines(Read(reduceOut, order))>>

DataInv == JobInv /\ MapInv /\ ShuffleInv /\ ReduceInv /\ FinalInv

\* utility.py:60-68 and 200-207: a key goes to one part, whatever chunk it came
\* from; the parts are sorted and hold the pairs of the outputs that were read,
\* each as often as they do.
PartsHoldPairs ==
  LET outputs == [i \in DOMAIN mapOut |->
                    IF <<"map", i>> \in unread THEN <<>> ELSE mapOut[i]]
  IN  parts # <<>> =>
        /\ ToBag(FlattenSeq(parts)) = ToBag(FlattenSeq(outputs))
        /\ \A p \in DOMAIN parts :
             /\ IsSorted(parts[p], LAMBDA a, b : Key(a) <= Key(b))
             /\ \A i \in DOMAIN parts[p] : hash[Key(parts[p][i])] = p

\* The answer of one process that reads the whole input: where each word is,
\* and so how often and in which documents.
Counts(line) ==
  CASE app = "count" /\ line.doc # None -> <<line.doc>> \o line.words
    [] app = "invert" /\ line.doc = None -> <<>>
    [] OTHER -> line.words

Occurrences(w) ==
  UNION {{<<l, i>> : i \in {k \in DOMAIN Counts(lines[l]) :
                             Counts(lines[l])[k] = w}} : l \in DOMAIN lines}

Expected(w) ==
  IF app = "count" THEN Cardinality(Occurrences(w))
                   ELSE {lines[o[1]].doc : o \in Occurrences(w)}

Answer == {<<w, Expected(w)>> : w \in {v \in Words : Occurrences(v) # {}}}

\* README.md:12: when no object was left out, the outputs of the REDUCE tasks
\* are together the answer for the whole input, each key in one of them, however
\* the input was split, the tasks ordered and repeated and the keys hashed.
ReducedToAnswer ==
  parts # <<>> /\ DOMAIN reduceOut = DOMAIN parts
               /\ (\A i \in DOMAIN mapOut : <<"map", i>> \notin unread) =>
    LET all == FlattenSeq([p \in DOMAIN parts |-> reduceOut[p]])
    IN  ToSet(all) = Answer /\ Len(all) = Cardinality(Answer)

\* utility.py:242-256: the output of a job is the answer, sorted.
FinalIsAnswer ==
  final # <<>> /\ unread = {} =>
    /\ ToSet(final[1]) = Answer
    /\ IsSorted(final[1], LAMBDA a, b : Key(a) < Key(b) \/ a = b)
    /\ Len(final[1]) = Cardinality(Answer)

\* An object that is left out makes an answer too small, never a wrong one.
NothingInvented ==
  \A p \in DOMAIN reduceOut : \A i \in DOMAIN reduceOut[p] :
    LET key == Key(reduceOut[p][i])
        value == Value(reduceOut[p][i])
    IN  IF app = "count" THEN value <= Expected(key)
                         ELSE value \subseteq Expected(key)
=============================================================================
