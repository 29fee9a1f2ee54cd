------------------------------ MODULE JobData ------------------------------
(***************************************************************************)
(* What a job computes: map tasks emit records and partition them by key,  *)
(* reduce tasks collect their partitions, group by key and write lines     *)
(* (src/mr/worker.go), for the two workloads of src/workload, against      *)
(* the sequential program (src/mr-main/mrsequential.go).                   *)
(*                                                                         *)
(* A text is a set of places, each holding a word and lying in one split   *)
(* (module Split).  A record carries where it came from, so a set of       *)
(* records keeps equal pairs apart; the order of records is left out, as   *)
(* both workloads reduce without regard to it.  Attempts of a task compute *)
(* the same records, so any of them may publish a file, early or late.     *)
(***************************************************************************)
EXTENDS Integers, FiniteSets

CONSTANTS
    Place,       \* occurrences of words in the input
    Word,
    Doc,         \* input files
    NMap,        \* splits, one map task each
    NReduce,
    MaxHash,     \* bound: values of ihash
    Worker,
    One,         \* the value WordCountMap emits
    Missing      \* no file of that name

ASSUME DataAssumption ==
    /\ IsFiniteSet(Place)
    /\ NMap \in Nat \ {0} /\ NReduce \in Nat \ {0} /\ MaxHash \in Nat
    /\ One \notin Doc

MapTask == 0 .. NMap - 1
ReduceTask == 0 .. NReduce - 1

VARIABLES
    app,         \* the workload
    word,        \* the word at each place
    splitOf,     \* the split each place lies in
    docOf,       \* the file of each split
    hash,        \* ihash
    parts,       \* mr-M-R
    mapped,      \* completed map tasks
    reading,     \* the reduce attempt of each worker
    outs         \* mr-out-R

input == <<app, word, splitOf, docOf, hash>>
dataVars == <<input, parts, mapped, reading, outs>>

App == {"wordcount", "invertedindex"}
Record == [key : Word, value : Doc \cup {One}, from : Place \cup MapTask]
Line == [key : Word, count : Nat, docs : SUBSET Doc]

-----------------------------------------------------------------------------
(* Map and reduce functions.                                               *)

DocAt(p) == docOf[splitOf[p]]

(* One record per occurrence in the piece of input ps. *)
WordCountMap(ps) == {[key |-> word[p], value |-> One, from |-> p] : p \in ps}

(* One record per word of the piece named from. *)
InvertedIndexMap(ps, from) == {[key |-> word[p], value |-> DocAt(p), from |-> from] : p \in ps}

Mapf(ps, from) == IF app = "wordcount" THEN WordCountMap(ps) ELSE InvertedIndexMap(ps, from)

Values(rs) == {r.value : r \in rs}

WordCountReduce(k, rs) == [key |-> k, count |-> Cardinality(rs), docs |-> {}]

(* Bug for InvertedIndexReduce: a document counts once per split with the word. *)
InvertedIndexReduceTwice(k, rs) ==
    [key |-> k, count |-> Cardinality(rs), docs |-> Values(rs)]

InvertedIndexReduce(k, rs) ==
    [key |-> k, count |-> Cardinality(Values(rs)), docs |-> Values(rs)]

Reducef(k, rs) ==
    IF app = "wordcount" THEN WordCountReduce(k, rs) ELSE InvertedIndexReduce(k, rs)

Keys(rs) == {r.key : r \in rs}

(* Sort, group by key, reduce every group to a line. *)
Grouped(rs) == {Reducef(k, {r \in rs : r.key = k}) : k \in Keys(rs)}

PlacesIn(m) == {p \in Place : splitOf[p] = m}

(* Bug for Partition: the bucket depends on the map task too. *)
PartitionByMap(m, r) == {c \in Mapf(PlacesIn(m), m) : (hash[c.key] + m) % NReduce = r}

(* The records of map task m that belong to reduce task r. *)
Partition(m, r) == {c \in Mapf(PlacesIn(m), m) : hash[c.key] % NReduce = r}

-----------------------------------------------------------------------------
(* Tasks.                                                                  *)

NoReduce == [task |-> 0, next |-> NMap + 1, got |-> {}]

DataInit ==
    /\ app \in App
    /\ word \in [Place -> Word]
    /\ splitOf \in [Place -> MapTask]
    /\ docOf \in [MapTask -> Doc]
    /\ hash \in [Word -> 0 .. MaxHash]
    /\ parts = [x \in MapTask \X ReduceTask |-> Missing]
    /\ mapped = {}
    /\ reading = [w \in Worker |-> NoReduce]
    /\ outs = [r \in ReduceTask |-> Missing]

(* An attempt of map task m renames one of its files into place. *)
PublishPartition(m, r) ==
    /\ parts' = [parts EXCEPT ![<<m, r>>] = Partition(m, r)]
    /\ UNCHANGED <<input, mapped, reading, outs>>

(* CommitTask follows the last rename. *)
CompleteMap(m) ==
    /\ \A r \in ReduceTask : parts[<<m, r>>] # Missing
    /\ mapped' = mapped \cup {m}
    /\ UNCHANGED <<input, parts, reading, outs>>

Idle(w) == reading[w].next > NMap

(* Reduce tasks are handed out when every map task is completed. *)
StartReduce(w, r) ==
    /\ mapped = MapTask
    /\ Idle(w)
    /\ reading' = [reading EXCEPT ![w] = [task |-> r, next |-> 0, got |-> {}]]
    /\ UNCHANGED <<input, parts, mapped, outs>>

MoreParts(w) == reading[w].next < NMap

ReadPartition(w) ==
    /\ MoreParts(w)
    /\ LET r == reading[w].task
           m == reading[w].next
       IN  reading' = [reading EXCEPT ![w] = [task |-> r, next |-> m + 1,
                                             got |-> reading[w].got \cup parts[<<m, r>>]]]
    /\ UNCHANGED <<input, parts, mapped, outs>>

(* Groups what it read and renames its output into place. *)
PublishOut(w) ==
    /\ ~Idle(w) /\ ~MoreParts(w)
    /\ outs' = [outs EXCEPT ![reading[w].task] = Grouped(reading[w].got)]
    /\ reading' = [reading EXCEPT ![w] = NoReduce]
    /\ UNCHANGED <<input, parts, mapped>>

(* The attempt fails, is refused or dies. *)
AbandonReduce(w) ==
    /\ ~Idle(w)
    /\ reading' = [reading EXCEPT ![w] = NoReduce]
    /\ UNCHANGED <<input, parts, mapped, outs>>

DataNext ==
    \/ \E m \in MapTask, r \in ReduceTask : PublishPartition(m, r)
    \/ \E m \in MapTask : CompleteMap(m)
    \/ \E w \in Worker, r \in ReduceTask : StartReduce(w, r)
    \/ \E w \in Worker : ReadPartition(w) \/ PublishOut(w) \/ AbandonReduce(w)

DataSpec == DataInit /\ [][DataNext]_dataVars

-----------------------------------------------------------------------------
(* mrsequential: maps whole files, keeps all records in one place.         *)

PlacesOf(d) == {p \in Place : DocAt(p) = d}

Sequential == Grouped(UNION {Mapf(PlacesOf(d), 0) : d \in Doc})

(* verify.OutputHash reads the lines of every finished output file. *)
Published == {r \in ReduceTask : outs[r] # Missing}
Output == UNION {outs[r] : r \in Published}

(* Files hold records and lines, reduce attempts read existing partitions. *)
DataTypeOK ==
    /\ app \in App
    /\ word \in [Place -> Word] /\ splitOf \in [Place -> MapTask]
    /\ docOf \in [MapTask -> Doc] /\ hash \in [Word -> 0 .. MaxHash]
    /\ DOMAIN parts = MapTask \X ReduceTask
    /\ \A x \in MapTask \X ReduceTask : parts[x] # Missing => parts[x] \subseteq Record
    /\ mapped \subseteq MapTask
    /\ \A w \in Worker :
          reading[w] \in [task : ReduceTask, next : 0 .. NMap + 1, got : SUBSET Record]
    /\ \A r \in ReduceTask : outs[r] # Missing => outs[r] \subseteq Line

(* Every line of a job's output is a line of the sequential run, and when all *)
(* reduce tasks have published there is no other: the output does not depend  *)
(* on how the input is split, on the number of reduce tasks, on the hash      *)
(* (README.md:131 "The output hash is invariant under split size").           *)
SameAsSequential ==
    /\ Output \subseteq Sequential
    /\ Published = ReduceTask => Output = Sequential

(* No key has a line in two output files: OutputHash sees no line twice. *)
KeyInOneOutput ==
    \A r, q \in Published : r # q => Keys(outs[r]) \cap Keys(outs[q]) = {}
=============================================================================
