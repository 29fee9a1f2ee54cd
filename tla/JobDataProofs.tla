--------------------------- MODULE JobDataProofs ---------------------------
(***************************************************************************)
(* Proofs about module JobData: for any text, any division into splits and *)
(* files, any hash and any number of tasks, the lines of the output files  *)
(* are those of the sequential run, each in one file.                      *)
(*                                                                         *)
(* All records of a key are in the partitions of one reduce task, so its   *)
(* group there is its group among all records; and the groups of the       *)
(* splits reduce to the same line as the groups of whole files.            *)
(***************************************************************************)
EXTENDS JobData, FiniteSetTheorems, TLAPS

InputOK ==
    /\ app \in App
    /\ word \in [Place -> Word] /\ splitOf \in [Place -> MapTask]
    /\ docOf \in [MapTask -> Doc] /\ hash \in [Word -> 0 .. MaxHash]

(* The records of all map tasks, of the first n for reduce task r, of all   *)
(* for reduce task r, and of the sequential run.                            *)
AllRecords == UNION {Mapf(PlacesIn(m), m) : m \in MapTask}
FirstParts(r, n) == UNION {Partition(m, r) : m \in 0 .. n - 1}
AllParts(r) == UNION {Partition(m, r) : m \in MapTask}
SeqRecords == UNION {Mapf(PlacesOf(d), 0) : d \in Doc}

Group(rs, k) == {c \in rs : c.key = k}

ReducerOf(k) == hash[k] % NReduce

DataInv ==
    /\ InputOK
    /\ DOMAIN parts = MapTask \X ReduceTask
    /\ \A m \in MapTask : \A r \in ReduceTask :
          parts[<<m, r>>] # Missing => parts[<<m, r>>] = Partition(m, r)
    /\ mapped \subseteq MapTask
    /\ \A m \in mapped : \A r \in ReduceTask : parts[<<m, r>>] = Partition(m, r)
    /\ DOMAIN reading = Worker
    /\ \A w \in Worker :
          \/ reading[w] = NoReduce
          \/ /\ mapped = MapTask
             /\ reading[w] = [task |-> reading[w].task, next |-> reading[w].next,
                              got |-> FirstParts(reading[w].task, reading[w].next)]
             /\ reading[w].task \in ReduceTask
             /\ reading[w].next \in 0 .. NMap
    /\ DOMAIN outs = ReduceTask
    /\ \A r \in ReduceTask : outs[r] # Missing => outs[r] = Grouped(AllParts(r))

-----------------------------------------------------------------------------
(* Records and groups.                                                     *)

(* Records of map tasks and of the sequential run have keys that are words. *)
LEMMA RecordKeys ==
    ASSUME InputOK
    PROVE  /\ \A c \in AllRecords : c.key \in Word
           /\ \A k \in Word : ReducerOf(k) \in ReduceTask
  <1>1. ASSUME NEW m \in MapTask, NEW c \in Mapf(PlacesIn(m), m) PROVE c.key \in Word
    BY <1>1 DEF Mapf, WordCountMap, InvertedIndexMap, PlacesIn, InputOK
  <1>2. ASSUME NEW k \in Word PROVE ReducerOf(k) \in ReduceTask
    <2>1. hash[k] \in Nat
      BY DataAssumption DEF InputOK
    <2> QED  BY <2>1, DataAssumption DEF ReducerOf, ReduceTask
  <1> QED  BY <1>1, <1>2 DEF AllRecords

(* The partitions of a reduce task are the records of its keys. *)
LEMMA PartsOfKeys ==
    ASSUME InputOK, NEW r \in ReduceTask
    PROVE  AllParts(r) = {c \in AllRecords : ReducerOf(c.key) = r}
  BY DEF AllParts, AllRecords, Partition, ReducerOf

(* So the group of a key is the same in its partition and in all records. *)
LEMMA SameGroup ==
    ASSUME InputOK, NEW r \in ReduceTask, NEW k, ReducerOf(k) = r
    PROVE  Group(AllParts(r), k) = Group(AllRecords, k)
  BY PartsOfKeys DEF Group

(* A key of a group is the key of a record. *)
LEMMA KeysGrouped ==
    ASSUME NEW rs
    PROVE  /\ Keys(Grouped(rs)) = Keys(rs)
           /\ Grouped(rs) = {Reducef(k, Group(rs, k)) : k \in Keys(rs)}
  <1>1. Grouped(rs) = {Reducef(k, Group(rs, k)) : k \in Keys(rs)}
    BY DEF Grouped, Group
  <1>2. \A k, gs : Reducef(k, gs).key = k
    BY DEF Reducef, WordCountReduce, InvertedIndexReduce
  <1> QED  BY <1>1, <1>2 DEF Keys

(* Both runs have the same keys, and reduce them to the same lines. *)
LEMMA SameLine ==
    ASSUME InputOK
    PROVE  /\ Keys(AllRecords) = Keys(SeqRecords)
           /\ \A k : Reducef(k, Group(AllRecords, k)) = Reducef(k, Group(SeqRecords, k))
  <1>1. \A p \in Place : splitOf[p] \in MapTask /\ DocAt(p) \in Doc
    BY DEF InputOK, DocAt
  <1>2. CASE app = "wordcount"
    <2>1. AllRecords = WordCountMap(Place)
      BY <1>1, <1>2 DEF AllRecords, Mapf, WordCountMap, PlacesIn
    <2>2. SeqRecords = WordCountMap(Place)
      BY <1>1, <1>2 DEF SeqRecords, Mapf, WordCountMap, PlacesOf
    <2> QED  BY <2>1, <2>2
  <1>3. CASE app # "wordcount"
    <2> DEFINE A(p) == [key |-> word[p], value |-> DocAt(p), from |-> splitOf[p]]
               S(p) == [key |-> word[p], value |-> DocAt(p), from |-> 0]
    <2>1. AllRecords = {A(p) : p \in Place}
      <3>1. AllRecords = UNION {InvertedIndexMap(PlacesIn(m), m) : m \in MapTask}
        BY <1>3 DEF AllRecords, Mapf
      <3> QED  BY <1>1, <3>1 DEF InvertedIndexMap, PlacesIn
    <2>2. SeqRecords = {S(p) : p \in Place}
      <3>1. SeqRecords = UNION {InvertedIndexMap(PlacesOf(d), 0) : d \in Doc}
        BY <1>3 DEF SeqRecords, Mapf
      <3> QED  BY <1>1, <3>1 DEF InvertedIndexMap, PlacesOf
    <2>3. \A p : /\ A(p).key = word[p] /\ A(p).value = DocAt(p)
                /\ S(p).key = word[p] /\ S(p).value = DocAt(p)
      OBVIOUS
    <2> HIDE DEF A, S
    <2>4. Keys(AllRecords) = Keys(SeqRecords)
      <3>1. \A k : k \in Keys(AllRecords) <=> \E p \in Place : k = word[p]
        BY <2>1, <2>3 DEF Keys
      <3>2. \A k : k \in Keys(SeqRecords) <=> \E p \in Place : k = word[p]
        BY <2>2, <2>3 DEF Keys
      <3> QED  BY <3>1, <3>2
    <2>5. ASSUME NEW k
          PROVE  Values(Group(AllRecords, k)) = Values(Group(SeqRecords, k))
      <3>1. \A v : v \in Values(Group(AllRecords, k)) <=>
                       \E p \in Place : word[p] = k /\ v = DocAt(p)
        BY <2>1, <2>3 DEF Values, Group
      <3>2. \A v : v \in Values(Group(SeqRecords, k)) <=>
                       \E p \in Place : word[p] = k /\ v = DocAt(p)
        BY <2>2, <2>3 DEF Values, Group
      <3> QED  BY <3>1, <3>2
    <2>6. \A k : Reducef(k, Group(AllRecords, k)) = Reducef(k, Group(SeqRecords, k))
      BY <1>3, <2>5 DEF Reducef, InvertedIndexReduce
    <2> QED  BY <2>4, <2>6
  <1> QED  BY <1>2, <1>3

(* The lines of a reduce task are those of the sequential run for its keys. *)
LEMMA LinesOfReducer ==
    ASSUME InputOK, NEW r \in ReduceTask
    PROVE  Grouped(AllParts(r)) =
               {Reducef(k, Group(SeqRecords, k)) :
                    k \in {j \in Keys(SeqRecords) : ReducerOf(j) = r}}
  <1>1. Keys(AllParts(r)) = {j \in Keys(SeqRecords) : ReducerOf(j) = r}
    <2>1. Keys(AllParts(r)) = {j \in Keys(AllRecords) : ReducerOf(j) = r}
      BY PartsOfKeys DEF Keys
    <2> QED  BY <2>1, SameLine
  <1>2. ASSUME NEW k \in Keys(AllParts(r))
        PROVE  Reducef(k, Group(AllParts(r), k)) = Reducef(k, Group(SeqRecords, k))
    BY <1>1, SameGroup, SameLine
  <1> QED  BY <1>1, <1>2, KeysGrouped

-----------------------------------------------------------------------------
(* The invariant.                                                          *)

LEMMA DataInitInv == DataInit => DataInv
  <1> SUFFICES ASSUME DataInit PROVE DataInv
    OBVIOUS
  <1>1. \A m \in MapTask : \A r \in ReduceTask : parts[<<m, r>>] = Missing
    BY DEF DataInit
  <1> QED  BY <1>1 DEF DataInit, DataInv, InputOK

(* The input fixes what every task computes. *)
LEMMA InputFixed ==
    ASSUME UNCHANGED input
    PROVE  /\ InputOK' = InputOK
           /\ \A m, r : Partition(m, r)' = Partition(m, r)
           /\ \A r, n : FirstParts(r, n)' = FirstParts(r, n)
           /\ \A r : Grouped(AllParts(r))' = Grouped(AllParts(r))
  BY DEF input, InputOK, Partition, FirstParts, AllParts, Grouped, Reducef, WordCountReduce,
         InvertedIndexReduce, Values, Keys,
         Mapf, WordCountMap, InvertedIndexMap, DocAt, PlacesIn

(* Reading the partition of the next map task. *)
LEMMA NextPart ==
    ASSUME NEW r, NEW n \in Nat
    PROVE  FirstParts(r, n + 1) = FirstParts(r, n) \cup Partition(n, r)
  <1>1. 0 .. n + 1 - 1 = (0 .. n - 1) \cup {n}
    OBVIOUS
  <1> QED  BY <1>1 DEF FirstParts

LEMMA DataNextInv == DataInv /\ [DataNext]_dataVars => DataInv'
  <1> SUFFICES ASSUME DataInv, [DataNext]_dataVars PROVE DataInv'
    OBVIOUS
  <1>1. UNCHANGED input
    BY DEF DataNext, dataVars, PublishPartition, CompleteMap, StartReduce, ReadPartition,
           PublishOut, AbandonReduce
  <1>0. /\ InputOK' = InputOK
        /\ \A m, r : Partition(m, r)' = Partition(m, r)
        /\ \A r, n : FirstParts(r, n)' = FirstParts(r, n)
        /\ \A r : Grouped(AllParts(r))' = Grouped(AllParts(r))
    BY <1>1, InputFixed
  <1> USE <1>0
  <1>2. ASSUME NEW m \in MapTask, NEW r \in ReduceTask, PublishPartition(m, r) PROVE DataInv'
    <2>1. /\ DOMAIN parts = MapTask \X ReduceTask
          /\ parts' = [parts EXCEPT ![<<m, r>>] = Partition(m, r)]
          /\ UNCHANGED <<mapped, reading, outs>>
      BY <1>2 DEF PublishPartition, DataInv
    <2>2. DOMAIN parts' = MapTask \X ReduceTask
      BY <2>1
    <2>3. \A n \in MapTask : \A q \in ReduceTask :
              parts'[<<n, q>>] = IF n = m /\ q = r THEN Partition(m, r) ELSE parts[<<n, q>>]
      BY <2>1
    <2> QED  BY <2>1, <2>2, <2>3 DEF DataInv
  <1>3. ASSUME NEW m \in MapTask, CompleteMap(m) PROVE DataInv'
    <2>1. \A r \in ReduceTask : parts[<<m, r>>] = Partition(m, r)
      BY <1>3 DEF CompleteMap, DataInv
    <2> QED  BY <1>3, <2>1 DEF CompleteMap, DataInv
  <1>4. ASSUME NEW w \in Worker, NEW r \in ReduceTask, StartReduce(w, r) PROVE DataInv'
    <2>1. FirstParts(r, 0) = {}
      BY DEF FirstParts
    <2>2. reading'[w] = [task |-> r, next |-> 0, got |-> FirstParts(r, 0)]
      BY <1>4, <2>1 DEF StartReduce, DataInv
    <2>3. reading'[w].task = r /\ reading'[w].next = 0
      BY <2>2
    <2>4. mapped = MapTask /\ DOMAIN reading' = Worker
          /\ \A v \in Worker : v # w => reading'[v] = reading[v]
      BY <1>4 DEF StartReduce, DataInv
    <2> QED  BY <1>4, <2>2, <2>3, <2>4, DataAssumption DEF StartReduce, DataInv
  <1>5. ASSUME NEW w \in Worker, ReadPartition(w) PROVE DataInv'
    <2> DEFINE r == reading[w].task
               n == reading[w].next
    <2>1. n < NMap /\ reading[w] # NoReduce
      BY <1>5, DataAssumption DEF ReadPartition, MoreParts, NoReduce
    <2>2. /\ mapped = MapTask /\ r \in ReduceTask /\ n \in MapTask /\ n \in Nat
          /\ reading[w] = [task |-> r, next |-> n, got |-> FirstParts(r, n)]
      BY <2>1, DataAssumption DEF DataInv, MapTask
    <2>3. parts[<<n, r>>] = Partition(n, r)
      BY <2>2 DEF DataInv
    <2> HIDE DEF r, n
    <2>4. reading' = [reading EXCEPT ![w] = [task |-> r, next |-> n + 1,
                                             got |-> reading[w].got \cup parts[<<n, r>>]]]
      BY <1>5 DEF ReadPartition, r, n
    <2>5. /\ reading'[w] = [task |-> r, next |-> n + 1, got |-> FirstParts(r, n + 1)]
          /\ DOMAIN reading' = Worker
          /\ \A v \in Worker : v # w => reading'[v] = reading[v]
      <3>1. DOMAIN reading = Worker
        BY DEF DataInv
      <3>2. DOMAIN reading' = Worker /\ \A v \in Worker : v # w => reading'[v] = reading[v]
        BY <2>4, <3>1
      <3>3. reading'[w] = [task |-> r, next |-> n + 1,
                           got |-> reading[w].got \cup parts[<<n, r>>]]
        BY <2>4, <3>1
      <3>4. reading[w].got = FirstParts(r, n)
        BY <2>2
      <3> QED  BY <2>2, <2>3, <3>2, <3>3, <3>4, NextPart
    <2>6. reading'[w].task = r /\ reading'[w].next = n + 1 /\ n + 1 \in 0 .. NMap
      BY <2>2, <2>5, DataAssumption DEF MapTask
    <2> QED  BY <1>5, <2>2, <2>5, <2>6 DEF ReadPartition, DataInv
  <1>6. ASSUME NEW w \in Worker, PublishOut(w) PROVE DataInv'
    <2> DEFINE r == reading[w].task
    <2>1. reading[w] # NoReduce /\ ~(reading[w].next < NMap)
      BY <1>6, DataAssumption DEF PublishOut, Idle, MoreParts, NoReduce
    <2>2. r \in ReduceTask /\ reading[w].next = NMap /\ reading[w].got = FirstParts(r, NMap)
      BY <2>1, DataAssumption DEF DataInv
    <2>3. reading[w].got = AllParts(r)
      BY <2>2 DEF FirstParts, AllParts, MapTask
    <2>4. outs' = [outs EXCEPT ![r] = Grouped(AllParts(r))]
      BY <1>6, <2>3 DEF PublishOut
    <2> HIDE DEF r
    <2>5. /\ DOMAIN outs' = ReduceTask
          /\ \A q \in ReduceTask : outs'[q] = IF q = r THEN Grouped(AllParts(r)) ELSE outs[q]
      BY <2>2, <2>4 DEF DataInv
    <2>6. DOMAIN reading' = Worker /\ reading'[w] = NoReduce
          /\ \A v \in Worker : v # w => reading'[v] = reading[v]
      BY <1>6 DEF PublishOut, DataInv
    <2> QED  BY <1>6, <2>2, <2>5, <2>6 DEF PublishOut, DataInv
  <1>7. ASSUME NEW w \in Worker, AbandonReduce(w) PROVE DataInv'
    <2>1. DOMAIN reading' = Worker /\ reading'[w] = NoReduce
          /\ \A v \in Worker : v # w => reading'[v] = reading[v]
      BY <1>7 DEF AbandonReduce, DataInv
    <2> QED  BY <1>7, <2>1 DEF AbandonReduce, DataInv
  <1>8. CASE UNCHANGED dataVars
    BY <1>8 DEF dataVars, DataInv
  <1> QED  BY <1>2, <1>3, <1>4, <1>5, <1>6, <1>7, <1>8 DEF DataNext

LEMMA DataInvariant == DataSpec => []DataInv
  BY DataInitInv, DataNextInv, PTL DEF DataSpec

-----------------------------------------------------------------------------
(* Records and lines have their types.                                      *)

LEMMA ImageFinite ==
    ASSUME NEW A, IsFiniteSet(A), NEW f, f \in [A -> {f[x] : x \in A}]
    PROVE  IsFiniteSet({f[x] : x \in A})
  <1>1. f \in Surjection(A, {f[x] : x \in A})
    BY DEF Surjection
  <1> QED  BY <1>1, FS_Surjection

(* Each workload's records are one for every place, some of them the same.  *)
LEMMA RecordsOfPlaces ==
    ASSUME InputOK
    PROVE  /\ app = "wordcount" =>
                  AllRecords = {[key |-> word[p], value |-> One, from |-> p] : p \in Place}
           /\ app # "wordcount" =>
                  AllRecords = {[key |-> word[p], value |-> DocAt(p), from |-> splitOf[p]] :
                                    p \in Place}
  <1>1. \A p \in Place : splitOf[p] \in MapTask
    BY DEF InputOK
  <1>2. ASSUME app = "wordcount"
        PROVE  AllRecords = {[key |-> word[p], value |-> One, from |-> p] : p \in Place}
    <2>1. AllRecords = WordCountMap(Place)
      BY <1>1, <1>2 DEF AllRecords, Mapf, WordCountMap, PlacesIn
    <2> QED  BY <2>1 DEF WordCountMap
  <1>3. ASSUME app # "wordcount"
        PROVE  AllRecords = {[key |-> word[p], value |-> DocAt(p), from |-> splitOf[p]] :
                                 p \in Place}
    <2>1. AllRecords = UNION {InvertedIndexMap(PlacesIn(m), m) : m \in MapTask}
      BY <1>3 DEF AllRecords, Mapf
    <2> QED  BY <1>1, <2>1 DEF InvertedIndexMap, PlacesIn
  <1> QED  BY <1>2, <1>3

(* All records come from the places of the text: there are finitely many.   *)
LEMMA RecordTypes ==
    ASSUME InputOK
    PROVE  /\ AllRecords \subseteq Record
           /\ IsFiniteSet(AllRecords)
           /\ \A rs \in SUBSET AllRecords : Grouped(rs) \subseteq Line
  <1>1. \A p \in Place : word[p] \in Word /\ splitOf[p] \in MapTask /\ DocAt(p) \in Doc
    BY DEF InputOK, DocAt
  <1>2. ASSUME app = "wordcount"
        PROVE  AllRecords \subseteq Record /\ IsFiniteSet(AllRecords)
    <2> DEFINE f == [p \in Place |-> [key |-> word[p], value |-> One, from |-> p]]
    <2>1. f \in [Place -> {f[p] : p \in Place}] /\ AllRecords = {f[p] : p \in Place}
      BY <1>2, RecordsOfPlaces
    <2>2. \A p \in Place : f[p] \in Record
      BY <1>1 DEF Record
    <2> HIDE DEF f
    <2> QED  BY <2>1, <2>2, DataAssumption, ImageFinite
  <1>3. ASSUME app # "wordcount"
        PROVE  AllRecords \subseteq Record /\ IsFiniteSet(AllRecords)
    <2> DEFINE f == [p \in Place |-> [key |-> word[p], value |-> DocAt(p),
                                     from |-> splitOf[p]]]
    <2>1. f \in [Place -> {f[p] : p \in Place}] /\ AllRecords = {f[p] : p \in Place}
      BY <1>3, RecordsOfPlaces
    <2>2. \A p \in Place : f[p] \in Record
      BY <1>1 DEF Record
    <2> HIDE DEF f
    <2> QED  BY <2>1, <2>2, DataAssumption, ImageFinite
  <1>4. AllRecords \subseteq Record /\ IsFiniteSet(AllRecords)
    BY <1>2, <1>3
  <1>5. ASSUME NEW rs \in SUBSET AllRecords, NEW k \in Keys(rs)
        PROVE  Reducef(k, Group(rs, k)) \in Line
    <2>1. k \in Word
      BY <1>4, <1>5 DEF Keys, Record
    <2>2. Group(rs, k) \subseteq AllRecords /\ IsFiniteSet(Group(rs, k))
      <3>1. Group(rs, k) \subseteq AllRecords
        BY DEF Group
      <3> QED  BY <3>1, <1>4, FS_Subset
    <2>3. IsFiniteSet(Values(Group(rs, k)))
      <3> DEFINE f == [c \in Group(rs, k) |-> c.value]
      <3>1. /\ f \in [Group(rs, k) -> {f[c] : c \in Group(rs, k)}]
            /\ Values(Group(rs, k)) = {f[c] : c \in Group(rs, k)}
        BY DEF Values
      <3> HIDE DEF f
      <3> QED  BY <2>2, <3>1, ImageFinite
    <2>4. Cardinality(Group(rs, k)) \in Nat /\ Cardinality(Values(Group(rs, k))) \in Nat
      BY <2>2, <2>3, FS_CardinalityType
    <2>5. CASE app = "wordcount"
      BY <2>1, <2>4, <2>5 DEF Reducef, WordCountReduce, Line
    <2>6. CASE app # "wordcount"
      <3>1. \A c \in AllRecords : c.value \in Doc
        BY <1>1, <2>6, RecordsOfPlaces
      <3>2. Values(Group(rs, k)) \subseteq Doc
        BY <2>2, <3>1 DEF Values
      <3> QED  BY <2>1, <2>4, <2>6, <3>2 DEF Reducef, InvertedIndexReduce, Line
    <2> QED  BY <2>5, <2>6
  <1> QED  BY <1>4, <1>5, KeysGrouped

(* Files hold records and lines only, however often they are renamed over.  *)
THEOREM DataTypeCorrect == DataSpec => []DataTypeOK
  <1>1. DataInv => DataTypeOK
    <2> SUFFICES ASSUME DataInv PROVE DataTypeOK
      OBVIOUS
    <2>1. InputOK
      BY DEF DataInv
    <2>2. AllRecords \subseteq Record
      BY <2>1, RecordTypes
    <2>3. \A m \in MapTask, r \in ReduceTask : Partition(m, r) \subseteq AllRecords
      BY DEF Partition, AllRecords
    <2>4. \A x \in MapTask \X ReduceTask : parts[x] # Missing => parts[x] \subseteq Record
      <3> SUFFICES ASSUME NEW m \in MapTask, NEW r \in ReduceTask, parts[<<m, r>>] # Missing
                   PROVE  parts[<<m, r>>] \subseteq Record
        OBVIOUS
      <3>1. parts[<<m, r>>] = Partition(m, r)
        BY DEF DataInv
      <3> QED  BY <2>2, <2>3, <3>1
    <2>5. ASSUME NEW w \in Worker
          PROVE  reading[w] \in [task : ReduceTask, next : 0 .. NMap + 1, got : SUBSET Record]
      <3>1. CASE reading[w] = NoReduce
        BY <3>1, DataAssumption DEF NoReduce, ReduceTask
      <3>2. CASE reading[w] # NoReduce
        <4> DEFINE n == reading[w].next  r == reading[w].task
        <4>1. /\ reading[w] = [task |-> r, next |-> n, got |-> FirstParts(r, n)]
              /\ r \in ReduceTask /\ n \in 0 .. NMap
          BY <3>2 DEF DataInv
        <4> HIDE DEF n, r
        <4>2. FirstParts(r, n) \subseteq Record
          BY <2>2, <2>3, <4>1, DataAssumption DEF FirstParts, MapTask
        <4>3. n \in 0 .. NMap + 1
          BY <4>1, DataAssumption
        <4> QED  BY <4>1, <4>2, <4>3
      <3> QED  BY <3>1, <3>2
    <2>6. ASSUME NEW r \in ReduceTask, outs[r] # Missing PROVE outs[r] \subseteq Line
      <3>1. AllParts(r) \in SUBSET AllRecords
        BY <2>3 DEF AllParts
      <3> QED  BY <2>1, <2>6, <3>1, RecordTypes DEF DataInv
    <2> QED  BY <2>1, <2>4, <2>5, <2>6 DEF DataInv, InputOK, DataTypeOK
  <1> QED  BY <1>1, DataInvariant, PTL

-----------------------------------------------------------------------------
(* Whatever was published is part of the sequential run's output, and when  *)
(* every reduce task has published it is all of it.                         *)
THEOREM SameAsSequentialHolds == DataSpec => []SameAsSequential
  <1>1. DataInv => SameAsSequential
    <2> SUFFICES ASSUME DataInv PROVE SameAsSequential
      OBVIOUS
    <2>1. InputOK
      BY DEF DataInv
    <2>2. Sequential = {Reducef(k, Group(SeqRecords, k)) : k \in Keys(SeqRecords)}
      BY KeysGrouped DEF Sequential, SeqRecords
    <2>3. \A r \in Published : outs[r] =
              {Reducef(k, Group(SeqRecords, k)) :
                   k \in {j \in Keys(SeqRecords) : ReducerOf(j) = r}}
      BY <2>1, LinesOfReducer DEF DataInv, Published
    <2>4. Output \subseteq Sequential
      BY <2>2, <2>3 DEF Output
    <2>5. ASSUME Published = ReduceTask, NEW l \in Sequential PROVE l \in Output
      <3>1. PICK k \in Keys(SeqRecords) : l = Reducef(k, Group(SeqRecords, k))
        BY <2>2
      <3>2. k \in Word
        <4>1. k \in Keys(AllRecords)
          BY <2>1, SameLine
        <4> QED  BY <2>1, <4>1, RecordKeys DEF Keys
      <3>3. ReducerOf(k) \in Published
        BY <2>1, <2>5, <3>2, RecordKeys
      <3> QED  BY <2>3, <3>1, <3>3 DEF Output
    <2> QED  BY <2>4, <2>5 DEF SameAsSequential
  <1> QED  BY <1>1, DataInvariant, PTL

(* The line of a key is in one output file only. *)
THEOREM KeyInOneOutputHolds == DataSpec => []KeyInOneOutput
  <1>1. DataInv => KeyInOneOutput
    <2> SUFFICES ASSUME DataInv, NEW r \in Published, NEW q \in Published, r # q,
                        NEW k \in Keys(outs[r]), k \in Keys(outs[q])
                 PROVE  FALSE
      BY DEF KeyInOneOutput
    <2>1. InputOK /\ r \in ReduceTask /\ q \in ReduceTask
      BY DEF DataInv, Published
    <2>2. outs[r] = Grouped(AllParts(r)) /\ outs[q] = Grouped(AllParts(q))
      BY DEF DataInv, Published
    <2>3. k \in Keys(AllParts(r)) /\ k \in Keys(AllParts(q))
      BY <2>2, KeysGrouped
    <2> QED  BY <2>1, <2>3, PartsOfKeys DEF Keys
  <1> QED  BY <1>1, DataInvariant, PTL
=============================================================================
