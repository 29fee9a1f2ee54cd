---------------------------- MODULE SplitProofs ----------------------------
(***************************************************************************)
(* Proofs about module Split: for files of any size and contents and any   *)
(* split size, the planned ranges tile each file and reading them covers   *)
(* every byte exactly once.                                                *)
(*                                                                         *)
(* A split reads the lines that start inside its range.  Each byte lies on *)
(* one line, each line start in one range: so no byte is read twice, and   *)
(* none is missed.                                                         *)
(***************************************************************************)
EXTENDS Split, TLAPS, WellFoundedInduction

(* What planning needs to know of the state. *)
PlanOK == files \in [1 .. NFiles -> File] /\ splitBytes \in Int

Size(i) == files[i].size

LineStart(i, p) == p = 0 \/ p - 1 \in files[i].newlines

(* Byte b lies on the line of file i that starts at p. *)
OnLine(i, b, p) ==
    /\ p \in 0 .. b
    /\ LineStart(i, p)
    /\ \A n \in files[i].newlines : ~(p <= n /\ n < b)

-----------------------------------------------------------------------------
(* Planning. *)

(* Files have a size and newlines below it. *)
LEMMA FileFacts ==
    ASSUME PlanOK, NEW i \in 1 .. NFiles
    PROVE  /\ Size(i) \in Nat /\ Size(i) <= MaxSize
           /\ files[i].size = Size(i)
           /\ files[i].newlines \subseteq 0 .. Size(i) - 1
  <1>1. files[i] \in File
    BY DEF PlanOK
  <1> QED  BY <1>1, SplitBoundsAssumption DEF File, Size

(* A planned range lies inside its file (PlanSplits). *)
LEMMA RangeFacts ==
    ASSUME PlanOK, NEW i \in 1 .. NFiles, NEW s \in PlanFile(i)
    PROVE  /\ s \in Split
           /\ s.file = i
           /\ s.offset \in Nat /\ s.length \in Nat
           /\ End(s) \in Nat /\ End(s) <= Size(i)
           /\ s.offset = 0 \/ s.offset < Size(i)
  <1>1. /\ Size(i) \in Nat /\ Size(i) <= MaxSize /\ files[i].size = Size(i)
    BY FileFacts
  <1>2. CASE splitBytes <= 0 \/ files[i].size <= splitBytes
    <2>1. s = [file |-> i, offset |-> 0, length |-> Size(i)]
      BY <1>1, <1>2 DEF PlanFile
    <2> QED  BY <1>1, <2>1, SplitBoundsAssumption DEF Split, End
  <1>3. CASE ~(splitBytes <= 0 \/ files[i].size <= splitBytes)
    <2>1. PICK o \in Offsets(i) : s = [file |-> i, offset |-> o, length |-> PieceLength(i, o)]
      BY <1>3 DEF PlanFile
    <2>2. o \in 0 .. Size(i) - 1
      BY <1>1 DEF Offsets
    <2>3. PieceLength(i, o) \in 0 .. Size(i) /\ o + PieceLength(i, o) <= Size(i)
      BY <1>1, <1>3, <2>2 DEF PieceLength, PlanOK
    <2> QED  BY <1>1, <2>1, <2>2, <2>3, SplitBoundsAssumption DEF Split, End
  <1> QED  BY <1>2, <1>3

(* Different multiples of the split size are a split size apart. *)
LEMMA MultiplesApart ==
    ASSUME NEW B \in Nat, NEW j \in Nat, NEW k \in Nat, j < k
    PROVE  j * B + B <= k * B
  <1>1. PICK d \in Nat : k = j + 1 + d
    <2>1. k - j - 1 \in Nat /\ k = j + 1 + (k - j - 1)
      OBVIOUS
    <2> QED  BY <2>1
  <1>2. k * B = j * B + B + d * B
    BY <1>1
  <1>3. d * B \in Nat /\ j * B \in Nat
    OBVIOUS
  <1> QED  BY <1>2, <1>3

(* No byte lies in two ranges of a file. *)
LEMMA RangesDisjoint ==
    ASSUME PlanOK, NEW i \in 1 .. NFiles,
           NEW s \in PlanFile(i), NEW r \in PlanFile(i), NEW b \in Nat,
           s.offset <= b, b < End(s), r.offset <= b, b < End(r)
    PROVE  r = s
  <1>1. Size(i) \in Nat /\ files[i].size = Size(i)
    BY FileFacts
  <1>2. CASE splitBytes <= 0 \/ files[i].size <= splitBytes
    BY <1>2 DEF PlanFile
  <1>3. CASE ~(splitBytes <= 0 \/ files[i].size <= splitBytes)
    <2>1. PICK o \in Offsets(i) : s = [file |-> i, offset |-> o, length |-> PieceLength(i, o)]
      BY <1>3 DEF PlanFile
    <2>2. PICK p \in Offsets(i) : r = [file |-> i, offset |-> p, length |-> PieceLength(i, p)]
      BY <1>3 DEF PlanFile
    <2>3. splitBytes \in Nat
      BY <1>1, <1>3 DEF PlanOK
    <2>4. PICK k \in 0 .. Size(i) : o = k * splitBytes
      BY <1>1 DEF Offsets
    <2>5. PICK j \in 0 .. Size(i) : p = j * splitBytes
      BY <1>1 DEF Offsets
    <2>6. o \in Nat /\ p \in Nat
      BY <1>1 DEF Offsets
    <2>7. PieceLength(i, o) \in Nat /\ PieceLength(i, o) <= splitBytes
      BY <1>1, <1>3, <2>3, <2>6 DEF PieceLength, Offsets
    <2>8. PieceLength(i, p) \in Nat /\ PieceLength(i, p) <= splitBytes
      BY <1>1, <1>3, <2>3, <2>6 DEF PieceLength, Offsets
    <2>9. b < o + splitBytes /\ b < p + splitBytes /\ o <= b /\ p <= b
      BY <2>1, <2>2, <2>3, <2>6, <2>7, <2>8 DEF End
    <2>10. ~(j < k)
      BY <1>1, <2>3, <2>4, <2>5, <2>6, <2>9, MultiplesApart
    <2>11. ~(k < j)
      BY <1>1, <2>3, <2>4, <2>5, <2>6, <2>9, MultiplesApart
    <2>12. j = k
      BY <1>1, <2>10, <2>11
    <2> QED  BY <2>1, <2>2, <2>4, <2>5, <2>12
  <1> QED  BY <1>2, <1>3

(* Every byte lies in a range of its file. *)
LEMMA RangesCover ==
    ASSUME PlanOK, NEW i \in 1 .. NFiles, NEW b \in 0 .. Size(i) - 1
    PROVE  \E s \in PlanFile(i) : s.offset <= b /\ b < End(s)
  <1>1. Size(i) \in Nat /\ files[i].size = Size(i)
    BY FileFacts
  <1>2. CASE splitBytes <= 0 \/ files[i].size <= splitBytes
    <2>1. [file |-> i, offset |-> 0, length |-> Size(i)] \in PlanFile(i)
      BY <1>1, <1>2 DEF PlanFile
    <2> QED  BY <1>1, <2>1 DEF End
  <1>3. CASE ~(splitBytes <= 0 \/ files[i].size <= splitBytes)
    <2>1. splitBytes \in Nat /\ splitBytes > 0
      BY <1>1, <1>3 DEF PlanOK
    <2> DEFINE k == b \div splitBytes
               o == k * splitBytes
               s == [file |-> i, offset |-> o, length |-> PieceLength(i, o)]
    <2>2. /\ k \in Nat
          /\ b = splitBytes * k + (b % splitBytes)
          /\ b % splitBytes \in 0 .. splitBytes - 1
      BY <1>1, <2>1
    <2> HIDE DEF k
    <2>3. o \in Nat /\ o <= b /\ b < o + splitBytes
      <3>1. splitBytes * k = o /\ o \in Nat
        BY <2>1, <2>2
      <3> QED  BY <2>1, <2>2, <3>1
    <2>4. k <= Size(i)
      <3>1. o = k + k * (splitBytes - 1) /\ k * (splitBytes - 1) \in Nat
        BY <2>1, <2>2
      <3> QED  BY <1>1, <2>2, <2>3, <3>1
    <2>5. o \in Offsets(i)
      BY <1>1, <2>2, <2>3, <2>4 DEF Offsets
    <2> HIDE DEF o
    <2>6. s \in PlanFile(i)
      BY <1>3, <2>5 DEF PlanFile
    <2>7. s.offset <= b /\ b < End(s)
      BY <1>1, <2>1, <2>3 DEF End, PieceLength
    <2> QED  BY <2>6, <2>7
  <1> QED  BY <1>2, <1>3

-----------------------------------------------------------------------------
(* Lines. *)

(* A byte lies on one line only. *)
LEMMA OneLine ==
    ASSUME PlanOK, NEW i \in 1 .. NFiles, NEW b \in Nat, NEW p, NEW q,
           OnLine(i, b, p), OnLine(i, b, q)
    PROVE  p = q
  <1>1. p \in Nat /\ q \in Nat /\ p <= b /\ q <= b
    BY DEF OnLine
  <1>2. ~(p < q)
    BY <1>1 DEF OnLine, LineStart
  <1>3. ~(q < p)
    BY <1>1 DEF OnLine, LineStart
  <1> QED  BY <1>1, <1>2, <1>3

(* Every byte lies on a line: the start closest before it. *)
LEMMA SomeLine ==
    ASSUME PlanOK, NEW i \in 1 .. NFiles, NEW b \in Nat
    PROVE  \E p \in 0 .. b : OnLine(i, b, p)
  <1> DEFINE D == {d \in Nat : d <= b /\ LineStart(i, b - d)}
  <1>1. b \in D
    BY DEF LineStart
  <1>2. PICK d \in D : \A e \in D : ~(<<e, d>> \in OpToRel(<, Nat))
    BY <1>1, NatLessThanWellFounded, WFMin, Zenon
  <1>3. \A e \in D : ~(e < d)
    BY <1>2 DEF OpToRel
  <1>4. files[i].newlines \subseteq Nat
    BY FileFacts
  <1>5. \A n \in files[i].newlines : ~(b - d <= n /\ n < b)
    <2> SUFFICES ASSUME NEW n \in files[i].newlines, b - d <= n, n < b
                 PROVE  FALSE
      OBVIOUS
    <2>1. n \in Nat
      BY <1>4
    <2>2. b - (b - n - 1) = n + 1 /\ b - n - 1 \in Nat /\ b - n - 1 < d
      BY <2>1
    <2>3. b - n - 1 \in D
      BY <2>1, <2>2 DEF LineStart
    <2> QED  BY <1>3, <2>2, <2>3
  <1> QED  BY <1>5 DEF OnLine

-----------------------------------------------------------------------------
(* Reading. *)

(* A split has read exactly the lines that start in its range before pos,  *)
(* and stands at the start of a line or at the end of the file.            *)
Reading(s) ==
    /\ pos[s] # Unopened =>
          /\ pos[s] >= s.offset
          /\ pos[s] = Size(s.file) \/ LineStart(s.file, pos[s])
    /\ \A b \in taken[s] :
          \E p \in s.offset .. End(s) - 1 : OnLine(s.file, b, p)
    /\ pos[s] # Unopened =>
          \A b \in 0 .. Size(s.file) - 1 : \A p \in s.offset .. pos[s] - 1 :
              OnLine(s.file, b, p) => b \in taken[s]

ReadInv == SplitTypeOK /\ \A s \in Splits : Reading(s)

(* Splits of the state are ranges of the plan of their file. *)
LEMMA SplitFacts ==
    ASSUME SplitTypeOK, NEW s \in Splits
    PROVE  /\ PlanOK
           /\ s.file \in 1 .. NFiles
           /\ s \in PlanFile(s.file)
           /\ s.offset \in Nat /\ End(s) \in Nat /\ End(s) <= Size(s.file)
           /\ s.offset = 0 \/ s.offset < Size(s.file)
           /\ Size(s.file) \in Nat /\ Size(s.file) <= MaxSize
           /\ files[s.file].size = Size(s.file)
           /\ files[s.file].newlines \subseteq 0 .. Size(s.file) - 1
           /\ pos[s] \in Unopened .. MaxSize
           /\ taken[s] \subseteq Nat
  <1>1. PlanOK
    BY SplitBoundsAssumption DEF SplitTypeOK, PlanOK
  <1>2. PICK i \in 1 .. NFiles : s \in PlanFile(i)
    BY DEF Splits
  <1>3. s.file = i
    BY <1>1, <1>2, RangeFacts
  <1>4. pos[s] \in Unopened .. MaxSize /\ taken[s] \subseteq Nat
    BY SplitBoundsAssumption DEF SplitTypeOK
  <1> QED  BY <1>1, <1>2, <1>3, <1>4, RangeFacts, FileFacts

(* The plan does not change while it is read. *)
LEMMA PlanFixed ==
    ASSUME UNCHANGED <<files, splitBytes>>
    PROVE  Splits' = Splits /\ PlanOK' = PlanOK
  BY DEF Splits, PlanFile, Offsets, PieceLength, PlanOK

-----------------------------------------------------------------------------
LEMMA InitReads == SplitInit => ReadInv
  <1> SUFFICES ASSUME SplitInit PROVE ReadInv
    OBVIOUS
  <1>1. PlanOK
    BY SplitBoundsAssumption DEF SplitInit, PlanOK
  <1>2. Splits \subseteq {s \in Split : End(s) <= files[s.file].size}
    <2> SUFFICES ASSUME NEW s \in Splits
                 PROVE  s \in Split /\ End(s) <= files[s.file].size
      OBVIOUS
    <2>1. PICK i \in 1 .. NFiles : s \in PlanFile(i)
      BY DEF Splits
    <2> QED  BY <1>1, <2>1, RangeFacts, FileFacts
  <1>3. SplitTypeOK
    BY <1>2, SplitBoundsAssumption DEF SplitInit, SplitTypeOK, Unopened
  <1> QED  BY <1>3 DEF SplitInit, ReadInv, Reading

(* A split only moves itself; the others keep what they read. *)
LEMMA OthersKeep ==
    ASSUME UNCHANGED <<files, splitBytes>>, NEW r,
           Reading(r), pos'[r] = pos[r], taken'[r] = taken[r]
    PROVE  Reading(r)'
  BY DEF Reading, Size, LineStart, OnLine, End

(* Opening skips lines that start before the range, and only those. *)
LEMMA OpenReads ==
    ASSUME ReadInv, NEW s \in Splits, Open(s)
    PROVE  ReadInv'
  <1>1. SplitTypeOK /\ Reading(s) /\ UNCHANGED <<files, splitBytes, taken>> /\ pos[s] = Unopened
    BY DEF ReadInv, Open
  <1>2. Splits' = Splits /\ PlanOK
    BY <1>1, PlanFixed, SplitFacts
  <1>3. PICK q \in s.offset .. Size(s.file) :
            /\ pos' = [pos EXCEPT ![s] = q]
            /\ q = s.offset \/ LineEnds(s.file, s.offset, q)
            /\ q = s.offset => AtLineStart(s)
            /\ q # s.offset => ~AtLineStart(s)
    <2>1. CASE AtLineStart(s) /\ pos' = [pos EXCEPT ![s] = s.offset]
      <3>1. s.offset \in s.offset .. Size(s.file)
        BY <1>1, SplitFacts
      <3> QED  BY <2>1, <3>1, Zenon
    <2>2. CASE ~AtLineStart(s) /\ \E q \in s.offset + 1 .. files[s.file].size :
                 LineEnds(s.file, s.offset, q) /\ pos' = [pos EXCEPT ![s] = q]
      <3>1. PICK q \in s.offset + 1 .. files[s.file].size :
                LineEnds(s.file, s.offset, q) /\ pos' = [pos EXCEPT ![s] = q]
        BY <2>2
      <3>2. q \in s.offset .. Size(s.file) /\ q # s.offset
        BY <1>1, SplitFacts
      <3> QED  BY <2>2, <3>1, <3>2, Zenon
    <2> QED  BY <2>1, <2>2 DEF Open
  <1>4. q \in Nat /\ q <= MaxSize
    BY <1>1, <1>3, SplitFacts, SplitBoundsAssumption
  <1>5. pos'[s] = q /\ \A r \in Splits : r # s => pos'[r] = pos[r]
    BY <1>1, <1>3 DEF SplitTypeOK
  <1>6. SplitTypeOK'
    <2>1. pos' \in [Splits -> Unopened .. MaxSize]
      BY <1>1, <1>3, <1>4, SplitBoundsAssumption DEF SplitTypeOK, Unopened
    <2>2. (Splits \subseteq {r \in Split : End(r) <= files[r.file].size})'
      BY <1>1, <1>2 DEF SplitTypeOK, End
    <2> QED  BY <1>1, <1>2, <2>1, <2>2 DEF SplitTypeOK
  <1>7. q = Size(s.file) \/ LineStart(s.file, q)
    BY <1>1, <1>3, SplitFacts DEF LineEnds, AtLineStart, LineStart
  <1>8. \A b \in 0 .. Size(s.file) - 1 : \A p \in s.offset .. q - 1 : ~OnLine(s.file, b, p)
    <2> SUFFICES ASSUME NEW b \in 0 .. Size(s.file) - 1, NEW p \in s.offset .. q - 1,
                        OnLine(s.file, b, p)
                 PROVE  FALSE
      OBVIOUS
    <2>1. LineEnds(s.file, s.offset, q) /\ ~AtLineStart(s)
      BY <1>1, <1>3, SplitFacts
    <2>2. CASE p = s.offset
      BY <2>1, <2>2 DEF OnLine, LineStart, AtLineStart
    <2>3. CASE p # s.offset
      BY <1>1, <1>4, <2>1, <2>3, SplitFacts DEF OnLine, LineStart, LineEnds
    <2> QED  BY <2>2, <2>3
  <1>9. Reading(s)'
    BY <1>1, <1>2, <1>3, <1>4, <1>5, <1>7, <1>8, SplitFacts
       DEF Reading, Size, LineStart, OnLine, End
  <1>10. \A r \in Splits : r # s => Reading(r)'
    BY <1>1, <1>5, OthersKeep DEF ReadInv
  <1> QED  BY <1>2, <1>6, <1>9, <1>10 DEF ReadInv

(* Reading a line takes the bytes of a line that starts in the range. *)
LEMMA ReadLineReads ==
    ASSUME ReadInv, NEW s \in Splits, ReadLine(s)
    PROVE  ReadInv'
  <1>1. /\ SplitTypeOK /\ Reading(s) /\ UNCHANGED <<files, splitBytes>>
        /\ pos[s] # Unopened /\ pos[s] < End(s)
    BY DEF ReadInv, ReadLine, More
  <1>2. Splits' = Splits /\ PlanOK
    BY <1>1, PlanFixed, SplitFacts
  <1>3. PICK q \in pos[s] + 1 .. Size(s.file) :
            /\ LineEnds(s.file, pos[s], q)
            /\ taken' = [taken EXCEPT ![s] = @ \cup pos[s] .. q - 1]
            /\ pos' = [pos EXCEPT ![s] = q]
    BY DEF ReadLine, Size
  <1>4. /\ pos[s] \in Nat /\ s.offset <= pos[s]
        /\ q \in Nat /\ pos[s] < q /\ q <= Size(s.file) /\ q <= MaxSize
        /\ LineStart(s.file, pos[s])
    BY <1>1, <1>3, SplitFacts, SplitBoundsAssumption DEF Reading, Unopened
  <1>5. /\ pos'[s] = q /\ taken'[s] = taken[s] \cup pos[s] .. q - 1
        /\ \A r \in Splits : r # s => pos'[r] = pos[r] /\ taken'[r] = taken[r]
    BY <1>1, <1>3 DEF SplitTypeOK
  <1>6. SplitTypeOK'
    <2>1. pos' \in [Splits -> Unopened .. MaxSize]
      BY <1>1, <1>3, <1>4, SplitBoundsAssumption DEF SplitTypeOK, Unopened
    <2>2. pos[s] .. q - 1 \subseteq 0 .. MaxSize - 1
      BY <1>4, SplitBoundsAssumption
    <2>3. taken' \in [Splits -> SUBSET (0 .. MaxSize - 1)]
      BY <1>1, <1>3, <2>2 DEF SplitTypeOK
    <2>4. (Splits \subseteq {r \in Split : End(r) <= files[r.file].size})'
      BY <1>1, <1>2 DEF SplitTypeOK, End
    <2> QED  BY <1>1, <1>2, <2>1, <2>3, <2>4 DEF SplitTypeOK
  <1>7. q = Size(s.file) \/ LineStart(s.file, q)
    BY <1>1, <1>3, <1>4, SplitFacts DEF LineEnds, LineStart
  <1>8. \A b \in pos[s] .. q - 1 : OnLine(s.file, b, pos[s])
    BY <1>1, <1>3, <1>4, SplitFacts DEF LineEnds, OnLine
  <1>9. ASSUME NEW b \in 0 .. Size(s.file) - 1, NEW p \in pos[s] .. q - 1,
               OnLine(s.file, b, p)
        PROVE  b \in pos[s] .. q - 1
    <2>1. b \in Nat /\ p \in Nat /\ p <= b /\ b < Size(s.file)
      BY <1>1, <1>4, <1>9, SplitFacts DEF OnLine
    <2>2. q = Size(s.file) \/ q - 1 \in files[s.file].newlines
      BY <1>1, <1>3, SplitFacts DEF LineEnds
    <2>3. b < q
      BY <1>4, <2>1, <2>2, <1>9 DEF OnLine
    <2> QED  BY <1>4, <2>1, <2>3
  <1>10. Reading(s)'
    <2>1. \A b \in taken'[s] : \E p \in s.offset .. End(s) - 1 : OnLine(s.file, b, p)
      <3>1. pos[s] \in s.offset .. End(s) - 1
        BY <1>1, <1>4, SplitFacts
      <3> QED  BY <1>1, <1>5, <1>8, <3>1 DEF Reading
    <2>2. \A b \in 0 .. Size(s.file) - 1 : \A p \in s.offset .. q - 1 :
              OnLine(s.file, b, p) => b \in taken'[s]
      <3> SUFFICES ASSUME NEW b \in 0 .. Size(s.file) - 1, NEW p \in s.offset .. q - 1,
                          OnLine(s.file, b, p)
                   PROVE  b \in taken'[s]
        OBVIOUS
      <3>1. CASE p < pos[s]
        <4>1. p \in s.offset .. pos[s] - 1
          BY <1>1, <1>4, <3>1, SplitFacts
        <4> QED  BY <1>1, <1>5, <4>1 DEF Reading
      <3>2. CASE ~(p < pos[s])
        <4>1. p \in pos[s] .. q - 1
          BY <1>1, <1>4, <3>2, SplitFacts
        <4> QED  BY <1>5, <1>9, <4>1
      <3> QED  BY <3>1, <3>2
    <2>3. q >= s.offset
      BY <1>1, <1>4, SplitFacts
    <2> QED  BY <1>1, <1>5, <1>7, <2>1, <2>2, <2>3
             DEF Reading, Size, LineStart, OnLine, End
  <1>11. \A r \in Splits : r # s => Reading(r)'
    BY <1>1, <1>5, OthersKeep DEF ReadInv
  <1> QED  BY <1>2, <1>6, <1>10, <1>11 DEF ReadInv

LEMMA NextReads == ReadInv /\ [SplitNext]_splitVars => ReadInv'
  <1> SUFFICES ASSUME ReadInv, [SplitNext]_splitVars PROVE ReadInv'
    OBVIOUS
  <1>1. CASE SplitNext
    BY <1>1, OpenReads, ReadLineReads DEF SplitNext
  <1>2. CASE UNCHANGED splitVars
    <2>1. Splits' = Splits
      BY <1>2, PlanFixed DEF splitVars
    <2>2. SplitTypeOK'
      BY <1>2, <2>1 DEF splitVars, ReadInv, SplitTypeOK, End
    <2>3. \A r \in Splits : Reading(r)'
      BY <1>2, OthersKeep DEF splitVars, ReadInv
    <2> QED  BY <2>1, <2>2, <2>3 DEF ReadInv
  <1> QED  BY <1>1, <1>2

LEMMA ReadInvariant == SplitSpec => []ReadInv
  BY InitReads, NextReads, PTL DEF SplitSpec

-----------------------------------------------------------------------------
(* Splits and readers stay within the files, whatever their size. *)
THEOREM SplitTypeCorrect == SplitSpec => []SplitTypeOK
  <1>1. ReadInv => SplitTypeOK
    BY DEF ReadInv
  <1> QED  BY <1>1, ReadInvariant, PTL

(* PlanSplits puts every byte of every file in exactly one split. *)
THEOREM SplitsTileHolds == SplitSpec => []SplitsTile
  <1>1. ReadInv => SplitsTile
    <2> SUFFICES ASSUME ReadInv, NEW i \in 1 .. NFiles, NEW b \in 0 .. files[i].size - 1
                 PROVE  \E s \in PlanFile(i) :
                           /\ s.offset <= b /\ b < End(s)
                           /\ \A r \in PlanFile(i) : r.offset <= b /\ b < End(r) => r = s
      BY DEF SplitsTile
    <2>1. PlanOK
      BY SplitBoundsAssumption DEF ReadInv, SplitTypeOK, PlanOK
    <2>2. PICK s \in PlanFile(i) : s.offset <= b /\ b < End(s)
      BY <2>1, RangesCover DEF Size
    <2>3. b \in Nat
      BY <2>1, FileFacts
    <2> QED  BY <2>1, <2>2, <2>3, RangesDisjoint
  <1> QED  BY <1>1, ReadInvariant, PTL

(* No byte is read by two splits of a file (ReadSplit). *)
THEOREM ReadAtMostOnceHolds == SplitSpec => []ReadAtMostOnce
  <1>1. ReadInv => ReadAtMostOnce
    <2> SUFFICES ASSUME ReadInv, NEW s \in Splits, NEW r \in Splits, s # r, s.file = r.file,
                        NEW b \in taken[s], b \in taken[r]
                 PROVE  FALSE
      BY DEF ReadAtMostOnce
    <2>1. SplitTypeOK /\ Reading(s) /\ Reading(r)
      BY DEF ReadInv
    <2>2. PICK p \in s.offset .. End(s) - 1 : OnLine(s.file, b, p)
      BY <2>1 DEF Reading
    <2>3. PICK q \in r.offset .. End(r) - 1 : OnLine(r.file, b, q)
      BY <2>1 DEF Reading
    <2>4. /\ PlanOK /\ b \in Nat /\ s.file \in 1 .. NFiles
          /\ s \in PlanFile(s.file) /\ r \in PlanFile(s.file)
          /\ s.offset \in Nat /\ r.offset \in Nat /\ End(s) \in Nat /\ End(r) \in Nat
      BY <2>1, SplitFacts
    <2>5. p = q
      BY <2>2, <2>3, <2>4, OneLine
    <2> QED  BY <2>2, <2>3, <2>4, <2>5, RangesDisjoint
  <1> QED  BY <1>1, ReadInvariant, PTL

(* When every split has been read, no byte of any file is missing. *)
THEOREM EveryByteReadHolds == SplitSpec => []EveryByteRead
  <1>1. ReadInv => EveryByteRead
    <2> SUFFICES ASSUME ReadInv, \A s \in Splits : Finished(s),
                        NEW i \in 1 .. NFiles, NEW b \in 0 .. files[i].size - 1
                 PROVE  \E s \in PlanFile(i) : b \in taken[s]
      BY DEF EveryByteRead
    <2>1. PlanOK
      BY SplitBoundsAssumption DEF ReadInv, SplitTypeOK, PlanOK
    <2>2. b \in 0 .. Size(i) - 1 /\ b \in Nat /\ Size(i) \in Nat
      BY <2>1, FileFacts
    <2>3. PICK p \in 0 .. b : OnLine(i, b, p)
      BY <2>1, <2>2, SomeLine
    <2>4. PICK s \in PlanFile(i) : s.offset <= p /\ p < End(s)
      BY <2>1, <2>2, <2>3, RangesCover
    <2>5. s \in Splits /\ s.file = i
      BY <2>1, <2>4, RangeFacts DEF Splits
    <2>6. SplitTypeOK /\ Reading(s) /\ pos[s] # Unopened /\ ~(pos[s] < End(s))
      BY <2>5 DEF ReadInv, Finished, More
    <2>7. p \in s.offset .. pos[s] - 1
      BY <2>2, <2>4, <2>5, <2>6, SplitFacts DEF Unopened
    <2> QED  BY <2>2, <2>3, <2>4, <2>5, <2>6, <2>7 DEF Reading
  <1> QED  BY <1>1, ReadInvariant, PTL
=============================================================================
