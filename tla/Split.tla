------------------------------- MODULE Split -------------------------------
(***************************************************************************)
(* Input splits (src/mr/split.go): PlanSplits cuts every file into byte    *)
(* ranges without looking at its contents, and ReadSplit rounds a range    *)
(* out to whole lines.  Map tasks read their splits independently, so the  *)
(* steps of ReadSplit on different splits interleave.                      *)
(*                                                                         *)
(* A file is its size and the positions of its newline bytes; a position   *)
(* p stands between byte p-1 and byte p.  Reading a line is one step.      *)
(***************************************************************************)
EXTENDS Integers

CONSTANTS
    NFiles,        \* number of input files
    MaxSize,       \* bound: bytes in a file
    SplitSizes     \* values of Config.SplitBytes

ASSUME SplitBoundsAssumption ==
    NFiles \in Nat /\ MaxSize \in Nat /\ SplitSizes \subseteq Int

VARIABLES
    files,        \* the input files
    splitBytes,   \* Config.SplitBytes
    pos,          \* where the reader of each split stands, or Unopened
    taken         \* the bytes each split's content holds so far

splitVars == <<files, splitBytes, pos, taken>>

File == {f \in [size : 0 .. MaxSize, newlines : SUBSET (0 .. MaxSize - 1)] :
            \A n \in f.newlines : n < f.size}

Unopened == -1

-----------------------------------------------------------------------------
(* Planning.                                                               *)

Split == [file : 1 .. NFiles, offset : 0 .. MaxSize, length : 0 .. MaxSize]

PieceLength(i, o) ==
    IF o + splitBytes > files[i].size THEN files[i].size - o ELSE splitBytes

(* Where the pieces of file i start: every splitBytes. *)
Offsets(i) == {k * splitBytes : k \in 0 .. files[i].size} \cap 0 .. files[i].size - 1

(* Bug for PlanFile: a piece shorter than splitBytes is left out. *)
PlanFileShort(i) ==
    IF splitBytes <= 0 \/ files[i].size <= splitBytes
    THEN {[file |-> i, offset |-> 0, length |-> files[i].size]}
    ELSE {[file |-> i, offset |-> o, length |-> splitBytes] :
             o \in {p \in Offsets(i) : p + splitBytes <= files[i].size}}

(* The splits of file i: the whole file, or its pieces. *)
PlanFile(i) ==
    IF splitBytes <= 0 \/ files[i].size <= splitBytes
    THEN {[file |-> i, offset |-> 0, length |-> files[i].size]}
    ELSE {[file |-> i, offset |-> o, length |-> PieceLength(i, o)] : o \in Offsets(i)}

Splits == UNION {PlanFile(i) : i \in 1 .. NFiles}

End(s) == s.offset + s.length

-----------------------------------------------------------------------------
(* Reading.                                                                *)

(* q is where the line read from p ends: after its newline, or at the end. *)
LineEnds(i, p, q) ==
    /\ q \in p + 1 .. files[i].size
    /\ q = files[i].size \/ q - 1 \in files[i].newlines
    /\ \A n \in files[i].newlines : ~(p <= n /\ n < q - 1)

(* Bug for AtLineStart: only a split at the start of the file is aligned. *)
AtLineStartOfFile(s) == s.offset = 0

AtLineStart(s) == s.offset = 0 \/ s.offset - 1 \in files[s.file].newlines

(* Seeks and leaves a partial first line to the split before. *)
Open(s) ==
    /\ pos[s] = Unopened
    /\ \/ AtLineStart(s) /\ pos' = [pos EXCEPT ![s] = s.offset]
       \/ ~AtLineStart(s) /\ \E q \in s.offset + 1 .. files[s.file].size :
             LineEnds(s.file, s.offset, q) /\ pos' = [pos EXCEPT ![s] = q]
    /\ UNCHANGED <<files, splitBytes, taken>>

(* Bug for More: a line that starts right after the split is read too. *)
MoreInclusive(s) == pos[s] <= End(s)

More(s) == pos[s] < End(s)

ReadLine(s) ==
    /\ pos[s] # Unopened
    /\ More(s)
    /\ \E q \in pos[s] + 1 .. files[s.file].size :
          /\ LineEnds(s.file, pos[s], q)
          /\ taken' = [taken EXCEPT ![s] = @ \cup pos[s] .. q - 1]
          /\ pos' = [pos EXCEPT ![s] = q]
    /\ UNCHANGED <<files, splitBytes>>

SplitInit ==
    /\ files \in [1 .. NFiles -> File]
    /\ splitBytes \in SplitSizes
    /\ pos = [s \in Splits |-> Unopened]
    /\ taken = [s \in Splits |-> {}]

SplitNext == \E s \in Splits : Open(s) \/ ReadLine(s)

SplitSpec == SplitInit /\ [][SplitNext]_splitVars

-----------------------------------------------------------------------------
(* Properties.                                                             *)

(* Splits and their readers stay within the files (PlanSplits, ReadSplit). *)
SplitTypeOK ==
    /\ files \in [1 .. NFiles -> File]
    /\ splitBytes \in SplitSizes
    /\ Splits \subseteq {s \in Split : End(s) <= files[s.file].size}
    /\ pos \in [Splits -> Unopened .. MaxSize]
    /\ taken \in [Splits -> SUBSET (0 .. MaxSize - 1)]

(* PlanSplits: every byte of a file lies in exactly one of its splits. *)
SplitsTile ==
    \A i \in 1 .. NFiles : \A b \in 0 .. files[i].size - 1 :
        \E s \in PlanFile(i) :
            /\ s.offset <= b /\ b < End(s)
            /\ \A r \in PlanFile(i) : r.offset <= b /\ b < End(r) => r = s

(* No byte is read by two splits, however the readers interleave. *)
ReadAtMostOnce ==
    \A s, r \in Splits : s # r /\ s.file = r.file => taken[s] \cap taken[r] = {}

Finished(s) == pos[s] # Unopened /\ ~More(s)

(* Once every split is read, no byte is missing: "concatenating all splits of *)
(* a file reproduces the file exactly once" (ReadSplit).                      *)
EveryByteRead ==
    (\A s \in Splits : Finished(s)) =>
        \A i \in 1 .. NFiles : \A b \in 0 .. files[i].size - 1 :
            \E s \in PlanFile(i) : b \in taken[s]
=============================================================================
