-------------------------- MODULE BZipParse_proof --------------------------
(***************************************************************************)
(* Proofs about BZipParse, for every set of files and every MAX_BLOCKS.    *)
(*                                                                         *)
(* What makes the safety properties inductive is the meaning of the        *)
(* scanner's two local variables: while it runs, blocks is the number of   *)
(* marks behind the reading position, and start is the last of them.  That *)
(* every block recorded took two marks keeps the boundaries in bounds.     *)
(***************************************************************************)
EXTENDS BZipParse, TLAPS

Cursor ==
    pc = "scan" =>
        /\ read_bits <= file.size
        /\ blocks <= NMarks /\ blocks <= MaxBlocks
        /\ \A k \in 1 .. NMarks : Seen(k) <=> k <= blocks
        /\ blocks > 0 => start = file.mark[blocks]
        /\ recorded = <<>> \/ Len(recorded) < blocks
        /\ bad_blocks = 0

IInv ==
    /\ TypeOK
    /\ Cursor
    /\ RecordedAreStretches
    /\ RecordedInOrder
    /\ NoBlockLost
    /\ LimitCountsMagics
    /\ TruncationReported

(* The layout of a file, in the form the proofs use. *)
LEMMA FileFacts ==
    ASSUME NEW f \in Files
    PROVE  /\ f.size \in Nat
           /\ f.mark \in Seq(Nat) /\ Len(f.mark) \in Nat
           /\ f.kind \in Seq({"block", "end"}) /\ Len(f.kind) = Len(f.mark)
           /\ \A i \in 1 .. Len(f.mark) :
                 f.mark[i] \in Nat /\ f.mark[i] >= 45 /\ f.mark[i] <= f.size
           /\ \A i, j \in 1 .. Len(f.mark) : i < j => f.mark[j] - f.mark[i] >= 45
BY FilesAssumption DEF IsFile

(***************************************************************************)
(* The mark under the reading position is the one after the last seen.     *)
(***************************************************************************)
LEMMA NextMark ==
    ASSUME TypeOK, Cursor, pc = "scan", NEW k \in 1 .. NMarks,
           file.mark[k] = read_bits + 1
    PROVE  k = blocks + 1
<1>1. file \in Files /\ read_bits \in Nat /\ blocks \in Nat
  BY DEF TypeOK
<1>2. ~(k <= blocks)
  BY <1>1, FileFacts DEF Cursor, Seen, BitsRead, NMarks
<1>3. CASE blocks + 1 < k
  <2>1. blocks + 1 \in 1 .. NMarks
    BY <1>1, <1>3, FileFacts DEF NMarks
  <2>2. file.mark[blocks + 1] <= read_bits
    <3>1. /\ file.mark[blocks + 1] \in Nat /\ file.mark[k] \in Nat
          /\ file.mark[k] - file.mark[blocks + 1] >= 45
      BY <1>1, <1>3, <2>1, FileFacts DEF NMarks
    <3> QED BY <1>1, <3>1
  <2>3. QED
    BY <1>1, <2>1, <2>2 DEF Cursor, Seen, BitsRead
<1>4. QED
  BY <1>1, <1>2, <1>3, FileFacts DEF NMarks

LEMMA InitInv == ASSUME Init PROVE IInv
<1>1. file \in Files
  BY DEF Init
<1>2. TypeOK
  <2>1. file.size \in Nat
    BY <1>1, FileFacts
  <2>2. read_bits \in 0 .. file.size + 1 /\ blocks \in 0 .. SizeMod - 1
    BY <2>1, ConstantsAssumption DEF Init
  <2>3. start \in Nat
    BY ConstantsAssumption DEF Init
  <2>4. recorded \in Seq(Nat \X Nat)
    BY DEF Init
  <2>5. QED
    BY <1>1, <2>2, <2>3, <2>4 DEF Init, TypeOK
<1>3. Cursor
  <2>1. BitsRead = 0
    BY DEF Init, BitsRead
  <2>2. \A k \in 1 .. NMarks : ~Seen(k) /\ ~(k <= 0)
    BY <1>1, <2>1, FileFacts DEF Seen, NMarks
  <2>3. file.size >= 0 /\ NMarks >= 0 /\ MaxBlocks >= 0
    BY <1>1, FileFacts, ConstantsAssumption DEF NMarks
  <2>4. QED
    BY <2>2, <2>3 DEF Init, Cursor
<1>4. RecordedAreStretches /\ RecordedInOrder
  BY DEF Init, RecordedAreStretches, RecordedInOrder
<1>5. NoBlockLost
  BY <1>1, FileFacts DEF Init, NoBlockLost, Seen, BitsRead, NMarks
<1>6. LimitCountsMagics
  <2>1. \A k \in 1 .. NMarks : ~Seen(k)
    BY <1>1, FileFacts DEF Init, Seen, BitsRead, NMarks
  <2>2. /\ NMarks >= MaxBlocks => MaxBlocks \in 1 .. NMarks
        /\ NMarks > MaxBlocks => MaxBlocks + 1 \in 1 .. NMarks
        /\ 0 < MaxBlocks /\ 0 <= MaxBlocks
    BY <1>1, FileFacts, ConstantsAssumption DEF NMarks
  <2>3. Len(recorded) = 0 /\ blocks = 0
    BY DEF Init
  <2> QED BY <2>1, <2>2, <2>3 DEF Init, LimitCountsMagics
<1>7. TruncationReported
  BY DEF Init, TruncationReported
<1>8. QED
  BY <1>2, <1>3, <1>4, <1>5, <1>6, <1>7 DEF IInv

(***************************************************************************)
(* A step that records nothing and passes no mark keeps what is said about *)
(* the recorded blocks.                                                    *)
(***************************************************************************)
LEMMA NothingRecorded ==
    ASSUME IInv, UNCHANGED <<file, recorded, overrun>>,
           \A k \in 1 .. NMarks : Seen(k)' <=> Seen(k),
           pc' = "refused" <=> pc = "refused",
           pc' # "done" => pc # "done" /\ blocks' = blocks
    PROVE  RecordedAreStretches' /\ RecordedInOrder' /\ NoBlockLost' /\ LimitCountsMagics'
<1>1. NMarks' = NMarks /\ NMarks \in Nat
  BY FileFacts DEF NMarks, IInv, TypeOK
<1>2. \A k \in 1 .. NMarks - 1 : Stretch(k)' = Stretch(k) /\ (IsBlock(k)' <=> IsBlock(k))
  BY DEF Stretch, IsBlock, LongEnough
<1>3. \A k \in 1 .. NMarks - 1 : k + 1 \in 1 .. NMarks
  BY <1>1
<1>4. RecordedAreStretches'
  BY <1>1, <1>2, <1>3 DEF IInv, RecordedAreStretches
<1>5. RecordedInOrder'
  BY DEF IInv, RecordedInOrder
<1>6. NoBlockLost'
  BY <1>1, <1>2, <1>3 DEF IInv, NoBlockLost
<1>7. LimitCountsMagics'
  <2>1. /\ NMarks >= MaxBlocks => MaxBlocks \in 1 .. NMarks
        /\ NMarks > MaxBlocks => MaxBlocks + 1 \in 1 .. NMarks
    BY <1>1, ConstantsAssumption
  <2>2. QED
    BY <1>1, <2>1 DEF IInv, LimitCountsMagics
<1>8. QED
  BY <1>4, <1>5, <1>6, <1>7

LEMMA PlainStep == ASSUME IInv, Plain PROVE IInv'
<1>1. /\ file \in Files /\ read_bits \in Nat /\ file.size \in Nat
      /\ pc = "scan" /\ NMarks \in Nat /\ NMarks' = NMarks
  BY FileFacts DEF IInv, TypeOK, Plain, ReadBit, NMarks
<1>2. \A k \in 1 .. NMarks : file.mark[k] \in Nat /\ file.mark[k] # read_bits + 1
  BY <1>1, FileFacts DEF Plain, ReadBit, AtMark, NMarks
<1>3. BitsRead = read_bits /\ BitsRead' = read_bits + 1
  BY <1>1 DEF Plain, ReadBit, BitsRead
<1>4. \A k \in 1 .. NMarks : Seen(k)' <=> Seen(k)
  BY <1>1, <1>2, <1>3 DEF Seen, Plain
<1>5. TypeOK'
  BY <1>1 DEF IInv, TypeOK, Plain, ReadBit, AtEOF
<1>6. Cursor'
  BY <1>1, <1>4 DEF IInv, Cursor, Plain, ReadBit, AtEOF
<1>7. RecordedAreStretches' /\ RecordedInOrder' /\ NoBlockLost' /\ LimitCountsMagics'
  BY <1>4, NothingRecorded DEF Plain
<1>8. TruncationReported'
  BY <1>1 DEF TruncationReported, Plain
<1>9. QED
  BY <1>5, <1>6, <1>7, <1>8 DEF IInv

LEMMA EndOfFileStep == ASSUME IInv, EndOfFile PROVE IInv'
<1>1. /\ file \in Files /\ read_bits \in Nat /\ file.size \in Nat
      /\ pc = "scan" /\ pc' = "done" /\ NMarks \in Nat /\ NMarks' = NMarks
      /\ read_bits <= file.size /\ read_bits' = read_bits + 1
      /\ blocks \in Nat /\ blocks <= MaxBlocks /\ bad_blocks = 0
  BY FileFacts, ConstantsAssumption DEF IInv, TypeOK, Cursor, EndOfFile, ReadBit, NMarks
<1>2. BitsRead = read_bits /\ BitsRead' = read_bits
  BY <1>1 DEF BitsRead
<1>3. \A k \in 1 .. NMarks : Seen(k)' <=> Seen(k)
  BY <1>2 DEF Seen, EndOfFile
<1>4. TypeOK'
  <2>1. blocks' \in 0 .. SizeMod - 1
    BY <1>1, ConstantsAssumption DEF EndOfFile, OneLess
  <2>2. bad_blocks' \in {0, 1}
    BY <1>1 DEF EndOfFile
  <2>3. read_bits' \in 0 .. file'.size + 1
    BY <1>1 DEF EndOfFile
  <2>4. QED
    BY <1>1, <2>1, <2>2, <2>3 DEF IInv, TypeOK, EndOfFile
<1>5. Cursor'
  BY <1>1 DEF Cursor
<1>6. RecordedAreStretches' /\ RecordedInOrder' /\ NoBlockLost' /\ LimitCountsMagics'
  BY <1>1, <1>3, NothingRecorded DEF EndOfFile
<1>7. TruncationReported'
  <2>1. \A k \in 1 .. NMarks : file.mark[k] \in Nat /\ (Seen(k) <=> k <= blocks)
    BY <1>1, FileFacts DEF IInv, Cursor, NMarks
  <2>2. CASE blocks = 0
    <3>1. bad_blocks' = 0
      BY <1>1, <2>2 DEF EndOfFile
    <3>2. \A k \in 1 .. NMarks : ~Seen(k)
      BY <2>1, <2>2
    <3>3. QED
      BY <1>1, <1>3, <3>1, <3>2 DEF TruncationReported
  <2>3. CASE blocks > 0
    <3>1. blocks \in 1 .. NMarks /\ start = file.mark[blocks] /\ file.mark[blocks] \in Nat
      BY <1>1, <2>1, <2>3 DEF IInv, Cursor
    <3>2. bad_blocks' = 1 <=> read_bits - file.mark[blocks] >= 39
      BY <1>1, <2>3, <3>1 DEF EndOfFile, InsideBlock
    <3>3. \A k \in 1 .. NMarks : Seen(k) => file.mark[k] <= file.mark[blocks]
      <4>1. \A i, j \in 1 .. NMarks : i < j => file.mark[j] - file.mark[i] >= 45
        BY <1>1, FileFacts DEF NMarks
      <4>2. ASSUME NEW k \in 1 .. NMarks, k <= blocks PROVE file.mark[k] <= file.mark[blocks]
        <5>1. CASE k = blocks
          BY <3>1, <5>1
        <5>2. CASE k < blocks
          <6>1. file.mark[blocks] - file.mark[k] >= 45
            BY <3>1, <4>1, <5>2
          <6> QED BY <2>1, <3>1, <6>1
        <5> QED BY <3>1, <4>2, <5>1, <5>2
      <4> QED BY <2>1, <4>2
    <3>4. Seen(blocks)
      BY <2>1, <3>1
    <3>5. QED
      BY <1>1, <1>2, <1>3, <2>1, <3>1, <3>2, <3>3, <3>4 DEF TruncationReported, EndOfFile
  <2>4. QED
    BY <1>1, <2>2, <2>3
<1>8. QED
  BY <1>4, <1>5, <1>6, <1>7 DEF IInv

(***************************************************************************)
(* A mark: the stretch it closes starts at the last mark seen.             *)
(***************************************************************************)
LEMMA AtNextMark ==
    ASSUME IInv, ReadBit, AtMark
    PROVE  /\ file \in Files /\ pc = "scan" /\ NMarks \in Nat
           /\ read_bits \in Nat /\ blocks \in Nat /\ blocks + 1 \in 1 .. NMarks
           /\ read_bits' = read_bits + 1 /\ file.mark[blocks + 1] = read_bits + 1
           /\ \A k \in 1 .. NMarks : Seen(k) <=> k <= blocks
           /\ \A k \in 1 .. NMarks : file.mark[k] <= read_bits + 1 <=> k <= blocks + 1
<1>1. /\ file \in Files /\ pc = "scan" /\ NMarks \in Nat
      /\ read_bits \in Nat /\ blocks \in Nat /\ read_bits' = read_bits + 1
  BY FileFacts DEF IInv, TypeOK, ReadBit, NMarks
<1>2. PICK k \in 1 .. NMarks : file.mark[k] = read_bits + 1
  BY <1>1 DEF AtMark
<1>3. k = blocks + 1
  BY <1>1, <1>2, NextMark DEF IInv
<1>4. \A j \in 1 .. NMarks : Seen(j) <=> j <= blocks
  BY <1>1 DEF IInv, Cursor
<1>5. \A j \in 1 .. NMarks : file.mark[j] <= read_bits + 1 <=> j <= blocks + 1
  <2>1. TAKE j \in 1 .. NMarks
  <2>2. /\ file.mark[j] \in Nat /\ file.mark[k] \in Nat
        /\ j < k => file.mark[k] - file.mark[j] >= 45
        /\ k < j => file.mark[j] - file.mark[k] >= 45
    BY <1>1, FileFacts DEF NMarks
  <2> QED BY <1>1, <1>2, <1>3, <2>2
<1>6. blocks + 1 \in 1 .. NMarks /\ file.mark[blocks + 1] = read_bits + 1
  BY <1>2, <1>3
<1>7. QED
  BY <1>1, <1>4, <1>5, <1>6

LEMMA TooManyStep == ASSUME IInv, TooManyBlocks PROVE IInv'
<1>1. ReadBit /\ AtMark /\ ~AtEOF /\ blocks >= MaxBlocks /\ pc' = "refused"
  BY DEF TooManyBlocks, AtLimit
<1>2. blocks + 1 \in 1 .. NMarks /\ blocks \in Nat /\ read_bits \in Nat
      /\ read_bits' = read_bits + 1 /\ file \in Files /\ NMarks \in Nat
      /\ file.mark[blocks + 1] = read_bits + 1 /\ pc = "scan"
  BY <1>1, AtNextMark
<1>3. blocks = MaxBlocks /\ MaxBlocks \in Nat
  BY <1>1, <1>2, ConstantsAssumption DEF IInv, Cursor
<1>4. TypeOK'
  <2>1. file.size \in Nat
    BY <1>2, FileFacts
  <2>2. read_bits' \in 0 .. file'.size + 1
    BY <1>1, <1>2, <2>1 DEF TooManyBlocks, AtEOF
  <2>3. QED
    BY <2>2 DEF IInv, TypeOK, TooManyBlocks
<1>5. Cursor' /\ TruncationReported' /\ NoBlockLost'
  BY <1>1 DEF Cursor, TruncationReported, NoBlockLost
<1>6. RecordedAreStretches' /\ RecordedInOrder'
  BY DEF RecordedAreStretches, RecordedInOrder, TooManyBlocks
<1>7. LimitCountsMagics'
  <2>1. NMarks' = NMarks /\ BitsRead' = read_bits + 1 /\ file' = file /\ blocks' = blocks
    BY <1>1, <1>2 DEF TooManyBlocks, NMarks, BitsRead
  <2>2. NMarks' >= MaxBlocks /\ Seen(MaxBlocks)' /\ NMarks' > MaxBlocks /\ Seen(MaxBlocks + 1)'
    <3>1. MaxBlocks \in 1 .. NMarks
      BY <1>2, <1>3, ConstantsAssumption
    <3>2. file.mark[MaxBlocks] \in Nat /\ file.mark[MaxBlocks] <= read_bits
      BY <1>1, <1>3, <3>1, AtNextMark, FileFacts, <1>2 DEF Seen, BitsRead, NMarks
    <3> QED BY <1>2, <1>3, <2>1, <3>1, <3>2 DEF Seen
  <2>3. overrun' /\ pc' = "refused" /\ Len(recorded') = 0 /\ 0 < MaxBlocks
    BY ConstantsAssumption DEF TooManyBlocks
  <2> QED BY <1>3, <2>1, <2>2, <2>3 DEF LimitCountsMagics
<1>8. QED
  BY <1>4, <1>5, <1>6, <1>7 DEF IInv

LEMMA MarkStep == ASSUME IInv, Mark PROVE IInv'
<1>1. ReadBit /\ AtMark /\ ~AtEOF /\ blocks < MaxBlocks /\ pc' = "scan" /\ file' = file
  BY ConstantsAssumption DEF Mark, ReadBit, AtLimit, IInv, TypeOK
<1>2. /\ file \in Files /\ pc = "scan" /\ NMarks \in Nat /\ NMarks' = NMarks
      /\ read_bits \in Nat /\ blocks \in Nat /\ blocks + 1 \in 1 .. NMarks
      /\ read_bits' = read_bits + 1 /\ file.mark[blocks + 1] = read_bits + 1
      /\ file.size \in Nat /\ MaxBlocks \in Nat
  BY <1>1, AtNextMark, FileFacts, ConstantsAssumption DEF NMarks
<1>3. \A k \in 1 .. NMarks : Seen(k) <=> k <= blocks
  BY <1>1, AtNextMark
<1>4. \A k \in 1 .. NMarks : Seen(k)' <=> k <= blocks + 1
  <2>1. BitsRead' = read_bits + 1
    BY <1>1, <1>2 DEF BitsRead
  <2>2. \A k \in 1 .. NMarks : file.mark[k] <= read_bits + 1 <=> k <= blocks + 1
    BY <1>1, AtNextMark
  <2>3. QED
    BY <1>1, <2>1, <2>2 DEF Seen
<1>5. \A k \in 1 .. NMarks - 1 : Stretch(k)' = Stretch(k) /\ (IsBlock(k)' <=> IsBlock(k))
  BY <1>1 DEF Stretch, IsBlock, LongEnough
<1>6. /\ \A k \in 1 .. NMarks : file.mark[k] \in Nat /\ file.mark[k] >= 45
      /\ \A i, j \in 1 .. NMarks : i < j => file.mark[i] < file.mark[j]
  <2>1. /\ \A k \in 1 .. NMarks : file.mark[k] \in Nat /\ file.mark[k] >= 45
        /\ \A i, j \in 1 .. NMarks : i < j => file.mark[j] - file.mark[i] >= 45
    BY <1>2, FileFacts DEF NMarks
  <2>2. QED
    BY <2>1
<1>7. recorded \in Seq(Nat \X Nat) /\ start \in Nat /\ EndOffset \in Nat
  BY <1>2 DEF IInv, TypeOK, EndOffset
<1>8. blocks > 0 => /\ start = file.mark[blocks]
                    /\ blocks \in 1 .. NMarks - 1
                    /\ <<start, EndOffset>> = Stretch(blocks)
                    /\ (LongEnough(start, EndOffset) <=> IsBlock(blocks))
  <2>1. SUFFICES ASSUME blocks > 0
                 PROVE  /\ start = file.mark[blocks]
                        /\ blocks \in 1 .. NMarks - 1
                        /\ <<start, EndOffset>> = Stretch(blocks)
                        /\ (LongEnough(start, EndOffset) <=> IsBlock(blocks))
    OBVIOUS
  <2>2. start = file.mark[blocks] /\ blocks \in 1 .. NMarks - 1 /\ blocks \in 1 .. NMarks
    BY <1>2, <2>1 DEF IInv, Cursor
  <2>3. file.mark[blocks + 1] - file.mark[blocks] >= 45
    BY <1>2, <2>2, FileFacts DEF NMarks
  <2>4. EndOffset = file.mark[blocks + 1] - 49
    BY <1>2, <1>6, <2>2, <2>3 DEF EndOffset
  <2>5. QED
    BY <2>2, <2>4 DEF Stretch, IsBlock
<1>9. TypeOK'
  <2>1. recorded' \in Seq(Nat \X Nat)
    <3>1. <<start, EndOffset>> \in Nat \X Nat
      BY <1>7
    <3>2. Append(recorded, <<start, EndOffset>>) \in Seq(Nat \X Nat)
      BY <1>7, <3>1
    <3>3. QED
      BY <1>7, <3>2 DEF Mark, Record
  <2>2. blocks' \in 0 .. SizeMod - 1
    BY <1>1, <1>2, ConstantsAssumption DEF Mark
  <2>3. read_bits' \in 0 .. file'.size + 1
    BY <1>1, <1>2 DEF AtEOF
  <2>4. start' \in Nat /\ overrun' \in BOOLEAN
    BY <1>2 DEF Mark, IInv, TypeOK
  <2>5. QED
    BY <1>1, <1>2, <2>1, <2>2, <2>3, <2>4 DEF IInv, TypeOK, Mark
<1>len. Len(recorded') \in Nat /\ Len(recorded') < blocks + 1
  <2>1. Len(recorded) \in Nat /\ (Len(recorded) = 0 \/ Len(recorded) < blocks)
    BY <1>2, <1>7 DEF IInv, Cursor
  <2>2. CASE blocks > 0 /\ LongEnough(start, EndOffset)
    <3>1. recorded' = Append(recorded, <<start, EndOffset>>)
      BY <2>2 DEF Mark, Record
    <3>2. Len(recorded') = Len(recorded) + 1
      BY <1>7, <3>1
    <3> QED BY <1>2, <2>1, <2>2, <3>2
  <2>3. CASE ~(blocks > 0 /\ LongEnough(start, EndOffset))
    <3>1. recorded' = recorded
      BY <2>3 DEF Mark, Record
    <3> QED BY <1>2, <2>1, <3>1
  <2> QED BY <2>2, <2>3
<1>10. Cursor'
  <2>1. read_bits' <= file'.size
    BY <1>1, <1>2 DEF AtEOF
  <2>2. blocks' <= NMarks' /\ blocks' <= MaxBlocks /\ start' = file'.mark[blocks']
    BY <1>1, <1>2 DEF Mark
  <2>3. QED
    BY <1>1, <1>2, <1>4, <1>len, <2>1, <2>2 DEF Cursor, IInv, Mark
<1>11. ASSUME UNCHANGED recorded, blocks > 0 => ~IsBlock(blocks)
       PROVE  RecordedAreStretches' /\ RecordedInOrder' /\ NoBlockLost'
  <2>1. RecordedAreStretches'
    <3>1. \A k \in 1 .. NMarks - 1 : k + 1 \in 1 .. NMarks
      BY <1>2
    <3>2. \A k \in 1 .. NMarks - 1 : Seen(k + 1) => Seen(k + 1)'
      BY <1>2, <1>3, <1>4, <3>1
    <3>3. QED
      BY <1>2, <1>5, <1>11, <3>2 DEF IInv, RecordedAreStretches
  <2>2. RecordedInOrder'
    BY <1>11 DEF IInv, RecordedInOrder
  <2>3. NoBlockLost'
    BY <1>1, <1>2, <1>3, <1>4, <1>5, <1>11 DEF IInv, NoBlockLost
  <2>4. QED
    BY <2>1, <2>2, <2>3
<1>12. ASSUME blocks \in 1 .. NMarks - 1, IsBlock(blocks),
              recorded' = Append(recorded, Stretch(blocks))
       PROVE  RecordedAreStretches' /\ RecordedInOrder' /\ NoBlockLost'
  <2>1. /\ Len(recorded) \in Nat /\ Len(recorded') = Len(recorded) + 1
        /\ recorded'[Len(recorded) + 1] = Stretch(blocks)
        /\ \A i \in 1 .. Len(recorded) : recorded'[i] = recorded[i]
    <3>1. Stretch(blocks) \in Nat \X Nat
      BY <1>7, <1>8, <1>12, <1>2
    <3>2. QED
      BY <1>7, <1>12, <3>1
  <2>2. \A i \in 1 .. Len(recorded') : i \in 1 .. Len(recorded) \/ i = Len(recorded) + 1
    BY <2>1
  <2>3. RecordedAreStretches'
    <3>1. ASSUME NEW i \in 1 .. Len(recorded')
          PROVE  \E k \in 1 .. NMarks - 1 :
                     recorded'[i] = Stretch(k) /\ IsBlock(k) /\ k + 1 <= blocks + 1
      <4>1. CASE i \in 1 .. Len(recorded)
        <5>1. PICK k \in 1 .. NMarks - 1 : recorded[i] = Stretch(k) /\ IsBlock(k) /\ Seen(k + 1)
          BY <4>1 DEF IInv, RecordedAreStretches
        <5>2. k + 1 <= blocks
          BY <1>2, <1>3, <5>1
        <5>3. QED
          BY <1>2, <2>1, <4>1, <5>1, <5>2
      <4>2. CASE i = Len(recorded) + 1
        BY <1>12, <1>2, <2>1, <4>2
      <4>3. QED
        BY <2>2, <4>1, <4>2
    <3>2. \A k \in 1 .. NMarks - 1 : k + 1 <= blocks + 1 => Seen(k + 1)'
      <4>1. \A k \in 1 .. NMarks - 1 : k + 1 \in 1 .. NMarks
        BY <1>2
      <4>2. QED
        BY <1>4, <4>1
    <3>3. ASSUME NEW i \in 1 .. Len(recorded')
          PROVE  \E k \in 1 .. NMarks - 1 :
                     recorded'[i] = Stretch(k)' /\ IsBlock(k)' /\ Seen(k + 1)'
      BY <1>5, <3>1, <3>2
    <3>4. QED
      BY <1>2, <3>3 DEF RecordedAreStretches
  <2>4. RecordedInOrder'
    <3>1. \A i \in 1 .. Len(recorded) :
             /\ recorded[i][1] < Stretch(blocks)[1]
             /\ recorded[i][2] < Stretch(blocks)[1]
      <4>1. TAKE i \in 1 .. Len(recorded)
      <4>2. PICK k \in 1 .. NMarks - 1 : recorded[i] = Stretch(k) /\ Seen(k + 1)
        BY DEF IInv, RecordedAreStretches
      <4>3. k + 1 \in 1 .. NMarks /\ k + 1 <= blocks /\ k \in 1 .. NMarks
        BY <1>2, <1>3, <4>2
      <4>4. file.mark[k + 1] <= file.mark[blocks] /\ file.mark[k] < file.mark[blocks]
        <5>1. blocks \in 1 .. NMarks
          BY <1>2, <1>12
        <5>2. file.mark[k] < file.mark[blocks]
          <6>1. k < blocks
            BY <1>2, <4>3
          <6> QED BY <1>6, <4>3, <5>1, <6>1
        <5>3. CASE k + 1 = blocks
          BY <1>6, <5>1, <5>2, <5>3
        <5>4. CASE k + 1 < blocks
          <6>1. file.mark[k + 1] < file.mark[blocks]
            BY <1>6, <4>3, <5>1, <5>4
          <6>2. file.mark[k + 1] \in Nat /\ file.mark[blocks] \in Nat
            BY <1>6, <4>3, <5>1
          <6> QED BY <5>2, <6>1, <6>2
        <5>5. QED
          BY <1>2, <4>3, <5>3, <5>4
      <4>5. recorded[i][1] = file.mark[k] /\ recorded[i][2] = file.mark[k + 1] - 49
            /\ Stretch(blocks)[1] = file.mark[blocks]
        BY <4>2 DEF Stretch
      <4>6. file.mark[k] \in Nat /\ file.mark[k + 1] \in Nat /\ file.mark[blocks] \in Nat
        <5>1. blocks \in 1 .. NMarks
          BY <1>2, <1>12
        <5> QED BY <1>6, <4>3, <5>1
      <4>7. QED
        BY <4>4, <4>5, <4>6
    <3>2. ASSUME NEW i \in 1 .. Len(recorded'), NEW j \in 1 .. Len(recorded'), i < j
          PROVE  recorded'[i][1] < recorded'[j][1] /\ recorded'[i][2] < recorded'[j][1]
      <4>1. i \in 1 .. Len(recorded)
        BY <2>1, <3>2
      <4>2. CASE j \in 1 .. Len(recorded)
        BY <2>1, <3>2, <4>1, <4>2 DEF IInv, RecordedInOrder
      <4>3. CASE j = Len(recorded) + 1
        BY <2>1, <3>1, <4>1, <4>3
      <4>4. QED
        BY <2>2, <4>2, <4>3
    <3>3. QED
      BY <3>2 DEF RecordedInOrder
  <2>5. NoBlockLost'
    <3>1. ASSUME NEW k \in 1 .. NMarks - 1, k + 1 <= blocks + 1, IsBlock(k)
          PROVE  \E i \in 1 .. Len(recorded') : recorded'[i] = Stretch(k)
      <4>1. CASE k = blocks
        BY <2>1, <4>1
      <4>2. CASE k < blocks
        <5>1. Seen(k + 1)
          BY <1>2, <1>3, <4>2
        <5>2. PICK i \in 1 .. Len(recorded) : recorded[i] = Stretch(k)
          BY <1>2, <3>1, <5>1 DEF IInv, NoBlockLost
        <5>3. QED
          BY <2>1, <5>2
      <4>3. QED
        BY <1>2, <3>1, <4>1, <4>2
    <3>2. \A k \in 1 .. NMarks - 1 : k + 1 \in 1 .. NMarks
      BY <1>2
    <3>3. QED
      BY <1>1, <1>2, <1>4, <1>5, <3>1, <3>2 DEF NoBlockLost
  <2>6. QED
    BY <2>3, <2>4, <2>5
<1>13. RecordedAreStretches' /\ RecordedInOrder' /\ NoBlockLost'
  <2>1. CASE blocks > 0 /\ LongEnough(start, EndOffset)
    <3>1. recorded' = Append(recorded, Stretch(blocks))
      BY <1>8, <2>1 DEF Mark, Record
    <3>2. QED
      BY <1>8, <1>12, <2>1, <3>1
  <2>2. CASE ~(blocks > 0 /\ LongEnough(start, EndOffset))
    <3>1. UNCHANGED recorded
      BY <2>2 DEF Mark, Record
    <3>2. QED
      BY <1>8, <1>11, <2>2, <3>1
  <2>3. QED
    BY <2>1, <2>2
<1>14. LimitCountsMagics'
  <2>1. overrun <=> NMarks >= MaxBlocks /\ Seen(MaxBlocks)
    BY DEF IInv, LimitCountsMagics
  <2>2. /\ NMarks >= MaxBlocks => MaxBlocks \in 1 .. NMarks
        /\ NMarks > MaxBlocks => MaxBlocks + 1 \in 1 .. NMarks
    BY <1>2, ConstantsAssumption
  <2>3. overrun' <=> NMarks' >= MaxBlocks /\ Seen(MaxBlocks)'
    <3>1. overrun' <=> overrun \/ blocks + 1 >= MaxBlocks
      BY DEF Mark
    <3> QED BY <1>1, <1>2, <1>3, <1>4, <2>1, <2>2, <3>1
  <2>4. ~(NMarks' > MaxBlocks /\ Seen(MaxBlocks + 1)')
    BY <1>1, <1>2, <1>4, <2>2
  <2>5. Len(recorded') < MaxBlocks /\ blocks' <= MaxBlocks
    <3>1. blocks' = blocks + 1 /\ Len(recorded') < blocks'
      BY <1>1, <1>2, <1>len DEF Mark
    <3>2. Len(recorded') \in Nat
      BY <1>len
    <3> QED BY <1>1, <1>2, <3>1, <3>2
  <2> QED BY <1>1, <2>3, <2>4, <2>5 DEF LimitCountsMagics
<1>15. TruncationReported'
  BY <1>1 DEF TruncationReported
<1>16. QED
  BY <1>9, <1>10, <1>13, <1>14, <1>15 DEF IInv

LEMMA NextInv == ASSUME IInv, [Next]_vars PROVE IInv'
<1>1. CASE UNCHANGED vars
  <2>1. NMarks' = NMarks /\ BitsRead' = BitsRead
    BY <1>1 DEF vars, NMarks, BitsRead
  <2>2. \A k \in 1 .. NMarks : Seen(k)' <=> Seen(k)
    BY <1>1, <2>1 DEF vars, Seen
  <2>3. TypeOK' /\ Cursor'
    BY <1>1, <2>1, <2>2 DEF vars, IInv, TypeOK, Cursor
  <2>4. RecordedAreStretches' /\ RecordedInOrder' /\ NoBlockLost' /\ LimitCountsMagics'
    BY <1>1, <2>2, NothingRecorded DEF vars
  <2>5. TruncationReported'
    BY <1>1, <2>1, <2>2 DEF vars, IInv, TruncationReported
  <2>6. QED
    BY <2>3, <2>4, <2>5 DEF IInv
<1>2. QED
  BY <1>1, PlainStep, MarkStep, TooManyStep, EndOfFileStep DEF Next, Stopped

(***************************************************************************)
(* IInv holds throughout every scan.                                       *)
(***************************************************************************)
THEOREM Invariance == Spec => []IInv
<1>1. Init => IInv
  BY InitInv
<1>2. IInv /\ [Next]_vars => IInv'
  BY NextInv
<1>3. QED
  BY <1>1, <1>2, PTL DEF Spec

(* Type correctness. *)
THEOREM TypeCorrect == Spec => []TypeOK
<1>1. IInv => TypeOK
  BY DEF IInv
<1>2. QED
  BY <1>1, Invariance, PTL

(***************************************************************************)
(* Blocks_parse records whole stretches between neighbouring magics only,  *)
(* once each and in the order of the file, and misses none of those that   *)
(* are long enough to be a block.                                          *)
(***************************************************************************)
THEOREM RecordingCorrect == Spec => []RecordedAreBlocks
<1>1. IInv => RecordedAreBlocks
  BY DEF IInv, RecordedAreBlocks
<1>2. QED
  BY <1>1, Invariance, PTL

(***************************************************************************)
(* The MAX_BLOCKS-th magic is the first to be written past the arrays, by  *)
(* one slot, and the one after it is refused: the boundaries never are.    *)
(***************************************************************************)
THEOREM LimitCorrect == Spec => []LimitCountsMagics
<1>1. IInv => LimitCountsMagics
  BY DEF IInv
<1>2. QED
  BY <1>1, Invariance, PTL

(* A scan that stops early inside a block is reported, 38 bits excepted. *)
THEOREM TruncationCorrect == Spec => []TruncationReported
<1>1. IInv => TruncationReported
  BY DEF IInv
<1>2. QED
  BY <1>1, Invariance, PTL

(***************************************************************************)
(* The 130-bit threshold separates the blocks of a file bzip2 wrote from   *)
(* the gaps between its streams, which are 64 to 71 bits long.             *)
(***************************************************************************)
LEMMA ThresholdSeparates ==
    ASSUME TypeOK, Intact(file), NEW k \in 1 .. NMarks - 1
    PROVE  IsBlock(k) <=> file.kind[k] = "block"
<1>1. /\ NMarks \in Nat /\ k \in 1 .. NMarks /\ k + 1 \in 1 .. NMarks
      /\ file.mark[k] \in Nat /\ file.mark[k + 1] \in Nat
  <2>1. file \in Files
    BY DEF TypeOK
  <2>2. NMarks \in Nat /\ \A i \in 1 .. NMarks : file.mark[i] \in Nat
    BY <2>1, FileFacts DEF NMarks
  <2>3. k \in 1 .. NMarks /\ k + 1 \in 1 .. NMarks
    BY <2>2
  <2> QED BY <2>2, <2>3
<1>2. CASE file.kind[k] = "block"
  <2>1. file.mark[k + 1] - file.mark[k] >= 131 + 48
    BY <1>2 DEF Intact, NMarks
  <2>2. QED
    BY <1>1, <1>2, <2>1 DEF IsBlock, LongEnough, Stretch
<1>3. CASE file.kind[k] # "block"
  <2>1. file.mark[k + 1] = AlignUp(file.mark[k] + 32) + 32 + 48
    BY <1>3 DEF Intact, NMarks
  <2>2. AlignUp(file.mark[k] + 32) >= file.mark[k] + 32
        /\ AlignUp(file.mark[k] + 32) <= file.mark[k] + 39
    BY <1>1 DEF AlignUp
  <2>3. QED
    BY <1>1, <1>3, <2>1, <2>2 DEF IsBlock, LongEnough, Stretch, AlignUp
<1>4. QED
  BY <1>2, <1>3

(* A file bzip2 wrote, read to its end, yields exactly its blocks. *)
THEOREM IndexCorrect == Spec => []IntactFileIsIndexed
<1>1. IInv => IntactFileIsIndexed
  <2>1. SUFFICES ASSUME IInv, pc = "done", Intact(file), BitsRead = file.size
                 PROVE  {recorded[i] : i \in 1 .. Len(recorded)} =
                          {Stretch(k) : k \in {j \in 1 .. NMarks - 1 : file.kind[j] = "block"}}
    BY DEF IntactFileIsIndexed
  <2>2. \A k \in 1 .. NMarks - 1 : IsBlock(k) <=> file.kind[k] = "block"
    BY <2>1, ThresholdSeparates DEF IInv
  <2>3. \A k \in 1 .. NMarks - 1 : Seen(k + 1)
    <3>1. \A k \in 1 .. NMarks - 1 : k + 1 \in 1 .. NMarks
      BY FileFacts, <2>1 DEF IInv, TypeOK, NMarks
    <3>2. \A k \in 1 .. NMarks : file.mark[k] <= file.size
      BY FileFacts, <2>1 DEF IInv, TypeOK, NMarks
    <3>3. QED
      BY <2>1, <3>1, <3>2 DEF Seen
  <2>4. QED
    BY <2>1, <2>2, <2>3 DEF IInv, RecordedAreStretches, NoBlockLost
<1>2. QED
  BY <1>1, Invariance, PTL

(***************************************************************************)
(* The boundaries of every file whose magics are apart are what Block_from *)
(* can be called with, and those of a file bzip2 wrote pass its assert.    *)
(* The last holds because whatever precedes the first recorded block can   *)
(* only be footers, each followed by a stream that starts at a byte.       *)
(***************************************************************************)
THEOREM JobsCorrect == Spec => []RecordedAreJobs
<1>1. ASSUME IInv, pc # "refused", NEW i \in 1 .. Len(recorded)
      PROVE  /\ recorded[1][1] <= recorded[i][1]
             /\ Separate(file) => recorded[i][1] + 130 <= recorded[i][2]
             /\ Intact(file) => recorded[1][1] % 8 = 0
  <2>1. /\ NMarks \in Nat
        /\ \A k \in 1 .. NMarks : file.mark[k] \in Nat
        /\ \A j, k \in 1 .. NMarks : j < k => file.mark[k] - file.mark[j] >= 45
    BY <1>1, FileFacts DEF IInv, TypeOK, NMarks
  <2>2. Len(recorded) \in Nat /\ 1 \in 1 .. Len(recorded)
    BY <1>1 DEF IInv, TypeOK
  <2>3. \A j \in 1 .. Len(recorded) : \E k \in 1 .. NMarks - 1 :
            recorded[j] = Stretch(k) /\ IsBlock(k) /\ Seen(k + 1)
    BY <1>1 DEF IInv, RecordedAreStretches
  <2>4. \A j \in 1 .. Len(recorded) : recorded[j][1] \in Nat
    <3>1. recorded \in Seq(Nat \X Nat)
      BY <1>1 DEF IInv, TypeOK
    <3>2. \A j \in 1 .. Len(recorded) : recorded[j] \in Nat \X Nat
      BY <3>1
    <3> QED BY <3>2
  <2>5. recorded[1][1] <= recorded[i][1]
    <3>1. CASE i = 1
      BY <2>2, <2>4, <3>1
    <3>2. CASE i # 1
      <4>1. recorded[1][1] < recorded[i][1]
        BY <1>1, <2>2, <3>2 DEF IInv, RecordedInOrder
      <4> QED BY <1>1, <2>2, <2>4, <4>1
    <3> QED BY <3>1, <3>2
  <2>6. ASSUME Separate(file) PROVE recorded[i][1] + 130 <= recorded[i][2]
    <3>1. PICK k \in 1 .. NMarks - 1 : recorded[i] = Stretch(k) /\ IsBlock(k)
      BY <1>1, <2>3
    <3>2. file.mark[k + 1] - file.mark[k] >= 49
      BY <2>6, <3>1 DEF Separate, NMarks
    <3>3. k \in 1 .. NMarks /\ k + 1 \in 1 .. NMarks
      BY <2>1, <3>1
    <3>4. file.mark[k] \in Nat /\ file.mark[k + 1] \in Nat
      BY <2>1, <3>3
    <3>5. recorded[i][1] = file.mark[k] /\ recorded[i][2] = file.mark[k + 1] - 49
      BY <3>1 DEF Stretch
    <3>6. \/ file.mark[k + 1] - 49 < file.mark[k]
          \/ file.mark[k + 1] - 49 - file.mark[k] >= 130
      BY <3>1 DEF Stretch, IsBlock, LongEnough
    <3>7. \A s, e \in Nat : e - s >= 49 /\ (e - 49 < s \/ e - 49 - s >= 130) => s + 130 <= e - 49
      OBVIOUS
    <3> QED BY <3>2, <3>4, <3>5, <3>6, <3>7
  <2>7. ASSUME Intact(file) PROVE recorded[1][1] % 8 = 0
    <3>1. PICK k \in 1 .. NMarks - 1 : recorded[1] = Stretch(k) /\ IsBlock(k) /\ Seen(k + 1)
      BY <2>2, <2>3
    <3>2. recorded[1][1] = file.mark[k]
      BY <3>1 DEF Stretch
    <3>3. CASE k = 1
      BY <2>7, <3>2, <3>3 DEF Intact
    <3>4. CASE k # 1
      <4>1. PICK j \in 1 .. NMarks - 1 : k = j + 1
        <5>1. k - 1 \in 1 .. NMarks - 1 /\ k = (k - 1) + 1
          BY <2>1, <3>1, <3>4
        <5> QED BY <5>1
      <4>2. j \in 1 .. NMarks /\ k \in 1 .. NMarks /\ k + 1 \in 1 .. NMarks
            /\ j + 1 \in 1 .. NMarks /\ j < k /\ k < k + 1
        BY <2>1, <3>1, <4>1
      <4>3. file.mark[j] < file.mark[k] /\ file.mark[k] < file.mark[k + 1]
        BY <2>1, <4>2
      <4>4. Seen(j + 1)
        <5>1. BitsRead \in Int
          BY <1>1 DEF IInv, TypeOK, BitsRead
        <5>2. file.mark[k + 1] <= BitsRead
          BY <3>1 DEF Seen
        <5>3. file.mark[k] \in Nat /\ file.mark[k + 1] \in Nat
          BY <2>1, <4>2
        <5>4. file.mark[k] <= BitsRead
          BY <4>3, <5>1, <5>2, <5>3
        <5> QED BY <4>1, <5>4 DEF Seen
      <4>5. ~IsBlock(j)
        <5>1. SUFFICES ASSUME IsBlock(j) PROVE FALSE
          OBVIOUS
        <5>2. PICK n \in 1 .. Len(recorded) : recorded[n] = Stretch(j)
          BY <1>1, <4>1, <4>4, <5>1 DEF IInv, NoBlockLost
        <5>3. recorded[n][1] = file.mark[j]
          BY <5>2 DEF Stretch
        <5>4. n # 1
          BY <2>1, <3>2, <4>2, <4>3, <5>3
        <5>5. recorded[1][1] < recorded[n][1]
          BY <1>1, <2>2, <5>2, <5>4 DEF IInv, RecordedInOrder
        <5>6. file.mark[j] \in Nat /\ file.mark[k] \in Nat
          BY <2>1, <4>2
        <5> QED BY <3>2, <4>3, <5>3, <5>5, <5>6
      <4>6. file.kind[j] # "block"
        BY <1>1, <2>7, <4>1, <4>5, ThresholdSeparates DEF IInv
      <4>7. file.mark[k] = AlignUp(file.mark[j] + 32) + 32 + 48
        BY <2>7, <4>1, <4>6 DEF Intact, NMarks
      <4>8. file.mark[j] \in Nat
        BY <2>1, <4>2
      <4>9. \A m \in Nat : (((m + 32 + 7) \div 8) * 8 + 32 + 48) % 8 = 0
        OBVIOUS
      <4> QED BY <3>2, <4>7, <4>8, <4>9 DEF AlignUp
    <3> QED BY <3>3, <3>4
  <2> QED BY <2>5, <2>6, <2>7
<1>2. IInv => RecordedAreJobs
  BY <1>1 DEF RecordedAreJobs
<1>3. QED
  BY <1>2, Invariance, PTL
=============================================================================
