----------------------------- MODULE BZipParse -----------------------------
(***************************************************************************)
(* Blocks_parse (src/bzip.c): one pass over a bzip2 file, bit by bit, that *)
(* records where each compressed block starts and ends.                    *)
(*                                                                         *)
(* The scanner only tells apart the bits at which the shift register       *)
(* matches one of the two 48-bit magics, so a file is its number of bits,  *)
(* the values of read_bits at which a magic has just been completed        *)
(* ("mark"), and which of the two magics each of them is ("kind").  All    *)
(* positions are real bit positions, and 40, 49 and 130 are the code's     *)
(* own numbers.                                                            *)
(***************************************************************************)
EXTENDS Integers, Sequences, FiniteSets

CONSTANTS
    Files,      \* the files that may be opened
    MaxBlocks,  \* MAX_BLOCKS
    Garbage,    \* what the uninitialised stack slot start_offset[0] may hold
    SizeMod     \* size_t wraps around at this value (2^64 in the program)

(***************************************************************************)
(* What may be in a file.  Neither magic overlaps itself or the other by   *)
(* more than three bits, so two matches are at least 45 bits apart, and    *)
(* none can end before bit 45 (the register starts out zeroed and a magic  *)
(* starts with three zero bits at most).                                   *)
(***************************************************************************)
IsFile(f) ==
    /\ f.size \in Nat
    /\ f.mark \in Seq(Nat)
    /\ f.kind \in Seq({"block", "end"})
    /\ Len(f.kind) = Len(f.mark)
    /\ \A i \in 1 .. Len(f.mark) : f.mark[i] >= 45 /\ f.mark[i] <= f.size
    /\ \A i, j \in 1 .. Len(f.mark) : i < j => f.mark[j] - f.mark[i] >= 45

ASSUME FilesAssumption == \A f \in Files : IsFile(f)
ASSUME ConstantsAssumption ==
    /\ MaxBlocks \in Nat \ {0}
    /\ Garbage \subseteq Nat /\ Garbage # {}
    /\ SizeMod \in Nat /\ SizeMod > MaxBlocks + 1

VARIABLES
    file,       \* the file behind input_stream
    read_bits,  \* input_stream->read_bits
    blocks,     \* the local counter: marks seen so far
    start,      \* start_offset[blocks], the only slot of the array still read
    recorded,   \* boundaries: <<start_offset, end_offset>> of each block
    bad_blocks, \* boundaries->bad_blocks
    overrun,    \* a slot at or past MAX_BLOCKS has been written
    pc          \* "scan", "done" (boundaries returned), "refused" (NULL)

vars == <<file, read_bits, blocks, start, recorded, bad_blocks, overrun, pc>>

NMarks == Len(file.mark)

Init ==
    /\ file \in Files
    /\ read_bits = 0
    /\ blocks = 0
    /\ start \in Garbage
    /\ recorded = <<>>
    /\ bad_blocks = 0
    /\ overrun = FALSE
    /\ pc = "scan"

-----------------------------------------------------------------------------
(***************************************************************************)
(* FileBitStream_read_bit counts every call, the one that meets the end of *)
(* the file included.                                                      *)
(***************************************************************************)
ReadBit == pc = "scan" /\ read_bits' = read_bits + 1

AtEOF == read_bits' > file.size
AtMark == \E k \in 1 .. NMarks : file.mark[k] = read_bits'

(* Mutant of EndOffset: it takes in the first bit of the magic. *)
EndOffset_OneMore == IF read_bits' > 48 THEN read_bits' - 48 ELSE 0

(* The end of the stretch that precedes the mark just read. *)
EndOffset == IF read_bits' > 49 THEN read_bits' - 49 ELSE 0

(* Mutant of LongEnough: the shortest block is too short. *)
LongEnough_Strict(s, e) == e < s \/ e - s > 130

(* Mutant of LongEnough: any stretch with room for a magic is a block. *)
LongEnough_AnyStretch(s, e) == e < s \/ e - s >= 48

(* end - start >= 130 on uint64_t: a negative difference wraps around. *)
LongEnough(s, e) == e < s \/ e - s >= 130

(* One turn of the loop that matches neither magic. *)
Plain ==
    /\ ReadBit
    /\ ~AtEOF
    /\ ~AtMark
    /\ UNCHANGED <<file, blocks, start, recorded, bad_blocks, overrun, pc>>

(* Stores the stretch that ends at this mark, if it can be a block. *)
Record ==
    IF blocks > 0 /\ LongEnough(start, EndOffset)
      THEN recorded' = Append(recorded, <<start, EndOffset>>)
      ELSE UNCHANGED recorded

(* Mutant of AtLimit: one mark more is taken. *)
AtLimit_OneMore == blocks > MaxBlocks

(* if (blocks >= MAX_BLOCKS) *)
AtLimit == blocks >= MaxBlocks

(***************************************************************************)
(* A mark.  The limit is tested before the counter is incremented, so the  *)
(* mark that takes it to MAX_BLOCKS writes start_offset[MAX_BLOCKS].  In   *)
(* the -O2 build that is padding of the frame, and the value is read back. *)
(***************************************************************************)
Mark ==
    /\ ReadBit
    /\ ~AtEOF
    /\ AtMark
    /\ ~AtLimit
    /\ Record
    /\ blocks' = blocks + 1
    /\ start' = read_bits'
    /\ overrun' = (overrun \/ blocks + 1 >= MaxBlocks)
    /\ UNCHANGED <<file, bad_blocks, pc>>

(* The mark past the limit: boundaries are freed and NULL is returned. *)
TooManyBlocks ==
    /\ ReadBit
    /\ ~AtEOF
    /\ AtMark
    /\ AtLimit
    /\ recorded' = <<>>
    /\ overrun' = TRUE
    /\ pc' = "refused"
    /\ UNCHANGED <<file, blocks, start, bad_blocks>>

(***************************************************************************)
(* A negative result: the end of the file, or a failed getc, which fetches *)
(* a byte whenever the buffered bits are used up.  The loop treats both    *)
(* alike.                                                                  *)
(***************************************************************************)
GetcFails == read_bits % 8 = 0

(* Mutant of InsideBlock: 40 bits are still within a footer. *)
InsideBlock_Strict == read_bits' >= start /\ read_bits' - start > 40

InsideBlock == read_bits' >= start /\ read_bits' - start >= 40

(* Mutant of OneLess: the counter is signed. *)
OneLess_Signed == blocks - 1

OneLess == (blocks - 1) % SizeMod

(* Mutant of EndOfFile: the scan goes on after a failed read. *)
EndOfFile_Retried == pc = "scan" /\ read_bits = file.size /\ UNCHANGED vars

EndOfFile ==
    /\ ReadBit
    /\ AtEOF \/ GetcFails
    /\ pc' = "done"
    /\ IF InsideBlock
         THEN /\ bad_blocks' = IF blocks > 0 THEN bad_blocks + 1 ELSE bad_blocks
              /\ UNCHANGED blocks
         ELSE /\ blocks' = OneLess
              /\ UNCHANGED bad_blocks
    /\ UNCHANGED <<file, start, recorded, overrun>>

Stopped == pc # "scan" /\ UNCHANGED vars

Next == Plain \/ Mark \/ TooManyBlocks \/ EndOfFile \/ Stopped

Spec == Init /\ [][Next]_vars /\ WF_vars(Next)

-----------------------------------------------------------------------------
(***************************************************************************)
(* What the file holds, independently of the scanner.                      *)
(***************************************************************************)
(* The bits read so far: the read that ended the scan returned none. *)
BitsRead == IF pc = "done" THEN read_bits - 1 ELSE read_bits

Seen(k) == file.mark[k] <= BitsRead

(* The bits strictly between two neighbouring marks, end inclusive. *)
Stretch(k) == <<file.mark[k], file.mark[k + 1] - 49>>

IsBlock(k) == LongEnough(Stretch(k)[1], Stretch(k)[2])

AlignUp(n) == ((n + 7) \div 8) * 8

(***************************************************************************)
(* A file bzip2 can have written, or several of them concatenated          *)
(* (comment in Block_from): a 32-bit stream header before the first mark,  *)
(* at least 131 bits of block after a block magic, and 32 bits of CRC and  *)
(* 0-7 bits of padding after a footer magic.                               *)
(***************************************************************************)
Intact(f) ==
    LET n == Len(f.mark) IN
    /\ n > 0
    /\ f.mark[1] = 80
    /\ f.kind[n] = "end"
    /\ f.size = AlignUp(f.mark[n] + 32)
    /\ \A k \in 1 .. n - 1 :
          IF f.kind[k] = "block"
            THEN f.mark[k + 1] - f.mark[k] >= 131 + 48
            ELSE f.mark[k + 1] = AlignUp(f.mark[k] + 32) + 32 + 48

(* Every variable holds a value of its C type and phase. *)
TypeOK ==
    /\ file \in Files
    /\ read_bits \in 0 .. file.size + 1
    /\ blocks \in 0 .. SizeMod - 1
    /\ start \in Nat
    /\ recorded \in Seq(Nat \X Nat)
    /\ bad_blocks \in {0, 1}
    /\ overrun \in BOOLEAN
    /\ pc \in {"scan", "done", "refused"}

(***************************************************************************)
(* Every recorded block is the whole stretch between two neighbouring      *)
(* magics, wholly behind the reading position: no block is ever cut short, *)
(* merged with its neighbour or made up from the uninitialised slot.       *)
(***************************************************************************)
RecordedAreStretches ==
    \A i \in 1 .. Len(recorded) :
        \E k \in 1 .. NMarks - 1 :
            /\ recorded[i] = Stretch(k)
            /\ IsBlock(k)
            /\ Seen(k + 1)

(* Blocks are recorded once each and in the order of the file. *)
RecordedInOrder ==
    \A i, j \in 1 .. Len(recorded) :
        i < j => recorded[i][1] < recorded[j][1] /\ recorded[i][2] < recorded[j][1]

(* No stretch that can be a block is lost once its closing magic is read. *)
NoBlockLost ==
    pc # "refused" =>
        \A k \in 1 .. NMarks - 1 :
            Seen(k + 1) /\ IsBlock(k) =>
                \E i \in 1 .. Len(recorded) : recorded[i] = Stretch(k)

(* What is recorded, at any time: the blocks read, all of them and no more. *)
RecordedAreBlocks == RecordedAreStretches /\ RecordedInOrder /\ NoBlockLost

(***************************************************************************)
(* A file bzip2 wrote and that is read to its end yields exactly its       *)
(* blocks: the gap between two concatenated streams is never one of them.  *)
(***************************************************************************)
IntactFileIsIndexed ==
    pc = "done" /\ Intact(file) /\ BitsRead = file.size =>
        {recorded[i] : i \in 1 .. Len(recorded)} =
            {Stretch(k) : k \in {j \in 1 .. NMarks - 1 : file.kind[j] = "block"}}

(* Between two magics there is a bit at least that belongs to neither. *)
Separate(f) == \A k \in 1 .. Len(f.mark) - 1 : f.mark[k + 1] - f.mark[k] >= 49

(***************************************************************************)
(* What Block_from requires of the boundaries it is given: no block starts *)
(* before the first one, where the header it copies ends, and every block  *)
(* holds 131 bits or more, so that the end it computes lies behind the     *)
(* start.  And its assert (bzip.c:582), that the first block starts at a   *)
(* whole byte, never fails for a file bzip2 wrote, not even when that file *)
(* starts with empty streams.  Magics that touch or overlap break the      *)
(* second part: the subtraction wraps around.                              *)
(***************************************************************************)
RecordedAreJobs ==
    pc # "refused" =>
        \A i \in 1 .. Len(recorded) :
            /\ recorded[1][1] <= recorded[i][1]
            /\ Separate(file) => recorded[i][1] + 130 <= recorded[i][2]
            /\ Intact(file) => recorded[1][1] % 8 = 0

(***************************************************************************)
(* A scan that stops early, at the end of a truncated file or at a read    *)
(* error, is reported exactly when 39 bits or more follow the last magic   *)
(* it saw: an accepted file lost at most 38 bits of an unfinished block.   *)
(***************************************************************************)
TruncationReported ==
    pc = "done" =>
        (bad_blocks = 1 <=>
            /\ \E k \in 1 .. NMarks : Seen(k)
            /\ \A k \in 1 .. NMarks : Seen(k) => BitsRead - file.mark[k] >= 39)

(***************************************************************************)
(* What MAX_BLOCKS limits in the code: magics, those of footers included,  *)
(* where its comment and its message say blocks (LimitIsOfBlocks, below).  *)
(* The MAX_BLOCKS-th magic is written past the stack arrays, by one slot   *)
(* and no more, and the next one ends the scan, in time for the arrays of  *)
(* boundaries, which are as long: what is recorded before it leaves room   *)
(* for the one block that it closes.                                       *)
(***************************************************************************)
LimitCountsMagics ==
    /\ overrun <=> NMarks >= MaxBlocks /\ Seen(MaxBlocks)
    /\ pc = "refused" <=> NMarks > MaxBlocks /\ Seen(MaxBlocks + 1)
    /\ pc # "done" => blocks <= MaxBlocks
    /\ Len(recorded) < MaxBlocks

(* The scan of any file ends. *)
ScanEnds == <>(pc # "scan")

-----------------------------------------------------------------------------
(***************************************************************************)
(* Refuted.  bzip.c:368: only a file that stops inside a block, "not at    *)
(* the beginning or within an end marker", is bad.                         *)
(***************************************************************************)
IntactFileIsGood ==
    pc = "done" /\ Intact(file) /\ BitsRead = file.size => bad_blocks = 0

(* The blocks read so far, by their magics. *)
BlocksFound == {k \in 1 .. NMarks : file.kind[k] = "block" /\ Seen(k)}

(***************************************************************************)
(* Refuted.  bzip.c:21-22: MAX_BLOCKS, the length of the arrays, is "the   *)
(* maximum number of blocks that we expect in a file", and bzip.c:423: a   *)
(* file is refused for its number of blocks if "more blocks were found".   *)
(* Files with as many blocks are refused too, after a write past the       *)
(* arrays, since their footers are counted.                                *)
(***************************************************************************)
LimitIsOfBlocks ==
    pc # "scan" /\ Cardinality(BlocksFound) <= MaxBlocks => pc = "done" /\ ~overrun
=============================================================================
