---------------------------- MODULE BZipPopulate ----------------------------
(***************************************************************************)
(* The lazily decompressed file of src/bzip.c: Blocks_new decompresses the *)
(* parsed blocks once to find out where each of them goes, and             *)
(* BZip2_populate is called by the UFO core to fill any range of the       *)
(* object, decompressing again the blocks that range needs.                *)
(*                                                                         *)
(* The bytes of the file are numbered from 0, and cut[b] is the number of  *)
(* the first one in block b: block b decompresses to the bytes cut[b] up   *)
(* to cut[b + 1] - 1.  The decompressor is external: a block that is       *)
(* corrupt makes it fail, every other one yields its bytes.  What the core *)
(* asks for, and when, is chosen freely among the ranges of the object.    *)
(***************************************************************************)
EXTENDS Integers

CONSTANTS
    Files,      \* the files, each given by its cut points
    MaxBlocks,  \* MAX_BLOCKS
    Garbage     \* what the offsets that Blocks_new does not assign may hold

(* A file of n parsed blocks has the cut points 0, cut[1], ..., cut[n]. *)
IsFile(c) ==
    \E n \in 0 .. MaxBlocks :
        /\ c \in [0 .. n -> Nat]
        /\ c[0] = 0
        /\ \A i, j \in 0 .. n : i <= j => c[i] <= c[j]

ASSUME FilesAssumption == \A c \in Files : IsFile(c)
ASSUME ConstantsAssumption ==
    MaxBlocks \in Nat /\ Garbage \subseteq Nat /\ Garbage # {}

VARIABLES
    cut,          \* the file
    blocks,       \* blocks->blocks, as Blocks_parse left it
    corrupt,      \* the blocks that do not decompress
    dstart, dend, \* decompressed_start_offset, decompressed_end_offset
    indexed,      \* the loop counter of Blocks_new: blocks with offsets
    size,         \* end_of_last_decompressed_block, then decompressed_size
    start, end,   \* the arguments of the call of BZip2_populate
    block_index, first,       \* current block, and the one start is in
    bytes_to_skip, offset_in_target, left,
    target,       \* the bytes of the call's buffer, by number
    result,       \* what the last call returned
    pc

index == <<dstart, dend, indexed, size>>
call == <<start, end, first>>
cursor == <<block_index, bytes_to_skip, offset_in_target, left, target>>
vars == <<cut, blocks, corrupt, index, call, cursor, result, pc>>

Block == 0 .. blocks - 1
Occupancy(b) == cut[b + 1] - cut[b]

NotFilled == -1  \* a byte of the buffer that the call did not write
Pending == 99    \* no call has returned yet

Init ==
    /\ cut \in Files
    /\ blocks \in 0 .. MaxBlocks /\ DOMAIN cut = 0 .. blocks
    /\ corrupt \in SUBSET Block
    /\ dstart \in [Block -> Garbage]
    /\ dend \in [Block -> Garbage]
    /\ indexed = 0
    /\ size = 0
    /\ start = 0 /\ end = 0
    /\ block_index = 0 /\ first = 0
    /\ bytes_to_skip = 0 /\ offset_in_target = 0 /\ left = 0
    /\ target = <<>>
    /\ result = Pending
    /\ pc = "index"

-----------------------------------------------------------------------------
(* Mutant of NextStart: a block starts where the previous one ends. *)
NextStart_Adjacent == size

(* Where the next block starts, decompressed. *)
NextStart == size + (IF indexed = 0 THEN 0 ELSE 1)

(***************************************************************************)
(* Blocks_new.  Each block starts one past the end of the previous one,    *)
(* and its end is its start plus its number of bytes.                      *)
(***************************************************************************)
IndexBlock ==
    /\ pc = "index"
    /\ indexed < blocks
    /\ indexed \notin corrupt
    /\ dstart' = [dstart EXCEPT ![indexed] = NextStart]
    /\ size' = NextStart + Occupancy(indexed)
    /\ dend' = [dend EXCEPT ![indexed] = size']
    /\ indexed' = indexed + 1
    /\ UNCHANGED <<cut, blocks, corrupt, call, cursor, result, pc>>

(***************************************************************************)
(* The loop ends after the last block, or at one that fails to decompress, *)
(* which nothing remembers.                                                *)
(***************************************************************************)
IndexDone ==
    /\ pc = "index"
    /\ indexed = blocks \/ indexed \in corrupt
    /\ size' = size + 1
    /\ pc' = "idle"
    /\ UNCHANGED <<cut, blocks, corrupt, dstart, dend, indexed, call, cursor, result>>

(* Mutant of InBlock: its end is taken one too far. *)
InBlock_TooFar(b, x) == dstart[b] <= x /\ x <= dend[b] + 1

InBlock(b, x) == dstart[b] <= x /\ x <= dend[b]

(* Every return of BZip2_populate. *)
Return(code) == result' = code /\ pc' = "idle"

(***************************************************************************)
(* BZip2_populate: the core wants start .. end - 1.  The first loop looks  *)
(* for the first block that contains start, among all the parsed blocks.   *)
(***************************************************************************)
Call(s, e) ==
    /\ pc = "idle"
    /\ start' = s /\ end' = e
    /\ target' = [i \in 0 .. e - s - 1 |-> NotFilled]
    /\ offset_in_target' = 0
    /\ left' = e - s
    /\ \/ \E b \in Block :
             /\ InBlock(b, s)
             /\ \A c \in Block : c < b => ~InBlock(c, s)
             /\ block_index' = b /\ first' = b
             /\ bytes_to_skip' = s - dstart[b]
             /\ pc' = "copy"
             /\ UNCHANGED result
       \/ /\ \A b \in Block : ~InBlock(b, s)
          /\ Return(1)
          /\ UNCHANGED <<block_index, first, bytes_to_skip>>
    /\ UNCHANGED <<cut, blocks, corrupt, index>>

(* Mutants of ElementsToCopy: not limited to what is left to fill, blind   *)
(* to the bytes skipped, and one element short.                            *)
ElementsToCopy_Unlimited == Occupancy(block_index) - bytes_to_skip
ElementsToCopy_Unskipped ==
    IF Occupancy(block_index) > left THEN left ELSE Occupancy(block_index)
ElementsToCopy_OneShort ==
    LET rest == Occupancy(block_index) - bytes_to_skip - 1
    IN  IF rest > left THEN left ELSE rest

(* How much of the current block goes to the target. *)
ElementsToCopy ==
    LET rest == Occupancy(block_index) - bytes_to_skip
    IN  IF rest > left THEN left ELSE rest

(* The block does not decompress, or to nothing: the call gives up. *)
Undecompressed ==
    /\ pc = "copy"
    /\ block_index \in corrupt \/ Occupancy(block_index) <= 0
    /\ Return(-1)
    /\ UNCHANGED <<cut, blocks, corrupt, index, call, cursor>>

(* Mutant of NextBlock: the loop does not move on. *)
NextBlock_Same == block_index

NextBlock == block_index + 1

(***************************************************************************)
(* One turn of the copying loop: the memcpy, the cursors, and whether the  *)
(* block contains the last byte asked for.                                 *)
(***************************************************************************)
CopyBlock ==
    /\ pc = "copy"
    /\ block_index \notin corrupt
    /\ Occupancy(block_index) > 0
    /\ target' = [i \in 0 .. end - start - 1 |->
                    IF offset_in_target <= i /\ i < offset_in_target + ElementsToCopy
                      THEN cut[block_index] + bytes_to_skip + (i - offset_in_target)
                      ELSE target[i]]
    /\ offset_in_target' = offset_in_target + ElementsToCopy
    /\ left' = left - ElementsToCopy
    /\ bytes_to_skip' = 0
    /\ IF InBlock(block_index, end - 1)
         THEN Return(0) /\ UNCHANGED block_index
         ELSE /\ block_index' = NextBlock
              /\ IF NextBlock < blocks
                   THEN UNCHANGED <<result, pc>>
                   ELSE Return(1)
    /\ UNCHANGED <<cut, blocks, corrupt, index, call>>

(***************************************************************************)
(* Block_from opens the file again for each block, and returns NULL when   *)
(* it cannot be opened or is shorter than it was.  Neither caller looks:   *)
(* Block_decompress follows the pointer, and the process is gone.          *)
(***************************************************************************)
Unreadable ==
    /\ \/ pc = "index" /\ indexed < blocks
       \/ pc = "copy"
    /\ pc' = "crashed"
    /\ UNCHANGED <<cut, blocks, corrupt, index, call, cursor, result>>

Crashed == pc = "crashed" /\ UNCHANGED vars

Populating == Undecompressed \/ CopyBlock

Next ==
    \/ Unreadable
    \/ Crashed
    \/ IndexBlock
    \/ IndexDone
    \/ \E s \in 0 .. size - 1, e \in 1 .. size : s < e /\ Call(s, e)
    \/ Populating

Spec == Init /\ [][Next]_vars /\ WF_vars(IndexBlock \/ IndexDone) /\ WF_vars(Populating)

-----------------------------------------------------------------------------
(* Every variable holds a value of its C type and phase. *)
TypeOK ==
    /\ cut \in Files
    /\ blocks \in 0 .. MaxBlocks /\ cut \in [0 .. blocks -> Nat]
    /\ corrupt \subseteq Block
    /\ dstart \in [Block -> Nat] /\ dend \in [Block -> Nat]
    /\ indexed \in 0 .. blocks
    /\ size \in Nat /\ start \in Nat /\ end \in Nat
    /\ block_index \in 0 .. blocks /\ first \in Nat
    /\ bytes_to_skip \in Nat /\ offset_in_target \in Nat /\ left \in Nat
    /\ target \in [0 .. end - start - 1 -> Nat \cup {NotFilled}]
    /\ result \in {Pending, -1, 0, 1}
    /\ pc \in {"index", "idle", "copy", "crashed"}

(***************************************************************************)
(* The index covers the object without a hole or an overlap, so every      *)
(* position of the object is in exactly one block that was decompressed.   *)
(***************************************************************************)
EveryPositionOnce ==
    pc # "index" /\ indexed > 0 =>
        \A x \in 0 .. size - 1 :
            \E b \in 0 .. indexed - 1 :
                InBlock(b, x) /\ \A c \in 0 .. indexed - 1 : InBlock(c, x) => c = b

(***************************************************************************)
(* An object is made of any file, even if bzip.c:974-976 would refuse one  *)
(* of which "some blocks could not be read": it holds the blocks before    *)
(* the first that does not decompress, none behind it, and is a byte too   *)
(* long for each.                                                          *)
(***************************************************************************)
EndsAtCorrupt ==
    pc \in {"idle", "copy"} =>
        /\ \A b \in Block : b < indexed <=> \A c \in 0 .. b : c \notin corrupt
        /\ size = cut[indexed] + (IF indexed = 0 THEN 1 ELSE indexed)

(* What of the file is in the object: the two together. *)
IndexCovers == EveryPositionOnce /\ EndsAtCorrupt

(***************************************************************************)
(* The assert of the copying loop: only bytes the block has are skipped,   *)
(* whatever position of whatever block the call starts at.                 *)
(***************************************************************************)
SkipWithinBlock ==
    pc = "copy" /\ block_index \notin corrupt =>
        bytes_to_skip <= Occupancy(block_index)

(***************************************************************************)
(* The copied bytes are a contiguous run of the file at the front of the   *)
(* buffer, nothing is written past it, and the run starts as many bytes    *)
(* before the position asked for as there are blocks before it.            *)
(***************************************************************************)
ContiguousRun ==
    indexed > 0 =>
        /\ offset_in_target + left = end - start
        /\ \A i \in 0 .. end - start - 1 :
              target[i] = IF i < offset_in_target THEN start - first + i ELSE NotFilled

(***************************************************************************)
(* A call that returns 0 leaves at most one byte unfilled for each block   *)
(* it touched.                                                             *)
(***************************************************************************)
NearlyFilled ==
    pc = "idle" /\ result = 0 => left <= block_index - first + 1

(***************************************************************************)
(* Once a block was indexed, a call for a range of the object succeeds: it *)
(* never consults an offset that Blocks_new did not assign, not even when  *)
(* indexing stopped early.                                                 *)
(***************************************************************************)
PopulateSucceeds ==
    indexed > 0 /\ (\A b \in 0 .. indexed - 1 : Occupancy(b) > 0) =>
        /\ result \in {Pending, 0}
        /\ pc = "copy" => block_index < indexed

(* What comes of a call for a range of the object: the two together. *)
CallsSucceed == NearlyFilled /\ PopulateSucceeds

(* Indexing ends, and every call of BZip2_populate returns or crashes. *)
AlwaysReturns == []<>(pc \in {"idle", "crashed"})

-----------------------------------------------------------------------------
(***************************************************************************)
(* Refuted.  bzip.c:888: the loop checks "if we filled all the requested   *)
(* bytes from all the necessary BZip blocks".                              *)
(***************************************************************************)
SuccessMeansFilled == pc = "idle" /\ result = 0 => left = 0
=============================================================================
