------------------------- MODULE BZipPopulate_proof -------------------------
(***************************************************************************)
(* Proofs about BZipPopulate, for every file, every set of corrupt blocks  *)
(* and every sequence of calls.                                            *)
(*                                                                         *)
(* The index is off by one per block: block b is taken to start at         *)
(* cut[b] + b.  The proofs follow that shift: Indexed says it of the       *)
(* blocks indexed so far, and Copying says that the copying loop is at the *)
(* byte of the file that the shift of the first block makes it start from. *)
(***************************************************************************)
EXTENDS BZipPopulate, TLAPS

LastEnd == IF indexed = 0 THEN 0 ELSE dend[indexed - 1]

Indexed ==
    /\ \A b \in 0 .. indexed - 1 :
          b \notin corrupt /\ dstart[b] = cut[b] + b /\ dend[b] = cut[b + 1] + b
    /\ indexed > 0 =>
          \A x \in 0 .. LastEnd : \E b \in 0 .. indexed - 1 : InBlock(b, x)
    /\ pc = "index" => /\ size = LastEnd /\ result = Pending
                       /\ start = 0 /\ end = 0 /\ offset_in_target = 0 /\ left = 0
    /\ pc \in {"idle", "copy"} => /\ size = LastEnd + 1
                                  /\ indexed = blocks \/ indexed \in corrupt
    /\ size <= LastEnd + 1

Copying ==
    pc = "copy" =>
        /\ block_index \in Block
        /\ bytes_to_skip <= Occupancy(block_index)
        /\ indexed = 0 => /\ start = 0 /\ end = 1 /\ left = 1 /\ bytes_to_skip = 0
                          /\ first = block_index /\ InBlock(block_index, 0)
        /\ indexed > 0 =>
              /\ first <= block_index /\ block_index < indexed
              /\ start < end /\ end <= size
              /\ dstart[block_index] <= end - 1
              /\ cut[block_index] + bytes_to_skip = start - first + offset_in_target

IInv ==
    /\ TypeOK
    /\ Indexed
    /\ Copying
    /\ ContiguousRun
    /\ NearlyFilled
    /\ PopulateSucceeds

(* The cut points of a file are numbers that do not decrease. *)
LEMMA CutFacts ==
    ASSUME TypeOK
    PROVE  /\ blocks \in Nat /\ indexed \in Nat /\ indexed <= blocks
           /\ \A b \in 0 .. blocks : cut[b] \in Nat
           /\ \A i, j \in 0 .. blocks : i <= j => cut[i] <= cut[j]
           /\ \A b \in Block : /\ dstart[b] \in Nat /\ dend[b] \in Nat
                               /\ Occupancy(b) = cut[b + 1] - cut[b]
                               /\ cut[b] \in Nat /\ cut[b + 1] \in Nat
                               /\ cut[b] <= cut[b + 1]
<1>1. blocks \in Nat /\ indexed \in Nat /\ indexed <= blocks
  BY ConstantsAssumption DEF TypeOK
<1>2. PICK n \in 0 .. MaxBlocks :
         cut \in [0 .. n -> Nat] /\ \A i, j \in 0 .. n : i <= j => cut[i] <= cut[j]
  BY FilesAssumption DEF TypeOK, IsFile
<1>3. n = blocks
  <2>1. 0 .. n = 0 .. blocks /\ n \in Nat
    BY <1>2, ConstantsAssumption DEF TypeOK
  <2>2. n \in 0 .. blocks /\ blocks \in 0 .. n
    BY <1>1, <2>1
  <2>3. QED
    BY <1>1, <2>1, <2>2
<1>4. \A b \in Block : b \in 0 .. blocks /\ b + 1 \in 0 .. blocks
  BY <1>1 DEF Block
<1>5. QED
  BY <1>1, <1>2, <1>3, <1>4 DEF TypeOK, Occupancy

(* No two indexed blocks share a position. *)
LEMMA Disjoint ==
    ASSUME TypeOK, Indexed, NEW b \in 0 .. indexed - 1, NEW c \in 0 .. indexed - 1,
           b < c
    PROVE  dend[b] < dstart[c]
<1>1. b + 1 \in 0 .. blocks /\ c \in 0 .. blocks /\ b + 1 <= c /\ b \in Int /\ c \in Int
  BY CutFacts
<1>2. cut[b + 1] <= cut[c] /\ cut[b + 1] \in Nat /\ cut[c] \in Nat
  BY <1>1, CutFacts
<1>3. QED
  BY <1>1, <1>2 DEF Indexed

LEMMA InitInv == ASSUME Init PROVE IInv
<1>1. blocks \in 0 .. MaxBlocks /\ blocks \in Nat /\ cut \in [0 .. blocks -> Nat]
  <2>1. PICK n \in 0 .. MaxBlocks : cut \in [0 .. n -> Nat]
    BY FilesAssumption DEF Init, IsFile
  <2>2. QED
    BY <2>1, ConstantsAssumption DEF Init
<1>2. TypeOK
  <2>1. dstart \in [Block -> Nat] /\ dend \in [Block -> Nat]
    BY ConstantsAssumption DEF Init
  <2>2. target \in [0 .. end - start - 1 -> Nat \cup {NotFilled}]
    BY DEF Init
  <2>3. indexed \in 0 .. blocks /\ block_index \in 0 .. blocks
    BY <1>1 DEF Init
  <2>4. QED
    BY <1>1, <2>1, <2>2, <2>3 DEF Init, TypeOK
<1>3. Indexed
  BY DEF Init, Indexed, LastEnd
<1>4. Copying /\ ContiguousRun /\ NearlyFilled /\ PopulateSucceeds
  BY DEF Init, Copying, ContiguousRun, NearlyFilled, PopulateSucceeds
<1>5. QED
  BY <1>2, <1>3, <1>4 DEF IInv

LEMMA IndexBlockStep == ASSUME IInv, IndexBlock PROVE IInv'
<1>1. /\ pc = "index" /\ pc' = "index" /\ indexed < blocks /\ indexed \notin corrupt
      /\ indexed' = indexed + 1 /\ UNCHANGED <<cut, blocks, corrupt, call, cursor, result>>
  BY DEF IndexBlock
<1>2. /\ blocks \in Nat /\ indexed \in Nat /\ indexed \in Block /\ Block' = Block
      /\ cut[indexed] \in Nat /\ cut[indexed + 1] \in Nat
      /\ cut[indexed] <= cut[indexed + 1]
  BY <1>1, CutFacts DEF IInv, Block
<1>3. size = cut[indexed] + indexed - (IF indexed = 0 THEN 0 ELSE 1)
  <2>1. CASE indexed = 0
    <3>1. cut[0] = 0
      BY FilesAssumption DEF IInv, TypeOK, IsFile
    <3>2. QED
      BY <1>1, <2>1, <3>1 DEF IInv, Indexed, LastEnd
  <2>2. CASE indexed > 0
    <3>1. indexed - 1 \in 0 .. indexed - 1 /\ indexed - 1 + 1 = indexed
      BY <1>2, <2>2
    <3>2. dend[indexed - 1] = cut[indexed] + (indexed - 1)
      BY <3>1 DEF IInv, Indexed
    <3>3. QED
      BY <1>1, <1>2, <2>2, <3>2 DEF IInv, Indexed, LastEnd
  <2>3. QED
    BY <1>2, <2>1, <2>2
<1>4. /\ dstart' = [dstart EXCEPT ![indexed] = cut[indexed] + indexed]
      /\ dend' = [dend EXCEPT ![indexed] = cut[indexed + 1] + indexed]
      /\ size' = cut[indexed + 1] + indexed
  <2>1. size + (IF indexed = 0 THEN 0 ELSE 1) = cut[indexed] + indexed
    BY <1>2, <1>3
  <2>2. cut[indexed] + indexed + Occupancy(indexed) = cut[indexed + 1] + indexed
    BY <1>2 DEF Occupancy
  <2>3. NextStart = cut[indexed] + indexed /\ size' = NextStart + Occupancy(indexed)
    BY <2>1 DEF IndexBlock, NextStart
  <2>4. QED
    BY <2>2, <2>3 DEF IndexBlock
<1>5. /\ dstart'[indexed] = cut[indexed] + indexed
      /\ dend'[indexed] = cut[indexed + 1] + indexed
      /\ \A b \in 0 .. indexed - 1 : dstart'[b] = dstart[b] /\ dend'[b] = dend[b]
      /\ dstart' \in [Block -> Nat] /\ dend' \in [Block -> Nat]
  <2>1. dstart \in [Block -> Nat] /\ dend \in [Block -> Nat]
    BY DEF IInv, TypeOK
  <2>2. \A b \in 0 .. indexed - 1 : b \in Block /\ b # indexed
    BY <1>1, <1>2 DEF Block
  <2>3. cut[indexed] + indexed \in Nat /\ cut[indexed + 1] + indexed \in Nat
    BY <1>2
  <2>4. QED
    BY <1>2, <1>4, <2>1, <2>2, <2>3
<1>6. TypeOK'
  <2>1. indexed' \in 0 .. blocks' /\ size' \in Nat
    BY <1>1, <1>2, <1>4
  <2>2. QED
    BY <1>1, <1>2, <1>5, <2>1 DEF IInv, TypeOK, call, cursor
<1>7. Indexed'
  <2>1. \A b \in 0 .. indexed : b \in 0 .. indexed - 1 \/ b = indexed
    BY <1>2
  <2>2. \A b \in 0 .. indexed' - 1 :
           b \notin corrupt' /\ dstart'[b] = cut'[b] + b /\ dend'[b] = cut'[b + 1] + b
    BY <1>1, <1>2, <1>5, <2>1 DEF IInv, Indexed
  <2>3. LastEnd' = cut[indexed + 1] + indexed
    BY <1>1, <1>2, <1>5 DEF LastEnd
  <2>4. ASSUME NEW x \in 0 .. LastEnd'
        PROVE  \E b \in 0 .. indexed' - 1 : InBlock(b, x)'
    <3>1. CASE dstart'[indexed] <= x
      BY <1>1, <1>2, <1>5, <2>3, <2>4, <3>1 DEF InBlock
    <3>2. CASE x < dstart'[indexed]
      <4>1. indexed > 0 /\ LastEnd = cut[indexed] + indexed - 1
        <5>1. indexed # 0
          BY <1>2, <1>3, <1>5, <2>4, <3>2, <1>1 DEF IInv, Indexed, LastEnd
        <5>2. QED
          BY <1>1, <1>2, <1>3, <5>1 DEF IInv, Indexed
      <4>2. x \in 0 .. LastEnd
        BY <1>2, <1>5, <2>3, <2>4, <3>2, <4>1
      <4>3. PICK b \in 0 .. indexed - 1 : InBlock(b, x)
        BY <4>1, <4>2 DEF IInv, Indexed
      <4>4. QED
        BY <1>1, <1>2, <1>5, <4>3 DEF InBlock
    <3>3. QED
      BY <1>2, <1>5, <2>3, <2>4, <3>1, <3>2
  <2>5. pc' = "index" => /\ size' = LastEnd' /\ result' = Pending
                         /\ start' = 0 /\ end' = 0 /\ offset_in_target' = 0 /\ left' = 0
    BY <1>1, <1>4, <2>3 DEF IInv, Indexed, call, cursor
  <2>6. size' <= LastEnd' + 1
    BY <1>2, <1>4, <2>3
  <2>7. QED
    BY <1>1, <2>2, <2>4, <2>5, <2>6 DEF Indexed
<1>8. Copying' /\ NearlyFilled'
  BY <1>1 DEF Copying, NearlyFilled
<1>9. ContiguousRun' /\ PopulateSucceeds'
  <2>1. start' = 0 /\ end' = 0 /\ offset_in_target' = 0 /\ left' = 0 /\ result' = Pending
    BY <1>1 DEF IInv, Indexed, call, cursor
  <2>2. QED
    BY <1>1, <2>1 DEF ContiguousRun, PopulateSucceeds
<1>10. QED
  BY <1>6, <1>7, <1>8, <1>9 DEF IInv

LEMMA IndexDoneStep == ASSUME IInv, IndexDone PROVE IInv'
<1>1. /\ pc = "index" /\ pc' = "idle" /\ size' = size + 1
      /\ indexed = blocks \/ indexed \in corrupt
      /\ UNCHANGED <<cut, blocks, corrupt, dstart, dend, indexed, call, cursor, result>>
  BY DEF IndexDone
<1>2. size = LastEnd /\ result = Pending /\ size \in Nat
  BY <1>1 DEF IInv, Indexed, TypeOK
<1>3. TypeOK'
  <2>1. Block' = Block /\ size' \in Nat
    BY <1>1, <1>2 DEF Block
  <2>2. QED
    BY <1>1, <2>1 DEF IInv, TypeOK, call, cursor
<1>4. Indexed'
  BY <1>1, <1>2 DEF IInv, Indexed, LastEnd, InBlock
<1>5. Copying' /\ ContiguousRun' /\ NearlyFilled' /\ PopulateSucceeds'
  BY <1>1, <1>2 DEF IInv, Copying, ContiguousRun, NearlyFilled, PopulateSucceeds,
                    Pending, call, cursor, Occupancy
<1>6. QED
  BY <1>3, <1>4, <1>5 DEF IInv

(***************************************************************************)
(* What does not change after indexing stays true of the index.            *)
(***************************************************************************)
LEMMA IndexKept ==
    ASSUME IInv, UNCHANGED <<cut, blocks, corrupt, index>>, pc # "index",
           pc' \in {"idle", "copy", "crashed"}, pc \in {"idle", "copy"}
    PROVE  Indexed'
BY DEF IInv, Indexed, LastEnd, InBlock, index

LEMMA CallStep ==
    ASSUME IInv, NEW s \in 0 .. size - 1, NEW e \in 1 .. size, s < e, Call(s, e)
    PROVE  IInv'
<1>1. /\ pc = "idle" /\ pc' \in {"copy", "idle"} /\ start' = s /\ end' = e
      /\ target' = [i \in 0 .. e - s - 1 |-> NotFilled]
      /\ offset_in_target' = 0 /\ left' = e - s
      /\ UNCHANGED <<cut, blocks, corrupt, index>>
  BY DEF Call, Return
<1>2. /\ s \in Nat /\ e \in Nat /\ size \in Nat /\ size = LastEnd + 1
      /\ blocks \in Nat /\ indexed \in Nat /\ indexed <= blocks
      /\ indexed' = indexed /\ size' = size /\ dstart' = dstart /\ dend' = dend
  BY <1>1, CutFacts DEF IInv, TypeOK, Indexed, index
<1>3. Indexed'
  BY <1>1, IndexKept
<1>4. ContiguousRun'
  BY <1>1, <1>2 DEF ContiguousRun
<1>5. CASE \A b \in Block : ~InBlock(b, s)
  <2>1. /\ result' = 1 /\ pc' = "idle"
        /\ UNCHANGED <<block_index, first, bytes_to_skip>>
    BY <1>5 DEF Call, Return
  <2>2. indexed = 0
    <3>1. SUFFICES ASSUME indexed > 0 PROVE FALSE
      BY <1>2
    <3>2. LastEnd \in Int
      BY <1>2, CutFacts, <3>1 DEF LastEnd, IInv, Block
    <3>3. PICK b \in 0 .. indexed - 1 : InBlock(b, s)
      BY <1>2, <3>1, <3>2 DEF IInv, Indexed
    <3>4. QED
      BY <1>2, <1>5, <3>3 DEF Block
  <2>3. TypeOK'
    <3>1. Block' = Block
      BY <1>1 DEF Block
    <3>2. target' \in [0 .. end' - start' - 1 -> Nat \cup {NotFilled}]
      BY <1>1
    <3>3. left' \in Nat /\ offset_in_target' \in Nat
      BY <1>1, <1>2
    <3>4. QED
      BY <1>1, <1>2, <2>1, <3>1, <3>2, <3>3 DEF IInv, TypeOK, index
  <2>4. Copying' /\ NearlyFilled' /\ PopulateSucceeds'
    BY <1>1, <1>2, <2>1, <2>2 DEF Copying, NearlyFilled, PopulateSucceeds
  <2>5. QED
    BY <1>3, <1>4, <2>3, <2>4 DEF IInv
<1>6. CASE \E b \in Block : InBlock(b, s)
  <2>1. PICK b \in Block :
           /\ InBlock(b, s)
           /\ \A c \in Block : c < b => ~InBlock(c, s)
           /\ block_index' = b /\ first' = b
           /\ bytes_to_skip' = s - dstart[b] /\ pc' = "copy" /\ UNCHANGED result
    BY <1>6 DEF Call
  <2>2. b \in Nat /\ b < blocks /\ dstart[b] \in Nat /\ dend[b] \in Nat
        /\ dstart[b] <= s /\ s <= dend[b]
    BY <2>1, <1>2, CutFacts DEF IInv, Block, InBlock
  <2>3. TypeOK'
    <3>1. block_index' \in 0 .. blocks' /\ first' \in Nat /\ bytes_to_skip' \in Nat
      BY <1>1, <1>2, <2>1, <2>2
    <3>2. target' \in [0 .. end' - start' - 1 -> Nat \cup {NotFilled}]
      BY <1>1
    <3>3. left' \in Nat /\ offset_in_target' \in Nat
      BY <1>1, <1>2
    <3>4. QED
      BY <1>1, <1>2, <2>1, <3>1, <3>2, <3>3 DEF IInv, TypeOK, index, Block
  <2>4. ASSUME indexed > 0
        PROVE  b < indexed
    <3>1. LastEnd \in Int
      BY <1>2, CutFacts, <2>4 DEF LastEnd, IInv, Block
    <3>2. PICK c \in 0 .. indexed - 1 : InBlock(c, s)
      BY <1>2, <2>4, <3>1 DEF IInv, Indexed
    <3>3. ~(c < b)
      BY <1>2, <2>1, <3>2 DEF Block
    <3>4. QED
      BY <1>2, <2>2, <3>2, <3>3
  <2>5. Copying'
    <3>1. /\ block_index' \in Block' /\ cut[b] \in Nat /\ cut[b + 1] \in Nat
          /\ cut[b] <= cut[b + 1] /\ Occupancy(b) = cut[b + 1] - cut[b]
          /\ Occupancy(block_index)' = Occupancy(b)
      BY <1>1, <2>1, CutFacts DEF IInv, Block, Occupancy
    <3>2. ASSUME indexed > 0
          PROVE  /\ b < indexed /\ dstart[b] = cut[b] + b /\ dend[b] = cut[b + 1] + b
      <4>1. b \in 0 .. indexed - 1
        BY <1>2, <2>2, <2>4, <3>2
      <4>2. QED
        BY <1>2, <4>1 DEF IInv, Indexed
    <3>3. ASSUME indexed = 0
          PROVE  s = 0 /\ e = 1 /\ dstart[b] = 0
      BY <1>2, <2>2, <3>3 DEF LastEnd
    <3>4. bytes_to_skip' <= Occupancy(block_index)'
      BY <1>2, <2>1, <2>2, <3>1, <3>2, <3>3
    <3>5. indexed = 0 => /\ start' = 0 /\ end' = 1 /\ left' = 1 /\ bytes_to_skip' = 0
                         /\ first' = block_index' /\ InBlock(block_index, 0)'
      BY <1>1, <1>2, <2>1, <2>2, <3>3 DEF InBlock
    <3>6. indexed > 0 =>
             /\ first' <= block_index' /\ block_index' < indexed
             /\ start' < end' /\ end' <= size
             /\ dstart[block_index'] <= end' - 1
             /\ cut[block_index'] + bytes_to_skip' = start' - first' + offset_in_target'
      <4>1. s < e /\ e <= size /\ dstart[b] <= e - 1
        BY <1>2, <2>2
      <4>2. indexed > 0 => b < indexed /\ cut[b] + (s - dstart[b]) = s - b + 0
        BY <1>2, <2>2, <3>1, <3>2
      <4>3. /\ first' = b /\ block_index' = b /\ bytes_to_skip' = s - dstart[b] /\ b <= b
            /\ start' = s /\ end' = e /\ offset_in_target' = 0
        BY <1>1, <2>1, <2>2
      <4>4. QED
        BY <4>1, <4>2, <4>3
    <3>7. QED
      BY <1>1, <1>2, <3>1, <3>4, <3>5, <3>6 DEF Copying
  <2>6. NearlyFilled' /\ PopulateSucceeds'
    BY <1>1, <1>2, <2>1, <2>4 DEF IInv, NearlyFilled, PopulateSucceeds, Occupancy
  <2>7. QED
    BY <1>3, <1>4, <2>3, <2>5, <2>6 DEF IInv
<1>7. QED
  BY <1>5, <1>6

LEMMA UndecompressedStep == ASSUME IInv, Undecompressed PROVE IInv'
<1>1. /\ pc = "copy" /\ pc' = "idle" /\ result' = -1
      /\ block_index \in corrupt \/ Occupancy(block_index) <= 0
      /\ UNCHANGED <<cut, blocks, corrupt, index, call, cursor>>
  BY DEF Undecompressed, Return
<1>2. TypeOK'
  <2>1. Block' = Block
    BY <1>1 DEF Block
  <2>2. QED
    BY <1>1, <2>1 DEF IInv, TypeOK, index, call, cursor
<1>3. Indexed'
  BY <1>1, IndexKept
<1>4. Copying' /\ NearlyFilled'
  BY <1>1 DEF Copying, NearlyFilled
<1>5. ContiguousRun'
  BY <1>1 DEF IInv, ContiguousRun, index, call, cursor
<1>6. PopulateSucceeds'
  <2>1. SUFFICES ASSUME indexed > 0, \A b \in 0 .. indexed - 1 : Occupancy(b) > 0
                 PROVE  FALSE
    BY <1>1 DEF PopulateSucceeds, index, Occupancy
  <2>2. block_index \in 0 .. indexed - 1
    BY <1>1, <2>1, CutFacts DEF IInv, Copying, TypeOK
  <2>3. block_index \notin corrupt
    BY <2>2 DEF IInv, Indexed
  <2>4. Occupancy(block_index) > 0 /\ Occupancy(block_index) \in Int
    BY <2>1, <2>2, CutFacts DEF IInv, Block
  <2>5. QED
    BY <1>1, <2>3, <2>4
<1>7. QED
  BY <1>2, <1>3, <1>4, <1>5, <1>6 DEF IInv

LEMMA UnreadableStep == ASSUME IInv, Unreadable PROVE IInv'
<1>1. /\ pc \in {"index", "copy"} /\ pc' = "crashed"
      /\ UNCHANGED <<cut, blocks, corrupt, index, call, cursor, result>>
  BY DEF Unreadable
<1>2. TypeOK'
  <2>1. Block' = Block
    BY <1>1 DEF Block
  <2>2. QED
    BY <1>1, <2>1 DEF IInv, TypeOK, index, call, cursor
<1>3. Indexed'
  BY <1>1 DEF IInv, Indexed, LastEnd, InBlock, index, call, cursor
<1>4. Copying' /\ NearlyFilled'
  BY <1>1 DEF Copying, NearlyFilled
<1>5. ContiguousRun' /\ PopulateSucceeds'
  BY <1>1 DEF IInv, ContiguousRun, PopulateSucceeds, Occupancy, index, call, cursor
<1>6. QED
  BY <1>2, <1>3, <1>4, <1>5 DEF IInv

(***************************************************************************)
(* The copying loop at any block: what it can take is at most what is      *)
(* left, and takes all of the block unless the block has the last byte.    *)
(***************************************************************************)
LEMMA CopyFacts ==
    ASSUME IInv, CopyBlock
    PROVE  /\ pc = "copy" /\ block_index \in Nat /\ block_index \in Block
           /\ blocks \in Nat /\ indexed \in Nat /\ indexed <= blocks
           /\ offset_in_target \in Nat /\ left \in Nat /\ bytes_to_skip \in Nat
           /\ start \in Nat /\ end \in Nat /\ first \in Nat /\ size \in Nat
           /\ cut[block_index] \in Nat /\ cut[block_index + 1] \in Nat
           /\ Occupancy(block_index) = cut[block_index + 1] - cut[block_index]
           /\ bytes_to_skip <= Occupancy(block_index)
           /\ ElementsToCopy \in Nat /\ ElementsToCopy <= left
           /\ ElementsToCopy <= Occupancy(block_index) - bytes_to_skip
           /\ \/ ElementsToCopy = left
              \/ ElementsToCopy = Occupancy(block_index) - bytes_to_skip
<1>1. /\ pc = "copy" /\ block_index \in Nat
      /\ offset_in_target \in Nat /\ left \in Nat /\ bytes_to_skip \in Nat
      /\ start \in Nat /\ end \in Nat /\ first \in Nat /\ size \in Nat
  BY ConstantsAssumption DEF CopyBlock, IInv, TypeOK
<1>2. block_index \in Block /\ bytes_to_skip <= Occupancy(block_index)
  BY <1>1 DEF IInv, Copying
<1>3. /\ blocks \in Nat /\ indexed \in Nat /\ indexed <= blocks
      /\ cut[block_index] \in Nat /\ cut[block_index + 1] \in Nat
      /\ Occupancy(block_index) = cut[block_index + 1] - cut[block_index]
  BY <1>2, CutFacts DEF IInv
<1>4. QED
  BY <1>1, <1>2, <1>3 DEF ElementsToCopy

LEMMA CopyBlockStep == ASSUME IInv, CopyBlock PROVE IInv'
<1>1. /\ UNCHANGED <<cut, blocks, corrupt, index, call>>
      /\ offset_in_target' = offset_in_target + ElementsToCopy
      /\ left' = left - ElementsToCopy
      /\ bytes_to_skip' = 0
      /\ block_index \notin corrupt /\ Occupancy(block_index) > 0
      /\ pc' \in {"copy", "idle"}
  BY CopyFacts DEF CopyBlock, Return
<1>2. TypeOK'
  <2>1. Block' = Block /\ blocks' = blocks /\ start' = start /\ end' = end
    BY <1>1 DEF Block, call
  <2>2. offset_in_target' \in Nat /\ left' \in Nat /\ bytes_to_skip' \in Nat
    BY <1>1, CopyFacts
  <2>3. block_index' \in 0 .. blocks
    <3>1. block_index' \in {block_index, block_index + 1}
      BY DEF CopyBlock, NextBlock
    <3>2. QED
      BY <3>1, CopyFacts DEF Block
  <2>4. result' \in {Pending, -1, 0, 1}
    BY DEF CopyBlock, Return, IInv, TypeOK
  <2>5. target' \in [0 .. end - start - 1 -> Nat \cup {NotFilled}]
    <3>1. \A i \in 0 .. end - start - 1 :
             offset_in_target <= i => cut[block_index] + bytes_to_skip + (i - offset_in_target) \in Nat
      BY CopyFacts
    <3>2. target \in [0 .. end - start - 1 -> Nat \cup {NotFilled}]
      BY DEF IInv, TypeOK
    <3>3. QED
      BY <3>1, <3>2 DEF CopyBlock
  <2>6. QED
    BY <1>1, <2>1, <2>2, <2>3, <2>4, <2>5 DEF IInv, TypeOK, index, call
<1>3. Indexed'
  BY <1>1, CopyFacts, IndexKept
<1>4. indexed > 0 => /\ dstart[block_index] = cut[block_index] + block_index
                     /\ dend[block_index] = cut[block_index + 1] + block_index
                     /\ first <= block_index /\ block_index < indexed
                     /\ start < end /\ end <= size /\ size = LastEnd + 1
                     /\ dstart[block_index] <= end - 1
                     /\ cut[block_index] + bytes_to_skip = start - first + offset_in_target
                     /\ offset_in_target + left = end - start
  BY CopyFacts DEF IInv, Indexed, Copying, ContiguousRun
<1>5. ContiguousRun'
  <2>1. SUFFICES ASSUME indexed > 0
                 PROVE  /\ offset_in_target' + left' = end - start
                        /\ \A i \in 0 .. end - start - 1 :
                              target'[i] = IF i < offset_in_target' THEN start - first + i
                                                                    ELSE NotFilled
    BY <1>1 DEF ContiguousRun, index, call
  <2>2. offset_in_target' + left' = end - start
    BY <1>1, <1>4, <2>1, CopyFacts
  <2>3. ASSUME NEW i \in 0 .. end - start - 1
        PROVE  target'[i] = IF i < offset_in_target' THEN start - first + i ELSE NotFilled
    <3>1. target'[i] = IF offset_in_target <= i /\ i < offset_in_target + ElementsToCopy
                         THEN cut[block_index] + bytes_to_skip + (i - offset_in_target)
                         ELSE target[i]
      BY DEF CopyBlock
    <3>2. target[i] = IF i < offset_in_target THEN start - first + i ELSE NotFilled
      BY <2>1 DEF IInv, ContiguousRun
    <3>3. QED
      BY <1>1, <1>4, <2>1, <3>1, <3>2, CopyFacts
  <2>4. QED
    BY <2>2, <2>3
<1>6. CASE InBlock(block_index, end - 1)
  <2>1. result' = 0 /\ pc' = "idle" /\ block_index' = block_index
    BY <1>6 DEF CopyBlock, Return
  <2>2. Copying'
    BY <2>1 DEF Copying
  <2>3. NearlyFilled'
    <3>1. CASE indexed > 0
      BY <1>1, <1>4, <1>6, <2>1, <3>1, CopyFacts DEF NearlyFilled, InBlock, call
    <3>2. CASE indexed = 0
      <4>1. left' = 0
        <5>1. left = 1 /\ bytes_to_skip = 0
          BY <3>2, CopyFacts DEF IInv, Copying
        <5>2. QED
          BY <1>1, <5>1, CopyFacts
      <4>2. block_index' - first' + 1 = 1
        BY <1>1, <2>1, <3>2, CopyFacts DEF IInv, Copying, call
      <4>3. QED
        BY <4>1, <4>2 DEF NearlyFilled
    <3>3. QED
      BY <3>1, <3>2, CopyFacts
  <2>4. PopulateSucceeds'
    BY <2>1 DEF PopulateSucceeds
  <2>5. QED
    BY <1>2, <1>3, <1>5, <2>2, <2>3, <2>4 DEF IInv
<1>7. CASE ~InBlock(block_index, end - 1)
  <2>1. block_index' = block_index + 1
        /\ IF block_index + 1 < blocks THEN result' = result /\ pc' = pc
                                      ELSE result' = 1 /\ pc' = "idle"
    BY <1>7 DEF CopyBlock, NextBlock, Return
  <2>2. indexed > 0
    <3>1. SUFFICES ASSUME indexed = 0 PROVE FALSE
      BY CopyFacts
    <3>2. end - 1 = 0 /\ InBlock(block_index, 0)
      BY <3>1, CopyFacts DEF IInv, Copying
    <3>3. QED
      BY <1>7, <3>2
  <2>3. dend[block_index] < end - 1
    BY <1>4, <1>7, <2>2, CopyFacts DEF InBlock
  <2>4. block_index + 1 < indexed
    <3>1. SUFFICES ASSUME block_index = indexed - 1 PROVE FALSE
      BY <1>4, <2>2, CopyFacts
    <3>2. LastEnd = dend[block_index]
      BY <2>2, <3>1 DEF LastEnd
    <3>3. QED
      BY <1>4, <2>2, <2>3, <3>2, CopyFacts
  <2>5. result' = result /\ pc' = "copy"
    BY <2>1, <2>4, CopyFacts
  <2>6. ElementsToCopy = Occupancy(block_index) - bytes_to_skip
    BY <1>4, <2>2, <2>3, CopyFacts
  <2>7. Copying'
    <3>1. /\ block_index + 1 \in 0 .. indexed - 1 /\ block_index + 1 \in Block
          /\ block_index \in 0 .. indexed - 1 /\ block_index < block_index + 1
      BY <2>4, CopyFacts DEF Block
    <3>2. /\ cut[block_index + 1] \in Nat /\ cut[block_index + 2] \in Nat
          /\ cut[block_index + 1] <= cut[block_index + 2]
          /\ Occupancy(block_index + 1) = cut[block_index + 2] - cut[block_index + 1]
      <4>1. (block_index + 1) + 1 = block_index + 2
        BY CopyFacts
      <4>2. QED
        BY <3>1, <4>1, CutFacts DEF IInv
    <3>3. dstart[block_index + 1] = cut[block_index + 1] + (block_index + 1)
      BY <3>1 DEF IInv, Indexed
    <3>4. Occupancy(block_index)' = Occupancy(block_index + 1)
      BY <1>1, <2>1 DEF Occupancy
    <3>5. dstart[block_index + 1] <= end - 1
      BY <1>4, <2>2, <2>3, <3>3, CopyFacts
    <3>6. cut[block_index + 1] + 0 = start - first + (offset_in_target + ElementsToCopy)
      BY <1>4, <2>2, <2>6, CopyFacts
    <3>7. /\ Block' = Block /\ indexed' = indexed /\ dstart' = dstart /\ size' = size
          /\ start' = start /\ end' = end /\ first' = first /\ cut' = cut
      BY <1>1 DEF Block, index, call
    <3>8. bytes_to_skip' <= Occupancy(block_index)'
      BY <1>1, <3>2, <3>4
    <3>9. QED
      BY <1>1, <1>4, <2>1, <2>2, <2>4, <3>1, <3>5, <3>6, <3>7, <3>8, CopyFacts
      DEF Copying
  <2>8. NearlyFilled'
    BY <2>5 DEF NearlyFilled
  <2>9. PopulateSucceeds'
    BY <1>1, <2>1, <2>4, <2>5 DEF IInv, PopulateSucceeds, Occupancy, index
  <2>10. QED
    BY <1>2, <1>3, <1>5, <2>7, <2>8, <2>9 DEF IInv
<1>8. QED
  BY <1>6, <1>7

LEMMA NextInv == ASSUME IInv, [Next]_vars PROVE IInv'
<1>1. CASE UNCHANGED vars
  <2>1. Block' = Block /\ UNCHANGED <<cut, blocks, corrupt, index, call, cursor, result, pc>>
    BY <1>1 DEF vars, Block
  <2>2. TypeOK'
    BY <2>1 DEF IInv, TypeOK, index, call, cursor
  <2>3. Indexed'
    BY <2>1 DEF IInv, Indexed, LastEnd, InBlock, index, call, cursor
  <2>4. Copying'
    BY <2>1 DEF IInv, Copying, InBlock, Occupancy, index, call, cursor
  <2>5. ContiguousRun' /\ NearlyFilled' /\ PopulateSucceeds'
    BY <2>1 DEF IInv, ContiguousRun, NearlyFilled, PopulateSucceeds, Occupancy,
                index, call, cursor
  <2>6. QED
    BY <2>2, <2>3, <2>4, <2>5 DEF IInv
<1>2. QED
  BY <1>1, IndexBlockStep, IndexDoneStep, CallStep, UndecompressedStep, CopyBlockStep,
     UnreadableStep
  DEF Next, Populating, Crashed

(* IInv holds through indexing and every call. *)
THEOREM Invariance == Spec => []IInv
<1>1. Init => IInv
  BY InitInv
<1>2. IInv /\ [Next]_vars => IInv'
  BY NextInv
<1>3. QED
  BY <1>1, <1>2, PTL DEF Spec

(* Type correctness: in particular no size_t of BZip2_populate wraps. *)
THEOREM TypeCorrect == Spec => []TypeOK
<1>1. IInv => TypeOK
  BY DEF IInv
<1>2. QED
  BY <1>1, Invariance, PTL

(***************************************************************************)
(* The index covers the object: every position is in exactly one block.    *)
(* And the object ends before the first block that does not decompress.    *)
(***************************************************************************)
THEOREM IndexCorrect == Spec => []IndexCovers
<1>1. IInv => EveryPositionOnce
  <2>1. SUFFICES ASSUME IInv, indexed > 0, NEW x \in 0 .. size - 1
                 PROVE  \E b \in 0 .. indexed - 1 :
                           InBlock(b, x) /\ \A c \in 0 .. indexed - 1 : InBlock(c, x) => c = b
    BY DEF EveryPositionOnce
  <2>2. /\ indexed \in Nat /\ size \in Nat /\ size <= LastEnd + 1
        /\ \A b \in 0 .. indexed - 1 : b \in Block /\ dstart[b] \in Nat /\ dend[b] \in Nat
    <3>1. TypeOK /\ size <= LastEnd + 1 /\ size \in Nat
      BY <2>1 DEF IInv, Indexed, TypeOK
    <3>2. blocks \in Nat /\ indexed \in Nat /\ indexed <= blocks
      BY <3>1, CutFacts
    <3>3. \A b \in 0 .. indexed - 1 : b \in Block
      BY <3>2 DEF Block
    <3>4. \A b \in Block : dstart[b] \in Nat /\ dend[b] \in Nat
      BY <3>1, CutFacts
    <3>5. QED
      BY <3>1, <3>2, <3>3, <3>4
  <2>3. LastEnd \in Nat
    BY <2>1, <2>2 DEF LastEnd
  <2>4. PICK b \in 0 .. indexed - 1 : InBlock(b, x)
    BY <2>1, <2>2, <2>3 DEF IInv, Indexed
  <2>5. ASSUME NEW c \in 0 .. indexed - 1, InBlock(c, x)
        PROVE  c = b
    <3>1. ~(b < c)
      BY <2>1, <2>2, <2>4, <2>5, Disjoint DEF IInv, InBlock
    <3>2. ~(c < b)
      BY <2>1, <2>2, <2>4, <2>5, Disjoint DEF IInv, InBlock
    <3>3. QED
      BY <2>2, <3>1, <3>2
  <2>6. QED
    BY <2>4, <2>5
<1>2. IInv => EndsAtCorrupt
  <2>1. SUFFICES ASSUME IInv, pc \in {"idle", "copy"}
                 PROVE  /\ \A b \in Block : b < indexed <=> \A c \in 0 .. b : c \notin corrupt
                        /\ size = cut[indexed] + (IF indexed = 0 THEN 1 ELSE indexed)
    BY DEF EndsAtCorrupt
  <2>2. blocks \in Nat /\ indexed \in 0 .. blocks /\ cut \in [0 .. blocks -> Nat]
    BY <2>1, CutFacts DEF IInv, TypeOK
  <2>3. cut[0] = 0
    BY <2>1, FilesAssumption DEF IInv, TypeOK, IsFile
  <2>4. /\ \A b \in 0 .. indexed - 1 : b \notin corrupt /\ dend[b] = cut[b + 1] + b
        /\ size = LastEnd + 1
        /\ indexed = blocks \/ indexed \in corrupt
    BY <2>1 DEF IInv, Indexed
  <2>5. ASSUME NEW b \in Block
        PROVE  b < indexed <=> \A c \in 0 .. b : c \notin corrupt
    BY <2>2, <2>4 DEF Block
  <2>6. size = cut[indexed] + (IF indexed = 0 THEN 1 ELSE indexed)
    <3>1. CASE indexed = 0
      BY <2>3, <2>4, <3>1 DEF LastEnd
    <3>2. CASE indexed # 0
      <4>1. dend[indexed - 1] = cut[indexed] + indexed - 1
        BY <2>2, <2>4, <3>2
      <4>2. cut[indexed] \in Nat
        BY <2>2
      <4>3. QED
        BY <2>2, <2>4, <3>2, <4>1, <4>2 DEF LastEnd
    <3>3. QED
      BY <3>1, <3>2
  <2>7. QED
    BY <2>5, <2>6
<1>3. QED
  BY <1>1, <1>2, Invariance, PTL DEF IndexCovers

(* The assert of the copying loop never fails. *)
THEOREM SkipCorrect == Spec => []SkipWithinBlock
<1>1. IInv => SkipWithinBlock
  BY DEF IInv, Copying, SkipWithinBlock
<1>2. QED
  BY <1>1, Invariance, PTL

(***************************************************************************)
(* What a call leaves in the buffer: a contiguous run of the file, shifted *)
(* by the blocks before it.                                                *)
(***************************************************************************)
THEOREM RunCorrect == Spec => []ContiguousRun
<1>1. IInv => ContiguousRun
  BY DEF IInv
<1>2. QED
  BY <1>1, Invariance, PTL

(***************************************************************************)
(* A call succeeds for every range of an object all of whose indexed       *)
(* blocks hold something, and is then short of the request by at most one  *)
(* byte for each block touched.                                            *)
(***************************************************************************)
THEOREM PopulateCorrect == Spec => []CallsSucceed
<1>1. IInv => CallsSucceed
  BY DEF IInv, CallsSucceed
<1>2. QED
  BY <1>1, Invariance, PTL
=============================================================================
