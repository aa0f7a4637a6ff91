----------------------------- MODULE BZipBlock -----------------------------
(***************************************************************************)
(* Block_from (src/bzip.c): cuts one compressed block out of a file at bit *)
(* granularity and makes a bzip2 stream of its own of it: the header of    *)
(* the file, the block, a footer and the block's CRC.                      *)
(*                                                                         *)
(* The model moves every bit the code moves, but a bit is its origin, not  *)
(* its value: a position of the file, a bit of the footer magic, or a zero *)
(* of a fresh buffer.  What ends up where is then plain to see.  Sequences *)
(* of bits are written from the most significant bit on.                   *)
(***************************************************************************)
EXTENDS Integers, Sequences

CONSTANT Jobs  \* the calls: [header, from, to, bytes]

(***************************************************************************)
(* A call of Block_from: header is start_offset[0], from and to (included) *)
(* are the block's offsets in bits, and bytes is the size of the file now, *)
(* which may be less than it was when the offsets were found.              *)
(***************************************************************************)
IsJob(j) ==
    /\ j.header \in Nat /\ j.from \in Nat /\ j.to \in Nat /\ j.bytes \in Nat
    /\ j.header <= j.from /\ j.from + 130 <= j.to

ASSUME JobsAssumption == \A j \in Jobs : IsJob(j)

VARIABLES
    job,
    handle,      \* the position of the FILE, in bytes
    live,        \* buffer_live: the bits of the last byte still to be handed out
    read_bits,   \* the stream's count of bits, the failed read included
    register,    \* shift_register: senior, then junior
    buffer,      \* the bits of the result
    read_bytes,  \* where the next byte goes in it
    block_crc,
    bit_buffer,  \* the bits of the unaligned end
    current_byte, current_bit,
    overflow,    \* something was written past the end of buffer or bit_buffer
    pc

stream == <<handle, live, read_bits, register>>
bitbuf == <<bit_buffer, current_byte, current_bit>>
vars == <<job, stream, buffer, read_bytes, block_crc, bitbuf, overflow, pc>>

Bit(p) == <<"file", p>>
FooterBit(i) == <<"footer", i>>
Zero == <<"zero", 0>>
EofBit == <<"minus one", 0>>  \* of the uint32_t a failed read returns
Merged == <<"merged", 0>>     \* two bits or-ed into one place

Footer == [i \in 1 .. 48 |-> FooterBit(i)]
Zeros(n) == [i \in 1 .. n |-> Zero]

Payload == job.to - job.from + 1

(* Mutant of BufferBytes: the block's own header is forgotten. *)
BufferBytes_NoBlockHeader == (32 + Payload + 80 + 7) \div 8

(* buffer_size_in_bytes: header, block header, contents, footer, aligned. *)
BufferBytes == (32 + 105 + Payload + 80 + 7) \div 8

(* Mutant of MaxBytes: a CRC of two bytes. *)
MaxBytes_ShortCrc == 1 + 6 + 2

MaxBytes == 1 + 6 + 4  \* bit_buffer->max_bytes

Init ==
    /\ job \in Jobs
    /\ handle = 0 /\ live = 0 /\ read_bits = 0
    /\ register = Zeros(64)
    /\ buffer = Zeros(8 * BufferBytes)
    /\ read_bytes = 0
    /\ block_crc = Zeros(32)
    /\ bit_buffer = Zeros(8 * MaxBytes)
    /\ current_byte = 0 /\ current_bit = 0
    /\ overflow = FALSE
    /\ pc = "open"

-----------------------------------------------------------------------------
(***************************************************************************)
(* FileBitStream_read_bit, n times, as read_byte and read_uint32 do: each  *)
(* read counts, takes the next bit of the byte at hand or fetches another  *)
(* byte, and shifts the bit into the register.  The first read at the end  *)
(* of the file, which counts too, ends it.                                 *)
(***************************************************************************)
SmallerOf(a, b) == IF a < b THEN a ELSE b

Stream == [handle |-> handle, live |-> live, read_bits |-> read_bits,
           register |-> register, ok |-> TRUE]

ReadBits(s, n) ==
    LET at   == 8 * s.handle - s.live
        rest == IF at < 8 * job.bytes THEN 8 * job.bytes - at ELSE 0
        got  == SmallerOf(n, rest)
        used == IF got > s.live THEN (got - s.live + 7) \div 8 ELSE 0
        bits == [i \in 1 .. got |-> Bit(at + i - 1)]
    IN  [handle |-> s.handle + used,
         live |-> 8 * used + s.live - got,
         read_bits |-> s.read_bits + SmallerOf(n, got + 1),
         register |-> SubSeq(s.register \o bits, got + 1, got + 64),
         ok |-> got = n]

SetStream(s) ==
    /\ handle' = s.handle /\ live' = s.live
    /\ read_bits' = s.read_bits /\ register' = s.register

(* Mutant of JuniorByte: the other end of the junior half. *)
JuniorByte_Senior(s) == SubSeq(s.register, 33, 40)

(* The value of ShiftRegister_junior_byte, and of the junior half. *)
JuniorByte(s) == SubSeq(s.register, 57, 64)
Junior(s) == SubSeq(s.register, 33, 64)

(***************************************************************************)
(* One fread of a uint32_t: the bytes land in memory order, so on a little *)
(* endian machine the first one is the least significant.  Bytes past the  *)
(* end of the file leave the old ones in place.                            *)
(***************************************************************************)
LoadWord(at, old) ==
    [i \in 1 .. 32 |->
        LET b == at + 3 - ((i - 1) \div 8)
        IN  IF b < job.bytes THEN Bit(8 * b + ((i - 1) % 8)) ELSE old[i]]

(* The stream's count of bits when it stands at a byte. *)
CountedAt(byte) == 8 * byte

(***************************************************************************)
(* FileBitStream_seek_bit: goes 8 bytes before the target, loads them into *)
(* the register, and reads on to the bit.  The fseek to a negative offset  *)
(* fails, which the code does not notice, and nothing moves.               *)
(***************************************************************************)
SeekBit(s, offset) ==
    LET target == offset \div 8
        at     == IF target >= 8 THEN target - 8 ELSE s.handle
        old    == s.register
        loaded == LoadWord(at, SubSeq(old, 1, 32)) \o LoadWord(at + 4, SubSeq(old, 33, 64))
        landed == IF at > job.bytes THEN at ELSE SmallerOf(at + 8, job.bytes)
    IN  ReadBits([s EXCEPT !.handle = landed, !.live = 0,
                           !.register = loaded, !.read_bits = CountedAt(target)],
                 offset % 8)

-----------------------------------------------------------------------------
Fail == pc' = "null" /\ UNCHANGED <<buffer, read_bytes, block_crc, bitbuf, overflow>>

(* buffer[read_bytes] = byte, for one byte or more. *)
Store(bits) ==
    /\ buffer' = [i \in 1 .. Len(buffer) |->
                    IF i > 8 * read_bytes /\ i <= 8 * read_bytes + Len(bits)
                      THEN bits[i - 8 * read_bytes] ELSE buffer[i]]
    /\ overflow' = (overflow \/ 8 * read_bytes + Len(bits) > Len(buffer))
    /\ read_bytes' = read_bytes + Len(bits) \div 8

(* The assert on the first offset, and opening the file, which may fail. *)
Open ==
    /\ pc = "open"
    /\ IF job.header % 8 # 0 THEN pc' = "abort" ELSE pc' \in {"header", "null"}
    /\ UNCHANGED <<job, stream, buffer, read_bytes, block_crc, bitbuf, overflow>>

(* Mutant of CopyByte: a failed read is tried again, and again. *)
CopyByte_Retried ==
    LET s == ReadBits(Stream, 8)
    IN  s.ok /\ SetStream(s) /\ Store(JuniorByte(s)) /\ UNCHANGED <<block_crc, bitbuf, pc>>

(* The loop bodies that copy a byte of the file. *)
CopyByte ==
    LET s == ReadBits(Stream, 8)
    IN  /\ SetStream(s)
        /\ IF s.ok THEN Store(JuniorByte(s)) /\ UNCHANGED <<block_crc, bitbuf, pc>>
                   ELSE Fail

HeaderByte == pc = "header" /\ read_bits < job.header /\ CopyByte /\ UNCHANGED job

(* Everything before the first block is copied: on to this one. *)
Seek ==
    /\ pc = "header"
    /\ read_bits >= job.header
    /\ LET s == SeekBit(Stream, job.from)
       IN  /\ SetStream(s)
           /\ pc' = IF s.ok THEN "crc" ELSE "null"
    /\ UNCHANGED <<job, buffer, read_bytes, block_crc, bitbuf, overflow>>

(***************************************************************************)
(* The CRC behind the block magic.  A failed read cannot be told from a    *)
(* value: the unsigned result is never negative, and the call goes on.     *)
(***************************************************************************)
ReadCrc ==
    /\ pc = "crc"
    /\ LET s   == ReadBits(Stream, 32)
           crc == IF s.ok THEN Junior(s) ELSE [i \in 1 .. 32 |-> EofBit]
       IN  /\ SetStream(s)
           /\ block_crc' = crc
           /\ Store(crc)
    /\ pc' = "payload"
    /\ UNCHANGED <<job, bitbuf>>

(* block_end_byte_aligned_offset_in_bits, remaining_byte_unaligned_bits *)
AlignedEnd == job.from + 8 * (Payload \div 8)

(* Mutant of UnalignedBits: the end offset is taken as exclusive. *)
UnalignedBits_Exclusive == (job.to - job.from) % 8

UnalignedBits == Payload % 8

PayloadByte == pc = "payload" /\ read_bits < AlignedEnd /\ CopyByte /\ UNCHANGED job

PayloadDone ==
    /\ pc = "payload"
    /\ read_bits >= AlignedEnd
    /\ pc' = "tail"
    /\ UNCHANGED <<job, stream, buffer, read_bytes, block_crc, bitbuf, overflow>>

(***************************************************************************)
(* BitBuffer_append_bit, for each of the bits.  The overflow test compares *)
(* the wrong counter, so that it can only fail for a tiny buffer.          *)
(***************************************************************************)
BitBuf == [data |-> bit_buffer, cbyte |-> current_byte, cbit |-> current_bit,
           past |-> FALSE, ok |-> TRUE]

AppendBits(b, bits) ==
    LET at  == 8 * b.cbyte + b.cbit
        end == at + Len(bits)
    IN  [data |-> [i \in 1 .. Len(b.data) |->
                     IF i <= at \/ i > end THEN b.data[i]
                     ELSE IF b.data[i] = Zero THEN bits[i - at] ELSE Merged],
         cbyte |-> end \div 8,
         cbit |-> end % 8,
         past |-> b.past \/ end > Len(b.data),
         ok |-> end \div 8 = b.cbyte \/ 7 < MaxBytes]

SetBitBuf(b) ==
    /\ bit_buffer' = b.data /\ current_byte' = b.cbyte /\ current_bit' = b.cbit
    /\ overflow' = (overflow \/ b.past)

(* The bits after the last whole byte of the block, one at a time. *)
TailBit ==
    /\ pc = "tail"
    /\ current_bit < UnalignedBits
    /\ LET s == ReadBits(Stream, 1)
           b == AppendBits(BitBuf, SubSeq(s.register, 64, 64))
       IN  /\ SetStream(s)
           /\ IF s.ok /\ b.ok
                THEN SetBitBuf(b) /\ UNCHANGED <<buffer, read_bytes, block_crc, pc>>
                ELSE Fail
    /\ UNCHANGED job

(* The footer magic and the stream CRC, which is that of the one block. *)
AppendFooter ==
    /\ pc = "tail"
    /\ current_bit >= UnalignedBits
    /\ LET b == AppendBits(BitBuf, Footer \o block_crc)
       IN  IF b.ok
             THEN /\ SetBitBuf(b) /\ pc' = "flush"
                  /\ UNCHANGED <<buffer, read_bytes, block_crc>>
             ELSE Fail
    /\ UNCHANGED <<job, stream>>

(* The whole bit buffer goes behind the bytes copied so far. *)
Flush ==
    /\ pc = "flush"
    /\ Store(bit_buffer)
    /\ pc' = "done"
    /\ UNCHANGED <<job, stream, block_crc, bitbuf>>

Returned == pc \in {"done", "null", "abort"} /\ UNCHANGED vars

Work == Open \/ HeaderByte \/ Seek \/ ReadCrc \/ PayloadByte \/ PayloadDone
          \/ TailBit \/ AppendFooter \/ Flush

Next == Work \/ Returned

Spec == Init /\ [][Next]_vars /\ WF_vars(Work)

-----------------------------------------------------------------------------
FileBits(from, to) == [i \in 1 .. to - from + 1 |-> Bit(from + i - 1)]

(* The bits of the file the block needs are still there. *)
Readable == job.to < 8 * job.bytes

(***************************************************************************)
(* Seeking to the block is possible: it is not in the first 64 bits of the *)
(* file, as that of a file without a stream header may be.                 *)
(***************************************************************************)
Seekable == job.from >= 64

BitTags == {"file", "footer", "zero", "minus one", "merged"}

(* Every variable holds a value of its C type and phase. *)
TypeOK ==
    /\ job \in Jobs
    /\ handle \in Nat /\ live \in 0 .. 7 /\ read_bits \in Nat
    /\ Len(register) = 64
    /\ Len(buffer) = 8 * BufferBytes
    /\ \A i \in DOMAIN buffer : buffer[i][1] \in BitTags
    /\ read_bytes \in Nat
    /\ Len(block_crc) = 32
    /\ Len(bit_buffer) = 8 * MaxBytes /\ current_byte \in 0 .. MaxBytes
    /\ current_bit \in 0 .. 7
    /\ overflow \in BOOLEAN
    /\ pc \in {"open", "header", "crc", "payload", "tail", "flush", "done", "null", "abort"}

(***************************************************************************)
(* The stream's own count of bits is where the file really is, after the   *)
(* seek too, which counts the bits it jumps over as read.                  *)
(***************************************************************************)
CursorAgrees ==
    pc \in {"header", "crc", "payload", "tail"} /\ Readable /\ Seekable =>
        read_bits = 8 * handle - live

(***************************************************************************)
(* At every step of the copy the result holds the header and, without a    *)
(* gap or a repetition, the block's bits up to the reading position: the   *)
(* byte-swapped register that seeking leaves behind is never used.         *)
(***************************************************************************)
PrefixCopied ==
    pc = "payload" /\ Readable /\ Seekable =>
        SubSeq(buffer, 1, 8 * read_bytes) =
            FileBits(0, job.header - 1) \o FileBits(job.from, read_bits - 1)

(* Reading and writing go on side by side: the two together. *)
CopiedInOrder == CursorAgrees /\ PrefixCopied

(***************************************************************************)
(* The result is one well-formed stream: header, block, footer, the CRC of *)
(* the block as that of the stream, and zeros up to the next byte.  Only a *)
(* file that cannot be opened, or that lost the block, gives NULL instead. *)
(***************************************************************************)
ResultIsStream ==
    Seekable =>
        /\ pc = "null" => read_bits = 0 \/ ~Readable
        /\ pc = "done" =>
              LET parts == FileBits(0, job.header - 1) \o FileBits(job.from, job.to)
                             \o Footer \o FileBits(job.from, job.from + 31)
              IN  /\ Readable
                  /\ SubSeq(buffer, 1, Len(parts)) = parts
                  /\ \A i \in Len(parts) + 1 .. Len(buffer) : buffer[i] = Zero

(***************************************************************************)
(* The result fits the buffer sized for it "through the power of           *)
(* arithmetic" (bzip.c:584): a stream header, the block and a footer.      *)
(***************************************************************************)
FitsBuffer ==
    /\ ~overflow
    /\ pc = "done" => read_bytes <= BufferBytes

(* Every call returns. *)
Returns == <>(pc \in {"done", "null", "abort"})
=============================================================================
