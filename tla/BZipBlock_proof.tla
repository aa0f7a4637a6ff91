--------------------------- MODULE BZipBlock_proof ---------------------------
(***************************************************************************)
(* Proofs about cutting out a block, wherever it starts and ends, from a   *)
(* file of whatever size.                                                  *)
(***************************************************************************)
EXTENDS BZipBlock, SequenceTheorems, TLAPS

AnyBit == BitTags \X Int

(* Sequences of so many bits. *)
BitSeq(n) == {s \in Seq(AnyBit) : Len(s) = n}

LEMMA BitSeqFacts ==
    ASSUME NEW n \in Nat, NEW s \in BitSeq(n)
    PROVE  s \in Seq(AnyBit) /\ Len(s) = n /\ \A i \in 1 .. n : s[i] \in AnyBit
<1>1. s \in Seq(AnyBit) /\ Len(s) = n
  BY DEF BitSeq
<1> QED BY <1>1

LEMMA BitSeqFromFunction ==
    ASSUME NEW n \in Nat, NEW s \in [1 .. n -> AnyBit]
    PROVE  s \in BitSeq(n)
  BY DEF BitSeq

LEMMA BitSeqJoin ==
    ASSUME NEW m \in Nat, NEW n \in Nat, NEW s \in BitSeq(m), NEW t \in BitSeq(n)
    PROVE  /\ s \o t \in BitSeq(m + n)
           /\ \A i \in 1 .. m + n : (s \o t)[i] = IF i <= m THEN s[i] ELSE t[i - m]
<1>1. s \in Seq(AnyBit) /\ Len(s) = m /\ t \in Seq(AnyBit) /\ Len(t) = n
  BY BitSeqFacts
<1>2. /\ s \o t \in Seq(AnyBit) /\ Len(s \o t) = Len(s) + Len(t)
      /\ \A i \in 1 .. Len(s) + Len(t) : (s \o t)[i] = IF i <= Len(s) THEN s[i] ELSE t[i - Len(s)]
  BY <1>1, ConcatProperties, Zenon
<1> QED BY <1>1, <1>2 DEF BitSeq

LEMMA BitSeqPart ==
    ASSUME NEW r \in BitSeq(64), NEW m \in 0 .. 63
    PROVE  /\ SubSeq(r, m + 1, 64) \in BitSeq(64 - m)
           /\ \A i \in 1 .. 64 - m : SubSeq(r, m + 1, 64)[i] = r[m + i]
<1> DEFINE part == SubSeq(r, m + 1, 64)
<1>1. r \in Seq(AnyBit) /\ Len(r) = 64
  BY BitSeqFacts
<1>2. part \in Seq(AnyBit) /\ Len(part) = 64 - m
  <2>1. m + 1 \in 1 .. 64 /\ 64 - (m + 1) + 1 = 64 - m
    OBVIOUS
  <2>2. part \in Seq(AnyBit)
    <3>1. ASSUME NEW i \in m + 1 .. 64 PROVE r[i] \in AnyBit
      <4>1. i \in 1 .. 64
        OBVIOUS
      <4> QED BY <4>1, BitSeqFacts
    <3> QED BY <3>1, SubSeqProperties
  <2>3. Len(part) = 64 - m
    BY <1>1, <2>1
  <2> QED BY <2>2, <2>3
<1>3. ASSUME NEW i \in 1 .. 64 - m PROVE part[i] = r[m + i]
  BY <1>1
<1> HIDE DEF part
<1>4. part \in BitSeq(64 - m)
  BY <1>2 DEF BitSeq
<1> QED BY <1>3, <1>4 DEF part

LEMMA FileBitsAreBits == ASSUME NEW p \in Int PROVE Bit(p) \in AnyBit
  BY DEF Bit, AnyBit, BitTags

LEMMA OtherBits ==
    /\ Zero \in AnyBit /\ EofBit \in AnyBit /\ Merged \in AnyBit
    /\ \A i \in Int : FooterBit(i) \in AnyBit
<1>1. Zero \in AnyBit /\ EofBit \in AnyBit /\ Merged \in AnyBit
  <2>1. \A t \in BitTags : <<t, 0>> \in AnyBit
    BY DEF AnyBit
  <2>2. "zero" \in BitTags /\ "minus one" \in BitTags /\ "merged" \in BitTags
    BY DEF BitTags
  <2> QED BY <2>1, <2>2 DEF Zero, EofBit, Merged
<1>2. ASSUME NEW i \in Int PROVE FooterBit(i) \in AnyBit
  BY DEF FooterBit, AnyBit, BitTags
<1> QED BY <1>1, <1>2

LEMMA FooterIsBits == Footer \in BitSeq(48) /\ \A i \in 1 .. 48 : Footer[i] = FooterBit(i)
  BY OtherBits DEF Footer, BitSeq

LEMMA ZerosAreBits ==
    ASSUME NEW n \in Nat
    PROVE  Zeros(n) \in BitSeq(n) /\ \A i \in 1 .. n : Zeros(n)[i] = Zero
  BY OtherBits DEF Zeros, BitSeq

LEMMA Eighths ==
    ASSUME NEW n \in Nat
    PROVE  n \div 8 \in Nat /\ n % 8 \in 0 .. 7 /\ n = 8 * (n \div 8) + (n % 8)
<1>1. n \div 8 \in Nat
  BY SMT
<1>2. n % 8 \in 0 .. 7
  BY SMT
<1>3. n = 8 * (n \div 8) + (n % 8)
  BY SMT
<1> QED BY <1>1, <1>2, <1>3

LEMMA JobFacts ==
    ASSUME NEW j \in Jobs
    PROVE  /\ j.header \in Nat /\ j.from \in Nat /\ j.to \in Nat /\ j.bytes \in Nat
           /\ j.header <= j.from /\ j.from + 130 <= j.to
  BY JobsAssumption DEF IsJob

(* Where the whole bytes of the block end, and the room there is for them. *)
LEMMA Shape ==
    ASSUME job \in Jobs
    PROVE  /\ AlignedEnd \in Nat /\ UnalignedBits \in 0 .. 7 /\ BufferBytes \in Nat
           /\ AlignedEnd + UnalignedBits = job.to + 1
           /\ (AlignedEnd - job.from) % 8 = 0
           /\ AlignedEnd >= job.from + 120
           /\ 8 * BufferBytes = 224 + (AlignedEnd - job.from)
<1> DEFINE p == job.to - job.from + 1
<1>1. p \in Nat /\ p >= 131 /\ job.from \in Nat /\ job.to = job.from + p - 1
  BY JobFacts
<1>2. Payload = p
  BY DEF Payload
<1> HIDE DEF p
<1>3. p \div 8 \in Nat /\ p % 8 \in 0 .. 7 /\ p = 8 * (p \div 8) + (p % 8)
  BY <1>1, Eighths
<1>4. BufferBytes = 28 + p \div 8
  BY <1>1, <1>2 DEF BufferBytes
<1> QED BY <1>1, <1>2, <1>3, <1>4 DEF AlignedEnd, UnalignedBits

-----------------------------------------------------------------------------
(* Where the stream stands, and what is left of the file from there. *)
Pos == 8 * handle - live
Rest == IF Pos < 8 * job.bytes THEN 8 * job.bytes - Pos ELSE 0

StreamOK ==
    /\ handle \in Nat /\ live \in 0 .. 7 /\ live <= 8 * handle
    /\ read_bits \in Nat
    /\ register \in BitSeq(64)

(* The same of a stream that is not in the variables. *)
IsStream(s) ==
    /\ s.handle \in Nat /\ s.live \in 0 .. 7 /\ s.live <= 8 * s.handle
    /\ s.read_bits \in Nat
    /\ s.register \in BitSeq(64)
PosOf(s) == 8 * s.handle - s.live
RestOf(s) == IF PosOf(s) < 8 * job.bytes THEN 8 * job.bytes - PosOf(s) ELSE 0
Got(s, n) == SmallerOf(n, RestOf(s))

(***************************************************************************)
(* Reading moves on by the bits there are, counts a failure as one, and    *)
(* leaves what it read at the end of the register.                         *)
(***************************************************************************)
LEMMA Reading ==
    ASSUME NEW s, IsStream(s), NEW n \in 0 .. 64, job.bytes \in Nat
    PROVE  /\ IsStream(ReadBits(s, n))
           /\ Got(s, n) \in 0 .. n /\ PosOf(s) \in Nat
           /\ PosOf(ReadBits(s, n)) = PosOf(s) + Got(s, n)
           /\ ReadBits(s, n).read_bits = s.read_bits + SmallerOf(n, Got(s, n) + 1)
           /\ ReadBits(s, n).ok <=> Got(s, n) = n
           /\ Got(s, n) = n => \A i \in 1 .. n :
                 ReadBits(s, n).register[64 - n + i] = Bit(PosOf(s) + i - 1)
<1> DEFINE at == PosOf(s)
           got == Got(s, n)
           used == IF got > s.live THEN (got - s.live + 7) \div 8 ELSE 0
           bits == [i \in 1 .. got |-> Bit(at + i - 1)]
           joined == s.register \o bits
           register2 == SubSeq(joined, got + 1, got + 64)
<1>1. at \in Nat /\ got \in 0 .. n /\ s.live \in 0 .. 7 /\ s.handle \in Nat /\ s.read_bits \in Nat
  BY DEF IsStream, PosOf, Got, RestOf, SmallerOf
<1>2. ReadBits(s, n) = [handle |-> s.handle + used,
                        live |-> 8 * used + s.live - got,
                        read_bits |-> s.read_bits + SmallerOf(n, got + 1),
                        register |-> register2,
                        ok |-> got = n]
  BY DEF ReadBits, Got, RestOf, PosOf
<1> HIDE DEF at, got
<1>3. bits \in Seq(AnyBit) /\ Len(bits) = got /\ \A i \in 1 .. got : bits[i] = Bit(at + i - 1)
  <2>1. \A i \in 1 .. got : Bit(at + i - 1) \in AnyBit
    BY <1>1, FileBitsAreBits
  <2> QED BY <1>1, <2>1
<1> HIDE DEF bits
<1>4. /\ joined \in Seq(AnyBit) /\ Len(joined) = 64 + got
      /\ \A i \in 1 .. got : joined[64 + i] = bits[i]
  <2> DEFINE r == s.register
  <2>1. r \in Seq(AnyBit) /\ Len(r) = 64
    BY DEF IsStream, BitSeq
  <2> HIDE DEF r
  <2> DEFINE rb == r \o bits
  <2>2. /\ rb \in Seq(AnyBit) /\ Len(rb) = 64 + got
        /\ \A i \in 1 .. 64 + got : rb[i] = IF i <= 64 THEN r[i] ELSE bits[i - 64]
    <3>1. r \in Seq(AnyBit) /\ bits \in Seq(AnyBit)
      BY <1>3, <2>1
    <3>2. /\ rb \in Seq(AnyBit) /\ Len(rb) = Len(r) + Len(bits)
          /\ \A i \in 1 .. Len(r) + Len(bits) : rb[i] = IF i <= Len(r) THEN r[i] ELSE bits[i - Len(r)]
      BY <3>1, ConcatProperties, Zenon
    <3> QED BY <1>3, <2>1, <3>2
  <2> HIDE DEF rb
  <2>3. \A i \in 1 .. got : rb[64 + i] = bits[i]
    BY <1>1, <2>2
  <2> QED BY <2>2, <2>3 DEF r, rb
<1> HIDE DEF joined
<1>5. /\ register2 \in BitSeq(64)
      /\ got = n => \A i \in 1 .. n : register2[64 - n + i] = bits[i]
  <2>1. register2 \in Seq(AnyBit) /\ Len(register2) = 64
    BY <1>1, <1>4
  <2>2. \A j \in 1 .. 64 : register2[j] = joined[got + j]
    BY <1>1, <1>4
  <2> HIDE DEF register2
  <2>3. ASSUME got = n, NEW i \in 1 .. n PROVE register2[64 - n + i] = bits[i]
    <3>1. 64 - n + i \in 1 .. 64 /\ got + (64 - n + i) = 64 + i /\ i \in 1 .. got
      BY <1>1, <2>3
    <3>2. register2[64 - n + i] = joined[got + (64 - n + i)]
      BY <2>2, <3>1
    <3>3. joined[64 + i] = bits[i]
      BY <1>4, <3>1
    <3> QED BY <3>1, <3>2, <3>3
  <2> QED BY <2>1, <2>3 DEF BitSeq
<1>6. used \in Nat /\ 8 * used + s.live - got \in 0 .. 7
  <2>1. CASE got > s.live
    <3> DEFINE m == got - s.live + 7
    <3>1. m \in Nat /\ m >= 8
      BY <1>1, <2>1
    <3> HIDE DEF m
    <3>2. m \div 8 \in Nat /\ 8 * (m \div 8) <= m /\ m < 8 * (m \div 8) + 8
      BY <3>1
    <3>3. used = m \div 8
      BY <2>1 DEF m
    <3> HIDE DEF used
    <3> QED BY <1>1, <2>1, <3>2, <3>3 DEF m
  <2>2. CASE ~(got > s.live)
    BY <1>1, <2>2
  <2> QED BY <2>1, <2>2
<1>7. SmallerOf(n, got + 1) \in Nat
  BY <1>1 DEF SmallerOf
<1> HIDE DEF used, register2
<1>8. /\ ReadBits(s, n).handle = s.handle + used
      /\ ReadBits(s, n).live = 8 * used + s.live - got
      /\ ReadBits(s, n).read_bits = s.read_bits + SmallerOf(n, got + 1)
      /\ ReadBits(s, n).register = register2
      /\ ReadBits(s, n).ok = (got = n)
  BY <1>2
<1>9. at = 8 * s.handle - s.live
  BY DEF at, PosOf
<1>10. PosOf(ReadBits(s, n)) = at + got
  BY <1>1, <1>6, <1>8, <1>9 DEF PosOf
<1>11. IsStream(ReadBits(s, n))
  BY <1>1, <1>5, <1>6, <1>7, <1>8, <1>9 DEF IsStream
<1> QED BY <1>1, <1>3, <1>5, <1>8, <1>10, <1>11 DEF at, got

LEMMA StreamIsStream ==
    ASSUME StreamOK
    PROVE  IsStream(Stream) /\ PosOf(Stream) = Pos /\ RestOf(Stream) = Rest
           /\ Stream.read_bits = read_bits /\ Stream.register = register
  BY DEF StreamOK, IsStream, Stream, PosOf, Pos, RestOf, Rest

LEMMA SettingStream ==
    ASSUME NEW s, IsStream(s), SetStream(s)
    PROVE  StreamOK' /\ Pos' = PosOf(s) /\ read_bits' = s.read_bits /\ register' = s.register
  BY DEF IsStream, SetStream, StreamOK, PosOf, Pos

(* A step that reads n bits: all of them, or what is left of the file. *)
LEMMA ReadStep ==
    ASSUME StreamOK, job \in Jobs, NEW n \in 0 .. 64, job' = job,
           SetStream(ReadBits(Stream, n))
    PROVE  /\ StreamOK' /\ Pos \in Nat
           /\ ReadBits(Stream, n).ok =>
                 /\ Pos' = Pos + n /\ read_bits' = read_bits + n
                 /\ Pos + n <= 8 * job.bytes \/ n = 0
                 /\ \A i \in 1 .. n : register'[64 - n + i] = Bit(Pos + i - 1)
           /\ ~ReadBits(Stream, n).ok =>
                 /\ Rest' = 0 /\ read_bits' <= read_bits + n
                 /\ Pos + n > 8 * job.bytes
<1> DEFINE s == ReadBits(Stream, n)
           got == Got(Stream, n)
<1>1. job.bytes \in Nat
  BY JobFacts
<1>2. /\ IsStream(Stream) /\ PosOf(Stream) = Pos /\ RestOf(Stream) = Rest
      /\ Stream.read_bits = read_bits
  BY StreamIsStream
<1>3. /\ IsStream(s) /\ got \in 0 .. n /\ Pos \in Nat
      /\ PosOf(s) = Pos + got
      /\ s.read_bits = read_bits + SmallerOf(n, got + 1)
      /\ s.ok <=> got = n
      /\ got = n => \A i \in 1 .. n : s.register[64 - n + i] = Bit(Pos + i - 1)
  BY <1>1, <1>2, Reading
<1>4. got = SmallerOf(n, Rest)
  BY <1>2 DEF Got
<1> HIDE DEF s, got
<1>5. SetStream(s)
  BY DEF s
<1>6. StreamOK' /\ Pos' = Pos + got /\ read_bits' = s.read_bits /\ register' = s.register
  BY <1>3, <1>5, SettingStream
<1>7. read_bits \in Nat
  BY DEF StreamOK
<1>8. CASE got = n
  <2>1. read_bits' = read_bits + n
    BY <1>3, <1>6, <1>7, <1>8 DEF SmallerOf
  <2>2. Pos + n <= 8 * job.bytes \/ n = 0
    BY <1>1, <1>3, <1>4, <1>8 DEF SmallerOf, Rest
  <2> QED BY <1>3, <1>6, <1>8, <2>1, <2>2 DEF s
<1>9. CASE got # n
  <2>1. got = Rest /\ Rest < n
    BY <1>1, <1>3, <1>4, <1>9 DEF SmallerOf, Rest
  <2>2. read_bits' = read_bits + got + 1
    BY <1>3, <1>6, <1>7, <1>9 DEF SmallerOf
  <2>3. Pos + n > 8 * job.bytes /\ Pos + got >= 8 * job.bytes
    BY <1>1, <1>3, <2>1 DEF Rest
  <2>4. Rest' = 0
    BY <1>1, <1>3, <1>6, <2>3 DEF Rest
  <2> QED BY <1>3, <1>6, <1>7, <1>9, <2>2, <2>3, <2>4 DEF s
<1> QED BY <1>8, <1>9

(***************************************************************************)
(* Seeking counts the bits up to the offset, and gets there if that is     *)
(* behind the first 64 bits and not behind the end of the file.            *)
(***************************************************************************)
LEMMA Seeking ==
    ASSUME StreamOK, job \in Jobs, NEW offset \in Nat
    PROVE  LET s == SeekBit(Stream, offset)
           IN  /\ IsStream(s)
               /\ s.ok => s.read_bits = offset
               /\ offset >= 64 /\ s.ok => PosOf(s) = offset \/ RestOf(s) = 0
               /\ offset >= 64 /\ offset <= 8 * job.bytes => s.ok /\ PosOf(s) = offset
<1> DEFINE target == offset \div 8
           ahead == offset % 8
           at == IF target >= 8 THEN target - 8 ELSE Stream.handle
           loaded == LoadWord(at, SubSeq(Stream.register, 1, 32))
                       \o LoadWord(at + 4, SubSeq(Stream.register, 33, 64))
           landed == IF at > job.bytes THEN at ELSE SmallerOf(at + 8, job.bytes)
           t == [Stream EXCEPT !.handle = landed, !.live = 0,
                               !.register = loaded, !.read_bits = CountedAt(target)]
           s == ReadBits(t, ahead)
<1>1. job.bytes \in Nat
  BY JobFacts
<1>2. target \in Nat /\ ahead \in 0 .. 7 /\ offset = 8 * target + ahead
  BY Eighths
<1>3. Stream.handle \in Nat /\ Stream.register \in BitSeq(64)
  BY DEF Stream, StreamOK
<1> HIDE DEF target, ahead
<1>4. at \in Nat
  BY <1>2, <1>3
<1>5. loaded \in BitSeq(64)
  <2> HIDE DEF at
  <2>1. ASSUME NEW b \in Nat, NEW m \in {0, 32}
        PROVE  LoadWord(b, SubSeq(Stream.register, m + 1, m + 32)) \in BitSeq(32)
    <3> DEFINE old == SubSeq(Stream.register, m + 1, m + 32)
    <3>1. \A i \in 1 .. 32 : old[i] \in AnyBit
      <4> DEFINE r == Stream.register
      <4>1. r \in Seq(AnyBit) /\ Len(r) = 64 /\ \A i \in 1 .. 64 : r[i] \in AnyBit
        BY <1>3, BitSeqFacts
      <4> HIDE DEF r
      <4>2. \A i \in 1 .. 32 : SubSeq(r, m + 1, m + 32)[i] = r[m + i]
        BY <4>1
      <4>3. ASSUME NEW i \in 1 .. 32 PROVE SubSeq(r, m + 1, m + 32)[i] \in AnyBit
        <5>1. m + i \in 1 .. 64
          OBVIOUS
        <5> QED BY <4>1, <4>2, <5>1
      <4> QED BY <4>3 DEF r
    <3> HIDE DEF old
    <3>2. ASSUME NEW i \in 1 .. 32
          PROVE  (LET c == b + 3 - ((i - 1) \div 8)
                  IN  IF c < job.bytes THEN Bit(8 * c + ((i - 1) % 8)) ELSE old[i]) \in AnyBit
      <4> DEFINE c == b + 3 - ((i - 1) \div 8)
      <4>1. i - 1 \in Nat
        OBVIOUS
      <4>2. c \in Int /\ 8 * c + ((i - 1) % 8) \in Int
        BY <4>1, Eighths
      <4> HIDE DEF c
      <4>3. Bit(8 * c + ((i - 1) % 8)) \in AnyBit
        BY <4>2, FileBitsAreBits
      <4> QED BY <3>1, <4>3 DEF c
    <3>3. LoadWord(b, old) \in BitSeq(32)
      BY <3>2 DEF LoadWord, BitSeq
    <3> QED BY <3>3 DEF old
  <2>2. LoadWord(at, SubSeq(Stream.register, 1, 32)) \in BitSeq(32)
    BY <1>4, <2>1
  <2>3. LoadWord(at + 4, SubSeq(Stream.register, 33, 64)) \in BitSeq(32)
    BY <1>4, <2>1
  <2> QED BY <2>2, <2>3, BitSeqJoin
<1>6. landed \in Nat
  BY <1>1, <1>4 DEF SmallerOf
<1>7. /\ t.handle = landed /\ t.live = 0 /\ t.read_bits = 8 * target /\ t.register = loaded
  BY DEF Stream, CountedAt
<1>8. SeekBit(Stream, offset) = s
  BY DEF SeekBit, target, ahead
<1> HIDE DEF at, loaded, landed, t
<1>9. IsStream(t) /\ PosOf(t) = 8 * landed
  BY <1>2, <1>5, <1>6, <1>7 DEF IsStream, PosOf
<1>10. /\ IsStream(s) /\ Got(t, ahead) \in 0 .. ahead
       /\ PosOf(s) = PosOf(t) + Got(t, ahead)
       /\ s.read_bits = t.read_bits + SmallerOf(ahead, Got(t, ahead) + 1)
       /\ s.ok <=> Got(t, ahead) = ahead
  <2>1. ahead \in 0 .. 64
    BY <1>2
  <2> QED BY <1>1, <1>9, <2>1, Reading
<1> HIDE DEF s
<1>11. s.ok => s.read_bits = offset
  BY <1>2, <1>7, <1>10 DEF SmallerOf
<1>12. ASSUME offset >= 64
       PROVE  \/ landed = target /\ landed <= job.bytes
              \/ landed < target /\ landed >= job.bytes
  <2>1. at = target - 8
    BY <1>2, <1>12 DEF at
  <2>2. landed = IF at > job.bytes THEN at ELSE SmallerOf(at + 8, job.bytes)
    BY DEF landed
  <2> QED BY <1>1, <1>2, <1>12, <2>1, <2>2 DEF SmallerOf
<1>13. ASSUME offset >= 64, s.ok PROVE PosOf(s) = offset \/ RestOf(s) = 0
  <2>1. PosOf(s) = 8 * landed + ahead
    BY <1>9, <1>10, <1>13
  <2>2. CASE landed = target
    BY <1>2, <2>1, <2>2
  <2>3. CASE landed >= job.bytes
    BY <1>1, <1>2, <1>6, <2>1, <2>3 DEF RestOf
  <2> QED BY <1>12, <1>13, <2>2, <2>3
<1>14. ASSUME offset >= 64, offset <= 8 * job.bytes PROVE s.ok /\ PosOf(s) = offset
  <2>1. landed = target
    BY <1>1, <1>2, <1>6, <1>12, <1>14
  <2>2. Got(t, ahead) = ahead
    BY <1>1, <1>2, <1>9, <1>14, <2>1 DEF Got, RestOf, SmallerOf
  <2> QED BY <1>2, <1>9, <1>10, <2>1, <2>2
<1> QED BY <1>8, <1>10, <1>11, <1>13, <1>14

-----------------------------------------------------------------------------
(* Bytes put into the buffer, in the part of it that is there. *)
LEMMA Storing ==
    ASSUME NEW size \in Nat, buffer \in BitSeq(size), read_bytes \in Nat,
           NEW k \in {8, 32, 88}, NEW bits \in BitSeq(k), Store(bits)
    PROVE  /\ buffer' \in BitSeq(size)
           /\ read_bytes' \in Nat /\ 8 * read_bytes' = 8 * read_bytes + k
           /\ \A i \in 1 .. size :
                 buffer'[i] = IF i > 8 * read_bytes /\ i <= 8 * read_bytes + k
                                THEN bits[i - 8 * read_bytes] ELSE buffer[i]
           /\ overflow' = (overflow \/ 8 * read_bytes + k > size)
<1>1. Len(bits) = k /\ \A i \in 1 .. k : bits[i] \in AnyBit
  BY BitSeqFacts
<1>2. Len(buffer) = size /\ \A i \in 1 .. size : buffer[i] \in AnyBit
  BY BitSeqFacts
<1>3. buffer' = [i \in 1 .. size |-> IF i > 8 * read_bytes /\ i <= 8 * read_bytes + k
                                       THEN bits[i - 8 * read_bytes] ELSE buffer[i]]
  BY <1>1, <1>2 DEF Store
<1>4. \A i \in 1 .. size :
         /\ buffer'[i] = IF i > 8 * read_bytes /\ i <= 8 * read_bytes + k
                           THEN bits[i - 8 * read_bytes] ELSE buffer[i]
         /\ buffer'[i] \in AnyBit
  BY <1>1, <1>2, <1>3
<1>5. buffer' \in BitSeq(size)
  BY <1>3, <1>4, BitSeqFromFunction
<1>6. read_bytes' \in Nat /\ 8 * read_bytes' = 8 * read_bytes + k
  BY <1>1 DEF Store
<1>7. overflow' = (overflow \/ 8 * read_bytes + k > size)
  BY <1>1, <1>2 DEF Store
<1> QED BY <1>4, <1>5, <1>6, <1>7

LEMMA BitBufferFacts ==
    ASSUME bit_buffer \in BitSeq(88)
    PROVE  Len(bit_buffer) = 88 /\ \A i \in 1 .. 88 : bit_buffer[i] \in AnyBit
  BY BitSeqFacts

(* Nothing has been put behind the current bit yet. *)
Spare == \A i \in 1 .. 88 : i > current_bit => bit_buffer[i] = Zero

(* Bits put behind those of the bit buffer, where it is still empty. *)
LEMMA Appending ==
    ASSUME bit_buffer \in BitSeq(88), current_byte = 0, current_bit \in 0 .. 7, Spare,
           NEW k \in {1, 80}, NEW bits \in BitSeq(k)
    PROVE  LET b == AppendBits(BitBuf, bits)
           IN  /\ b.data \in BitSeq(88)
               /\ \A i \in 1 .. 88 :
                     b.data[i] = IF i <= current_bit THEN bit_buffer[i]
                                 ELSE IF i <= current_bit + k THEN bits[i - current_bit] ELSE Zero
               /\ b.cbyte = (current_bit + k) \div 8 /\ b.cbit = (current_bit + k) % 8
               /\ b.past = FALSE /\ b.ok = TRUE
<1> DEFINE end == current_bit + k
           b == AppendBits(BitBuf, bits)
           data == [i \in 1 .. 88 |->
                     IF i <= current_bit \/ i > end THEN bit_buffer[i]
                     ELSE IF bit_buffer[i] = Zero THEN bits[i - current_bit] ELSE Merged]
<1>1. Len(bits) = k /\ \A i \in 1 .. k : bits[i] \in AnyBit
  BY BitSeqFacts
<1>2. Len(bit_buffer) = 88 /\ \A i \in 1 .. 88 : bit_buffer[i] \in AnyBit
  BY BitBufferFacts
<1>3. end \in Nat /\ end <= 87 /\ end = current_bit + k
  OBVIOUS
<1>4. 8 * BitBuf.cbyte + BitBuf.cbit = current_bit /\ BitBuf.past = FALSE
      /\ BitBuf.data = bit_buffer /\ BitBuf.cbyte = 0
  BY DEF BitBuf
<1>5. b = [data |-> data, cbyte |-> end \div 8, cbit |-> end % 8,
           past |-> end > 88, ok |-> TRUE]
  <2> DEFINE at == 8 * BitBuf.cbyte + BitBuf.cbit
  <2>1. at = current_bit /\ at + Len(bits) = end
    BY <1>1, <1>4
  <2>2. b = [data |-> [i \in 1 .. Len(BitBuf.data) |->
                         IF i <= at \/ i > at + Len(bits) THEN BitBuf.data[i]
                         ELSE IF BitBuf.data[i] = Zero THEN bits[i - at] ELSE Merged],
             cbyte |-> (at + Len(bits)) \div 8, cbit |-> (at + Len(bits)) % 8,
             past |-> BitBuf.past \/ at + Len(bits) > Len(BitBuf.data),
             ok |-> (at + Len(bits)) \div 8 = BitBuf.cbyte \/ 7 < MaxBytes]
    BY DEF AppendBits
  <2>3. 7 < MaxBytes
    BY DEF MaxBytes
  <2>4. Len(BitBuf.data) = 88 /\ BitBuf.data = bit_buffer
    BY <1>2, <1>4
  <2> HIDE DEF at, end, b
  <2>5. (BitBuf.past \/ at + Len(bits) > Len(BitBuf.data)) = (end > 88)
    <3>1. at + Len(bits) = end /\ Len(BitBuf.data) = 88 /\ BitBuf.past = FALSE
      BY <1>4, <2>1, <2>4
    <3>2. FALSE \/ end > 88 <=> end > 88
      OBVIOUS
    <3> QED BY <3>1
  <2>6. ((at + Len(bits)) \div 8 = BitBuf.cbyte \/ 7 < MaxBytes) = TRUE
    BY <2>3
  <2>7. [i \in 1 .. Len(BitBuf.data) |->
            IF i <= at \/ i > at + Len(bits) THEN BitBuf.data[i]
            ELSE IF BitBuf.data[i] = Zero THEN bits[i - at] ELSE Merged] = data
    BY <2>1, <2>4
  <2> HIDE DEF data
  <2> QED BY <2>1, <2>2, <2>5, <2>6, <2>7
<1>6. \A i \in 1 .. 88 :
         /\ data[i] = IF i <= current_bit THEN bit_buffer[i]
                        ELSE IF i <= end THEN bits[i - current_bit] ELSE Zero
         /\ data[i] \in AnyBit
  <2>1. ASSUME NEW i \in 1 .. 88, i <= current_bit
        PROVE  data[i] = bit_buffer[i] /\ data[i] \in AnyBit
    BY <1>2, <2>1
  <2>2. ASSUME NEW i \in 1 .. 88, i > current_bit, i <= end
        PROVE  data[i] = bits[i - current_bit] /\ data[i] \in AnyBit
    <3>1. bit_buffer[i] = Zero
      BY <2>2 DEF Spare
    <3>2. data[i] = bits[i - current_bit]
      BY <2>2, <3>1
    <3>3. i - current_bit \in 1 .. k
      BY <1>3, <2>2
    <3> QED BY <1>1, <3>2, <3>3
  <2>3. ASSUME NEW i \in 1 .. 88, i > current_bit, i > end
        PROVE  data[i] = Zero /\ data[i] \in AnyBit
    <3>1. bit_buffer[i] = Zero
      BY <2>3 DEF Spare
    <3>2. data[i] = bit_buffer[i]
      BY <2>3
    <3> QED BY <3>1, <3>2, OtherBits
  <2> HIDE DEF data
  <2> SUFFICES ASSUME NEW i \in 1 .. 88
               PROVE  /\ data[i] = IF i <= current_bit THEN bit_buffer[i]
                                     ELSE IF i <= end THEN bits[i - current_bit] ELSE Zero
                      /\ data[i] \in AnyBit
    OBVIOUS
  <2>4. CASE i <= current_bit
    BY <2>1, <2>4
  <2>5. CASE ~(i <= current_bit) /\ i <= end
    <3>1. i > current_bit
      BY <1>3, <2>5
    <3> QED BY <2>2, <2>5, <3>1
  <2>6. CASE ~(i <= current_bit) /\ ~(i <= end)
    <3>1. i > current_bit /\ i > end
      BY <1>3, <2>6
    <3> QED BY <2>3, <2>6, <3>1
  <2> QED BY <2>4, <2>5, <2>6
<1>7. data \in BitSeq(88)
  <2> DEFINE size == 88
  <2>1. data \in [1 .. size -> AnyBit]
    BY <1>6
  <2>2. size \in Nat
    OBVIOUS
  <2> HIDE DEF data, size
  <2>3. data \in BitSeq(size)
    BY <2>1, <2>2, BitSeqFromFunction
  <2> QED BY <2>3 DEF size
<1>8. (end > 88) = FALSE
  BY <1>3
<1> HIDE DEF data, b, end
<1>9. /\ b.data = data /\ b.cbyte = end \div 8 /\ b.cbit = end % 8
      /\ b.past = FALSE /\ b.ok = TRUE
  BY <1>5, <1>8
<1>10. b.data \in BitSeq(88)
  BY <1>7, <1>9
<1> QED BY <1>6, <1>9, <1>10 DEF b, end
-----------------------------------------------------------------------------
(***************************************************************************)
(* The inductive invariant.  Types is TypeOK with the elements of every    *)
(* sequence.  The rest says, phase by phase, how far the copy has got:     *)
(* which bits the result holds, where the stream stands in the file, and   *)
(* what the bit buffer holds.  A copy that has met the end of the file     *)
(* cannot be told from another one after the CRC: it is Lost, and the next *)
(* byte it asks for ends the call.                                         *)
(***************************************************************************)
Types ==
    /\ job \in Jobs
    /\ StreamOK
    /\ buffer \in BitSeq(8 * BufferBytes)
    /\ read_bytes \in Nat
    /\ block_crc \in BitSeq(32)
    /\ bit_buffer \in BitSeq(88) /\ current_byte \in 0 .. 11 /\ current_bit \in 0 .. 7
    /\ overflow \in BOOLEAN
    /\ pc \in {"open", "header", "crc", "payload", "tail", "flush", "done", "null", "abort"}

(* What the header and the block put at a place of the result. *)
Wanted(i) == IF i <= job.header THEN Bit(i - 1) ELSE Bit(job.from + (i - job.header) - 1)

(* What the whole stream has there. *)
Final(i) ==
    LET end == job.header + (job.to - job.from + 1)
    IN  IF i <= end THEN Wanted(i)
        ELSE IF i <= end + 48 THEN FooterBit(i - end)
        ELSE IF i <= end + 80 THEN Bit(job.from + (i - end - 48) - 1)
        ELSE Zero

Holds ==
    \A i \in 1 .. 8 * BufferBytes :
        buffer[i] = IF i <= 8 * read_bytes THEN Wanted(i) ELSE Zero

CrcHeld == \A i \in 1 .. 32 : block_crc[i] = Bit(job.from + i - 1)

(* The block's bits behind the last whole byte, as far as they were read. *)
TailHeld ==
    \A i \in 1 .. 88 : i <= current_bit => bit_buffer[i] = Bit(AlignedEnd + i - 1)

(* All the bit buffer is to hold. *)
Ending(i) ==
    IF i <= UnalignedBits THEN Bit(AlignedEnd + i - 1)
    ELSE IF i <= UnalignedBits + 48 THEN FooterBit(i - UnalignedBits)
    ELSE IF i <= UnalignedBits + 80 THEN Bit(job.from + (i - UnalignedBits - 48) - 1)
    ELSE Zero

InFile == Pos = read_bits /\ Pos <= 8 * job.bytes

Copying ==
    /\ 8 * read_bytes = job.header + (read_bits - job.from)
    /\ read_bits >= job.from + 32 /\ read_bits <= AlignedEnd
    /\ Seekable => InFile /\ Holds /\ CrcHeld

Lost ==
    /\ 8 * read_bytes = job.header + 32
    /\ read_bits < AlignedEnd
    /\ Rest = 0
    /\ Seekable => ~Readable

(* The bits of the result that are copied byte by byte. *)
WholeBytes == job.header + (AlignedEnd - job.from)

Opening == read_bits = 0 /\ read_bytes = 0 /\ Pos = 0 /\ Holds

Heading ==
    /\ read_bits = 8 * read_bytes /\ read_bits <= job.header
    /\ Pos = read_bits
    /\ Holds

Sought ==
    /\ 8 * read_bytes = job.header /\ read_bits = job.from
    /\ Holds
    /\ Seekable => Pos = job.from \/ (Rest = 0 /\ ~Readable)

Trailing ==
    /\ 8 * read_bytes = WholeBytes
    /\ read_bits = AlignedEnd + current_bit /\ current_bit <= UnalignedBits
    /\ Seekable => InFile /\ Holds /\ CrcHeld /\ TailHeld

Ended ==
    /\ 8 * read_bytes = WholeBytes
    /\ Seekable =>
          /\ Readable /\ Holds
          /\ \A i \in 1 .. 88 : bit_buffer[i] = Ending(i)

Complete ==
    /\ 8 * read_bytes = WholeBytes + 88
    /\ Seekable =>
          /\ Readable
          /\ \A i \in 1 .. 8 * BufferBytes : buffer[i] = Final(i)

Phase ==
    /\ pc \notin {"open", "null", "abort"} => job.header % 8 = 0
    /\ pc = "open" => Opening
    /\ pc = "header" => Heading
    /\ pc = "crc" => Sought
    /\ pc = "payload" => Copying \/ Lost
    /\ pc = "tail" => Trailing
    /\ pc = "flush" => Ended
    /\ pc = "done" => Complete
    /\ pc = "null" /\ Seekable => read_bits = 0 \/ ~Readable
    /\ pc \in {"open", "header", "crc", "payload"} => current_bit = 0
    /\ pc \in {"open", "header", "crc", "payload", "tail"} => current_byte = 0 /\ Spare

(* A stream header of up to 136 bits is what the buffer has room for. *)
Room == job.header <= 136 => ~overflow

IInv == Types /\ Phase /\ Room

LEMMA InitInv == ASSUME Init PROVE IInv
<1>1. job \in Jobs /\ pc = "open" /\ read_bits = 0 /\ read_bytes = 0
  BY DEF Init
<1>2. BufferBytes \in Nat
  BY <1>1, Shape
<1>3. StreamOK /\ Pos = 0
  <2>1. register \in BitSeq(64)
    BY ZerosAreBits DEF Init
  <2> QED BY <2>1 DEF Init, StreamOK, Pos
<1>4. /\ buffer \in BitSeq(8 * BufferBytes)
      /\ \A i \in 1 .. 8 * BufferBytes : buffer[i] = Zero
  <2> DEFINE n == 8 * BufferBytes
  <2>1. n \in Nat /\ buffer = Zeros(n)
    BY <1>2 DEF Init
  <2> HIDE DEF n
  <2>2. buffer \in BitSeq(n) /\ \A i \in 1 .. n : buffer[i] = Zero
    BY <2>1, ZerosAreBits
  <2> QED BY <2>2 DEF n
<1>5. block_crc \in BitSeq(32)
  BY ZerosAreBits DEF Init
<1>6. bit_buffer \in BitSeq(88) /\ \A i \in 1 .. 88 : bit_buffer[i] = Zero
  <2>1. bit_buffer = Zeros(88)
    BY DEF Init, MaxBytes
  <2> QED BY <2>1, ZerosAreBits
<1>7. Types
  <2>1. current_byte = 0 /\ current_bit = 0 /\ overflow = FALSE
    BY DEF Init
  <2>2. current_byte \in 0 .. 11 /\ current_bit \in 0 .. 7 /\ read_bytes \in Nat
    BY <1>1, <2>1
  <2>4. overflow \in BOOLEAN
    BY <2>1, Zenon
  <2>3. buffer \in BitSeq(8 * BufferBytes) /\ bit_buffer \in BitSeq(88) /\ block_crc \in BitSeq(32)
    BY <1>4, <1>5, <1>6
  <2> QED BY <1>1, <1>3, <2>2, <2>3, <2>4 DEF Types
<1>8. Holds
  BY <1>1, <1>2, <1>4 DEF Holds
<1>9. current_bit = 0 /\ current_byte = 0 /\ Spare /\ ~overflow
  BY <1>6 DEF Init, Spare
<1> QED BY <1>1, <1>3, <1>7, <1>8, <1>9 DEF IInv, Phase, Opening, Room

(* Bits of the file, from p on, put where they are wanted. *)
LEMMA HoldsMore ==
    ASSUME job \in Jobs, job' = job, read_bytes \in Nat, read_bytes' \in Nat, Holds,
           NEW k \in Nat, NEW p \in Nat,
           8 * read_bytes' = 8 * read_bytes + k,
           \A i \in 1 .. 8 * BufferBytes :
              buffer'[i] = IF i > 8 * read_bytes /\ i <= 8 * read_bytes + k
                             THEN Bit(p + (i - 8 * read_bytes) - 1) ELSE buffer[i],
           \/ 8 * read_bytes + k <= job.header /\ p = 8 * read_bytes
           \/ 8 * read_bytes >= job.header /\ p = job.from + (8 * read_bytes - job.header)
    PROVE  Holds'
<1> DEFINE at == 8 * read_bytes
<1>1. at \in Nat /\ job.header \in Nat /\ job.from \in Nat
  BY JobFacts
<1>2. BufferBytes' = BufferBytes
  BY DEF BufferBytes, Payload
<1> HIDE DEF at
<1>3. ASSUME NEW i \in 1 .. 8 * BufferBytes
      PROVE  buffer'[i] = IF i <= at + k THEN Wanted(i) ELSE Zero
  <2>0. i \in Nat
    OBVIOUS
  <2>1. CASE i <= at
    <3>1. buffer[i] = Wanted(i)
      BY <2>1 DEF Holds, at
    <3>2. buffer'[i] = buffer[i]
      BY <2>1 DEF at
    <3>3. i <= at + k
      BY <1>1, <2>0, <2>1
    <3> QED BY <3>1, <3>2, <3>3
  <2>2. CASE i > at /\ i <= at + k
    <3>1. buffer'[i] = Bit(p + (i - at) - 1)
      BY <2>2 DEF at
    <3>2. CASE at + k <= job.header /\ p = at
      <4>1. i <= job.header /\ p + (i - at) - 1 = i - 1
        BY <1>1, <2>0, <2>2, <3>2
      <4> QED BY <2>2, <3>1, <4>1 DEF Wanted
    <3>3. CASE at >= job.header /\ p = job.from + (at - job.header)
      <4>1. ~(i <= job.header) /\ p + (i - at) - 1 = job.from + (i - job.header) - 1
        BY <1>1, <2>0, <2>2, <3>3
      <4> QED BY <2>2, <3>1, <4>1 DEF Wanted
    <3> QED BY <3>2, <3>3 DEF at
  <2>3. CASE i > at + k
    <3>1. ~(i <= at) /\ ~(i <= at + k)
      BY <1>1, <2>0, <2>3
    <3>2. buffer[i] = Zero
      BY <3>1 DEF Holds, at
    <3>3. buffer'[i] = buffer[i]
      BY <3>1 DEF at
    <3> QED BY <3>1, <3>2, <3>3
  <2> QED BY <1>1, <2>0, <2>1, <2>2, <2>3
<1>4. \A i \in 1 .. 8 * BufferBytes : buffer'[i] = IF i <= 8 * read_bytes' THEN Wanted(i) ELSE Zero
  BY <1>3 DEF at
<1> QED BY <1>2, <1>4 DEF Holds, Wanted

(* One byte of the file is copied, or the call has failed. *)
LEMMA Copied ==
    ASSUME Types, CopyByte, job' = job, pc \in {"header", "payload"}
    PROVE  /\ Types'
           /\ bitbuf' = bitbuf /\ block_crc' = block_crc
           /\ \/ /\ pc' = "null" /\ overflow' = overflow
                 /\ Pos + 8 > 8 * job.bytes
              \/ /\ pc' = pc /\ Pos' = Pos + 8 /\ Pos + 8 <= 8 * job.bytes
                 /\ read_bits' = read_bits + 8 /\ 8 * read_bytes' = 8 * read_bytes + 8
                 /\ \A i \in 1 .. 8 * BufferBytes :
                       buffer'[i] = IF i > 8 * read_bytes /\ i <= 8 * read_bytes + 8
                                      THEN Bit(Pos + (i - 8 * read_bytes) - 1) ELSE buffer[i]
                 /\ overflow' = (overflow \/ 8 * read_bytes + 8 > 8 * BufferBytes)
<1> DEFINE s == ReadBits(Stream, 8)
<1>1. /\ job \in Jobs /\ StreamOK /\ buffer \in BitSeq(8 * BufferBytes) /\ read_bytes \in Nat
      /\ block_crc \in BitSeq(32) /\ bit_buffer \in BitSeq(88) /\ overflow \in BOOLEAN
      /\ current_byte \in 0 .. 11 /\ current_bit \in 0 .. 7
  BY DEF Types
<1>2. BufferBytes \in Nat /\ BufferBytes' = BufferBytes
  BY <1>1, Shape DEF BufferBytes, Payload
<1>3. /\ SetStream(s) /\ block_crc' = block_crc /\ bitbuf' = bitbuf
      /\ s.ok => Store(JuniorByte(s)) /\ pc' = pc
      /\ ~s.ok => pc' = "null" /\ UNCHANGED <<buffer, read_bytes, overflow>>
  BY DEF CopyByte, Fail
<1>4. /\ StreamOK' /\ Pos \in Nat
      /\ s.ok => /\ Pos' = Pos + 8 /\ read_bits' = read_bits + 8
                 /\ Pos + 8 <= 8 * job.bytes
                 /\ \A i \in 1 .. 8 : register'[56 + i] = Bit(Pos + i - 1)
      /\ ~s.ok => Pos + 8 > 8 * job.bytes
  <2>1. 8 \in 0 .. 64
    OBVIOUS
  <2>2. /\ StreamOK' /\ Pos \in Nat
        /\ s.ok => /\ Pos' = Pos + 8 /\ read_bits' = read_bits + 8
                   /\ Pos + 8 <= 8 * job.bytes \/ 8 = 0
                   /\ \A i \in 1 .. 8 : register'[64 - 8 + i] = Bit(Pos + i - 1)
        /\ ~s.ok => Pos + 8 > 8 * job.bytes
    BY <1>1, <1>3, <2>1, ReadStep
  <2>3. \A i \in 1 .. 8 : 64 - 8 + i = 56 + i
    OBVIOUS
  <2> HIDE DEF s
  <2> QED BY <2>2, <2>3
<1>5. register' = s.register /\ register' \in BitSeq(64)
  BY <1>3, <1>4 DEF SetStream, StreamOK
<1> HIDE DEF s
<1>6. JuniorByte(s) \in BitSeq(8) /\ \A i \in 1 .. 8 : JuniorByte(s)[i] = register'[56 + i]
  <2>1. s.register \in BitSeq(64) /\ 56 \in 0 .. 63
    BY <1>5
  <2>2. /\ SubSeq(s.register, 56 + 1, 64) \in BitSeq(64 - 56)
        /\ \A i \in 1 .. 64 - 56 : SubSeq(s.register, 56 + 1, 64)[i] = s.register[56 + i]
    BY <2>1, BitSeqPart
  <2> QED BY <1>5, <2>2 DEF JuniorByte
<1>7. bit_buffer' \in BitSeq(88) /\ current_byte' \in 0 .. 11 /\ current_bit' \in 0 .. 7
  BY <1>1, <1>3 DEF bitbuf
<1>8. CASE ~s.ok
  <2>1. Types'
    BY <1>1, <1>2, <1>3, <1>4, <1>7, <1>8 DEF Types
  <2> QED BY <1>3, <1>4, <1>8, <2>1
<1>9. CASE s.ok
  <2> DEFINE size == 8 * BufferBytes
             bits == JuniorByte(s)
  <2>1. size \in Nat /\ buffer \in BitSeq(size) /\ bits \in BitSeq(8) /\ Store(bits)
    BY <1>1, <1>2, <1>3, <1>6, <1>9
  <2> HIDE DEF size, bits
  <2>2. /\ buffer' \in BitSeq(size)
        /\ read_bytes' \in Nat /\ 8 * read_bytes' = 8 * read_bytes + 8
        /\ \A i \in 1 .. size :
              buffer'[i] = IF i > 8 * read_bytes /\ i <= 8 * read_bytes + 8
                             THEN bits[i - 8 * read_bytes] ELSE buffer[i]
        /\ overflow' = (overflow \/ 8 * read_bytes + 8 > size)
    BY <1>1, <2>1, Storing
  <2>3. Types'
    <3>1. buffer' \in BitSeq(8 * BufferBytes')
      BY <1>2, <2>2 DEF size
    <3>2. overflow' \in BOOLEAN
      BY <2>2
    <3>3. pc' = pc
      BY <1>3, <1>9
    <3> QED BY <1>1, <1>3, <1>4, <1>7, <2>2, <3>1, <3>2, <3>3 DEF Types
  <2>4. ASSUME NEW i \in 1 .. size, i > 8 * read_bytes, i <= 8 * read_bytes + 8
        PROVE  bits[i - 8 * read_bytes] = Bit(Pos + (i - 8 * read_bytes) - 1)
    <3> DEFINE j == i - 8 * read_bytes
    <3>1. j \in 1 .. 8
      BY <1>1, <2>1, <2>4
    <3> HIDE DEF j
    <3>2. bits[j] = register'[56 + j] /\ register'[56 + j] = Bit(Pos + j - 1)
      BY <1>4, <1>6, <1>9, <3>1 DEF bits
    <3> QED BY <3>2 DEF j
  <2>5. \A i \in 1 .. size :
           buffer'[i] = IF i > 8 * read_bytes /\ i <= 8 * read_bytes + 8
                          THEN Bit(Pos + (i - 8 * read_bytes) - 1) ELSE buffer[i]
    BY <2>2, <2>4
  <2> QED BY <1>3, <1>4, <1>9, <2>2, <2>3, <2>5 DEF size
<1> QED BY <1>8, <1>9

-----------------------------------------------------------------------------
(* What the job alone determines does not change. *)
LEMMA JobFrame ==
    ASSUME job' = job
    PROVE  /\ BufferBytes' = BufferBytes /\ AlignedEnd' = AlignedEnd
           /\ UnalignedBits' = UnalignedBits /\ WholeBytes' = WholeBytes
           /\ Seekable' = Seekable /\ Readable' = Readable
  BY DEF BufferBytes, AlignedEnd, UnalignedBits, WholeBytes, Payload, Seekable, Readable

LEMMA HoldsFrame ==
    ASSUME job' = job, buffer' = buffer, read_bytes' = read_bytes
    PROVE  Holds' <=> Holds
  BY DEF Holds, Wanted, BufferBytes, Payload

LEMMA OpenStep == ASSUME IInv, Open PROVE IInv'
<1>1. /\ job' = job /\ stream' = stream /\ buffer' = buffer /\ read_bytes' = read_bytes
      /\ block_crc' = block_crc /\ bitbuf' = bitbuf /\ overflow' = overflow
      /\ pc = "open" /\ (pc' = "abort" \/ (job.header % 8 = 0 /\ pc' \in {"header", "null"}))
  BY DEF Open
<1>2. Types'
  BY <1>1 DEF IInv, Types, StreamOK, stream, bitbuf, BufferBytes, Payload
<1>3. Opening /\ current_bit = 0 /\ current_byte = 0 /\ Spare
  BY <1>1 DEF IInv, Phase
<1>4. Opening'
  BY <1>1, <1>3, HoldsFrame DEF Opening, Pos, stream
<1>5. (current_bit = 0 /\ current_byte = 0 /\ Spare)'
  BY <1>1, <1>3 DEF Spare, bitbuf
<1>6. job.header \in Nat
  BY JobFacts DEF IInv, Types
<1>7. Heading'
  BY <1>1, <1>4, <1>6 DEF Opening, Heading
<1>8. read_bits' = 0 /\ (pc' \in {"header"} => job'.header % 8 = 0)
  BY <1>1, <1>4 DEF Opening
<1>9. Phase'
  BY <1>1, <1>5, <1>7, <1>8 DEF Phase
<1>10. Room'
  BY <1>1 DEF IInv, Room
<1> QED BY <1>2, <1>9, <1>10 DEF IInv

LEMMA HeaderByteStep == ASSUME IInv, HeaderByte PROVE IInv'
<1>1. pc = "header" /\ read_bits < job.header /\ CopyByte /\ job' = job
  BY DEF HeaderByte
<1>2. Types /\ Heading /\ job.header % 8 = 0 /\ current_bit = 0 /\ current_byte = 0 /\ Spare /\ Room
  BY <1>1 DEF IInv, Phase
<1>3. job.header \in Nat /\ job.from \in Nat /\ job.to \in Nat /\ job.bytes \in Nat
      /\ job.header <= job.from /\ job.from + 130 <= job.to
      /\ BufferBytes \in Nat /\ read_bytes \in Nat
      /\ 8 * BufferBytes >= 224
  BY <1>2, JobFacts, Shape DEF Types
<1>4. 8 * read_bytes + 8 <= job.header /\ Pos = 8 * read_bytes /\ read_bits = 8 * read_bytes
  BY <1>1, <1>2, <1>3 DEF Heading
<1>5. (current_bit = 0 /\ current_byte = 0 /\ Spare)' \/ bitbuf' # bitbuf
  BY <1>2 DEF bitbuf, Spare
<1>6. Types' /\ bitbuf' = bitbuf
  BY <1>1, <1>2, Copied
<1>7. (current_bit = 0 /\ current_byte = 0 /\ Spare)'
  BY <1>5, <1>6
<1>8. CASE pc' = "null" /\ overflow' = overflow /\ Pos + 8 > 8 * job.bytes
  <2>1. ~Readable
    BY <1>3, <1>4, <1>8 DEF Readable
  <2>2. Phase'
    BY <1>1, <1>7, <1>8, <2>1, JobFrame DEF Phase
  <2>3. Room'
    BY <1>1, <1>2, <1>8 DEF Room
  <2> QED BY <1>6, <2>2, <2>3 DEF IInv
<1>9. CASE /\ pc' = pc /\ Pos' = Pos + 8 /\ Pos + 8 <= 8 * job.bytes
           /\ read_bits' = read_bits + 8 /\ 8 * read_bytes' = 8 * read_bytes + 8
           /\ \A i \in 1 .. 8 * BufferBytes :
                 buffer'[i] = IF i > 8 * read_bytes /\ i <= 8 * read_bytes + 8
                                THEN Bit(Pos + (i - 8 * read_bytes) - 1) ELSE buffer[i]
           /\ overflow' = (overflow \/ 8 * read_bytes + 8 > 8 * BufferBytes)
  <2>1. Holds'
    <3>1. Holds /\ job \in Jobs /\ read_bytes' \in Nat /\ Pos \in Nat /\ 8 \in Nat
      BY <1>2, <1>3, <1>4, <1>6 DEF Heading, Types
    <3> QED BY <1>1, <1>3, <1>4, <1>9, <3>1, HoldsMore
  <2>2. Heading'
    BY <1>1, <1>3, <1>4, <1>9, <2>1 DEF Heading
  <2>3. Phase'
    BY <1>1, <1>2, <1>7, <1>9, <2>2 DEF Phase
  <2>4. Room'
    <3>1. job.header <= 136 => ~(8 * read_bytes + 8 > 8 * BufferBytes)
      BY <1>3, <1>4
    <3> QED BY <1>1, <1>2, <1>9, <3>1 DEF Room
  <2> QED BY <1>6, <2>3, <2>4 DEF IInv
<1> QED BY <1>1, <1>2, <1>8, <1>9, Copied

LEMMA SeekStep == ASSUME IInv, Seek PROVE IInv'
<1> DEFINE s == SeekBit(Stream, job.from)
<1>1. /\ pc = "header" /\ read_bits >= job.header /\ SetStream(s)
      /\ pc' = IF s.ok THEN "crc" ELSE "null"
      /\ job' = job /\ buffer' = buffer /\ read_bytes' = read_bytes
      /\ block_crc' = block_crc /\ bitbuf' = bitbuf /\ overflow' = overflow
  BY DEF Seek
<1>2. Types /\ Heading /\ job.header % 8 = 0 /\ current_bit = 0 /\ current_byte = 0 /\ Spare /\ Room
  BY <1>1 DEF IInv, Phase
<1>3. job.header \in Nat /\ job.from \in Nat /\ job.to \in Nat /\ job.bytes \in Nat
      /\ job.header <= job.from /\ job.from + 130 <= job.to
  BY <1>2, JobFacts DEF Types
<1>4. /\ IsStream(s)
      /\ s.ok => s.read_bits = job.from
      /\ job.from >= 64 /\ s.ok => PosOf(s) = job.from \/ RestOf(s) = 0
      /\ job.from >= 64 /\ job.from <= 8 * job.bytes => s.ok /\ PosOf(s) = job.from
  BY <1>2, <1>3, Seeking DEF Types
<1> HIDE DEF s
<1>5. StreamOK' /\ Pos' = PosOf(s) /\ read_bits' = s.read_bits
  BY <1>1, <1>4, SettingStream
<1>6. Rest' = RestOf(s)
  BY <1>1, <1>5 DEF Rest, RestOf
<1>7. Types'
  <2>1. pc' \in {"crc", "null"}
    BY <1>1
  <2> QED BY <1>1, <1>2, <1>5, <2>1, JobFrame DEF Types, bitbuf
<1>8. (current_bit = 0 /\ current_byte = 0 /\ Spare)'
  BY <1>1, <1>2 DEF bitbuf, Spare
<1>9. Seekable /\ Readable => s.ok /\ PosOf(s) = job.from
  BY <1>3, <1>4 DEF Seekable, Readable
<1>10. s.ok => Sought'
  <2>1. Holds' /\ 8 * read_bytes' = job.header
    BY <1>1, <1>2, <1>3, HoldsFrame DEF Heading, Types, StreamOK
  <2>2. s.ok /\ Seekable => Pos' = job.from \/ (Rest' = 0 /\ ~Readable)
    BY <1>4, <1>5, <1>6, <1>9 DEF Seekable
  <2> QED BY <1>1, <1>4, <1>5, <2>1, <2>2, JobFrame DEF Sought
<1>11. Phase'
  <2>1. CASE s.ok
    BY <1>1, <1>2, <1>8, <1>10, <2>1 DEF Phase
  <2>2. CASE ~s.ok
    <3>1. Seekable' => ~Readable'
      BY <1>1, <1>9, <2>2, JobFrame
    <3> QED BY <1>1, <1>8, <2>2, <3>1 DEF Phase
  <2> QED BY <2>1, <2>2
<1>12. Room'
  BY <1>1, <1>2 DEF Room
<1> QED BY <1>7, <1>11, <1>12 DEF IInv

LEMMA ReadCrcStep == ASSUME IInv, ReadCrc PROVE IInv'
<1> DEFINE s == ReadBits(Stream, 32)
           crc == IF s.ok THEN Junior(s) ELSE [i \in 1 .. 32 |-> EofBit]
<1>1. /\ pc = "crc" /\ SetStream(s) /\ block_crc' = crc /\ Store(crc)
      /\ pc' = "payload" /\ job' = job /\ bitbuf' = bitbuf
  BY DEF ReadCrc
<1>2. Types /\ Sought /\ job.header % 8 = 0 /\ current_bit = 0 /\ current_byte = 0 /\ Spare /\ Room
  BY <1>1 DEF IInv, Phase
<1>3. /\ job \in Jobs
      /\ job.header \in Nat /\ job.from \in Nat /\ job.to \in Nat /\ job.bytes \in Nat
      /\ job.header <= job.from /\ job.from + 130 <= job.to
      /\ BufferBytes \in Nat /\ read_bytes \in Nat /\ read_bits \in Nat
      /\ AlignedEnd \in Nat /\ AlignedEnd >= job.from + 120 /\ AlignedEnd <= job.to + 1
      /\ 8 * BufferBytes = 224 + (AlignedEnd - job.from)
  BY <1>2, JobFacts, Shape DEF Types, StreamOK
<1>4. /\ StreamOK' /\ Pos \in Nat
      /\ s.ok => /\ Pos' = Pos + 32 /\ read_bits' = read_bits + 32
                 /\ Pos + 32 <= 8 * job.bytes
                 /\ \A i \in 1 .. 32 : register'[32 + i] = Bit(Pos + i - 1)
      /\ ~s.ok => Rest' = 0 /\ read_bits' <= read_bits + 32 /\ Pos + 32 > 8 * job.bytes
  <2>1. 32 \in 0 .. 64 /\ StreamOK
    BY <1>2 DEF Types
  <2>2. /\ StreamOK' /\ Pos \in Nat
        /\ s.ok => /\ Pos' = Pos + 32 /\ read_bits' = read_bits + 32
                   /\ Pos + 32 <= 8 * job.bytes \/ 32 = 0
                   /\ \A i \in 1 .. 32 : register'[64 - 32 + i] = Bit(Pos + i - 1)
        /\ ~s.ok => Rest' = 0 /\ read_bits' <= read_bits + 32 /\ Pos + 32 > 8 * job.bytes
    BY <1>1, <1>3, <2>1, ReadStep
  <2>3. \A i \in 1 .. 32 : 64 - 32 + i = 32 + i
    OBVIOUS
  <2> HIDE DEF s
  <2> QED BY <2>2, <2>3
<1>5. register' = s.register /\ register' \in BitSeq(64)
  BY <1>1, <1>4 DEF SetStream, StreamOK
<1> HIDE DEF s
<1>6. Junior(s) \in BitSeq(32) /\ \A i \in 1 .. 32 : Junior(s)[i] = register'[32 + i]
  <2>1. s.register \in BitSeq(64) /\ 32 \in 0 .. 63
    BY <1>5
  <2>2. /\ SubSeq(s.register, 32 + 1, 64) \in BitSeq(64 - 32)
        /\ \A i \in 1 .. 64 - 32 : SubSeq(s.register, 32 + 1, 64)[i] = s.register[32 + i]
    BY <2>1, BitSeqPart
  <2> QED BY <1>5, <2>2 DEF Junior
<1>7. crc \in BitSeq(32)
  <2>1. [i \in 1 .. 32 |-> EofBit] \in BitSeq(32)
    BY OtherBits, BitSeqFromFunction
  <2> QED BY <1>6, <2>1
<1> DEFINE size == 8 * BufferBytes
<1>8. s.ok => \A i \in 1 .. 32 : crc[i] = Bit(Pos + i - 1)
  BY <1>4, <1>6
<1> HIDE DEF crc
<1>9. /\ buffer' \in BitSeq(size)
      /\ read_bytes' \in Nat /\ 8 * read_bytes' = 8 * read_bytes + 32
      /\ \A i \in 1 .. size :
            buffer'[i] = IF i > 8 * read_bytes /\ i <= 8 * read_bytes + 32
                           THEN crc[i - 8 * read_bytes] ELSE buffer[i]
      /\ overflow' = (overflow \/ 8 * read_bytes + 32 > size)
  <2>1. size \in Nat /\ buffer \in BitSeq(size)
    BY <1>2, <1>3 DEF Types
  <2> HIDE DEF size
  <2> QED BY <1>1, <1>3, <1>7, <2>1, Storing
<1>10. Types'
  <2>1. overflow' \in BOOLEAN
    BY <1>9
  <2>2. buffer' \in BitSeq(8 * BufferBytes')
    BY <1>1, <1>9, JobFrame
  <2>3. block_crc' \in BitSeq(32) /\ pc' = "payload"
    BY <1>1, <1>7
  <2>4. bit_buffer' = bit_buffer /\ current_byte' = current_byte /\ current_bit' = current_bit
    BY <1>1 DEF bitbuf
  <2> QED BY <1>1, <1>2, <1>4, <1>9, <2>1, <2>2, <2>3, <2>4 DEF Types
<1>11. (current_bit = 0 /\ current_byte = 0 /\ Spare)'
  BY <1>1, <1>2 DEF bitbuf, Spare
<1>12. 8 * read_bytes = job.header /\ read_bits = job.from /\ Holds
       /\ (Seekable => Pos = job.from \/ (Rest = 0 /\ ~Readable))
  BY <1>2 DEF Sought
<1>13. Room'
  <2>1. job.header <= 136 => ~(8 * read_bytes + 32 > 8 * BufferBytes)
    BY <1>3, <1>12
  <2> QED BY <1>1, <1>2, <1>9, <2>1 DEF Room
<1>14. CASE s.ok
  <2>1. ASSUME Seekable PROVE Pos = job.from
    BY <1>3, <1>4, <1>12, <1>14, <2>1 DEF Rest
  <2>2. ASSUME Seekable PROVE Holds'
    <3>1. ASSUME NEW i \in 1 .. size, i > 8 * read_bytes, i <= 8 * read_bytes + 32
          PROVE  crc[i - 8 * read_bytes] = Bit(job.from + (i - 8 * read_bytes) - 1)
      <4> DEFINE j == i - 8 * read_bytes
      <4>1. j \in 1 .. 32
        BY <1>3, <3>1
      <4> HIDE DEF j
      <4>2. crc[j] = Bit(job.from + j - 1)
        BY <1>8, <1>14, <2>1, <2>2, <4>1
      <4> QED BY <4>2 DEF j
    <3>2. \A i \in 1 .. 8 * BufferBytes :
             buffer'[i] = IF i > 8 * read_bytes /\ i <= 8 * read_bytes + 32
                            THEN Bit(job.from + (i - 8 * read_bytes) - 1) ELSE buffer[i]
      BY <1>9, <3>1
    <3>3. 32 \in Nat /\ 8 * read_bytes >= job.header /\ job.from = job.from + (8 * read_bytes - job.header)
      BY <1>3, <1>12
    <3> QED BY <1>1, <1>3, <1>9, <1>12, <3>2, <3>3, HoldsMore
  <2>3. ASSUME Seekable PROVE InFile' /\ CrcHeld'
    <3>1. InFile'
      BY <1>1, <1>4, <1>12, <1>14, <2>1, <2>3 DEF InFile
    <3>2. \A i \in 1 .. 32 : crc[i] = Bit(job.from + i - 1)
      BY <1>8, <1>14, <2>1, <2>3
    <3> QED BY <1>1, <3>1, <3>2 DEF CrcHeld
  <2>4. Copying'
    <3>1. (8 * read_bytes = job.header + (read_bits - job.from))'
      <4>1. 8 * read_bytes' = job.header + 32 /\ read_bits' = job.from + 32
        BY <1>3, <1>4, <1>9, <1>12, <1>14
      <4> HIDE DEF size
      <4> QED BY <1>1, <1>3, <4>1
    <3>2. (read_bits >= job.from + 32 /\ read_bits <= AlignedEnd)'
      BY <1>1, <1>3, <1>4, <1>12, <1>14, JobFrame
    <3> QED BY <1>1, <2>2, <2>3, <3>1, <3>2, JobFrame DEF Copying
  <2>5. Phase'
    BY <1>1, <1>2, <1>11, <2>4 DEF Phase
  <2> QED BY <1>10, <1>13, <2>5 DEF IInv
<1>15. CASE ~s.ok
  <2>1. ASSUME Seekable, Readable PROVE FALSE
    <3>1. Pos = job.from
      BY <1>12, <2>1
    <3> QED BY <1>3, <1>4, <1>15, <2>1, <3>1 DEF Readable
  <2>2. Lost'
    <3>1. read_bits' < AlignedEnd /\ Rest' = 0
      <4>1. read_bits' \in Nat
        BY <1>4 DEF StreamOK
      <4> QED BY <1>3, <1>4, <1>12, <1>15, <4>1
    <3> QED BY <1>1, <1>9, <1>12, <2>1, <3>1, JobFrame DEF Lost
  <2>3. Phase'
    BY <1>1, <1>2, <1>11, <2>2 DEF Phase
  <2> QED BY <1>10, <1>13, <2>3 DEF IInv
<1> QED BY <1>14, <1>15

LEMMA PayloadByteStep == ASSUME IInv, PayloadByte PROVE IInv'
<1>1. pc = "payload" /\ read_bits < AlignedEnd /\ CopyByte /\ job' = job
  BY DEF PayloadByte
<1>2. Types /\ (Copying \/ Lost) /\ job.header % 8 = 0 /\ current_bit = 0 /\ current_byte = 0
      /\ Spare /\ Room
  BY <1>1 DEF IInv, Phase
<1>3. /\ job \in Jobs
      /\ job.header \in Nat /\ job.from \in Nat /\ job.to \in Nat /\ job.bytes \in Nat
      /\ job.header <= job.from /\ job.from + 130 <= job.to
      /\ BufferBytes \in Nat /\ read_bytes \in Nat /\ read_bits \in Nat
      /\ AlignedEnd \in Nat /\ AlignedEnd <= job.to + 1
      /\ (AlignedEnd - job.from) % 8 = 0
      /\ 8 * BufferBytes = 224 + (AlignedEnd - job.from)
  BY <1>2, JobFacts, Shape DEF Types, StreamOK
<1>4. Types' /\ bitbuf' = bitbuf /\ block_crc' = block_crc
  BY <1>1, <1>2, Copied
<1>5. (current_bit = 0 /\ current_byte = 0 /\ Spare)'
  BY <1>2, <1>4 DEF bitbuf, Spare
<1>6. CASE pc' = "null" /\ overflow' = overflow /\ Pos + 8 > 8 * job.bytes
  <2>1. Seekable => ~Readable
    <3>1. CASE Lost
      BY <3>1 DEF Lost
    <3>2. CASE Copying
      <4>1. read_bits + 8 <= AlignedEnd
        BY <1>1, <1>2, <1>3, <3>2 DEF Copying
      <4> QED BY <1>3, <1>6, <3>2, <4>1 DEF Copying, InFile, Readable
    <3> QED BY <1>2, <3>1, <3>2
  <2>2. Phase'
    BY <1>1, <1>5, <1>6, <2>1, JobFrame DEF Phase
  <2>3. Room'
    BY <1>1, <1>2, <1>6 DEF Room
  <2> QED BY <1>4, <2>2, <2>3 DEF IInv
<1>7. CASE /\ pc' = pc /\ Pos' = Pos + 8 /\ Pos + 8 <= 8 * job.bytes
           /\ read_bits' = read_bits + 8 /\ 8 * read_bytes' = 8 * read_bytes + 8
           /\ \A i \in 1 .. 8 * BufferBytes :
                 buffer'[i] = IF i > 8 * read_bytes /\ i <= 8 * read_bytes + 8
                                THEN Bit(Pos + (i - 8 * read_bytes) - 1) ELSE buffer[i]
           /\ overflow' = (overflow \/ 8 * read_bytes + 8 > 8 * BufferBytes)
  <2>1. Copying
    <3>1. Pos \in Int
      BY <1>2 DEF Types, StreamOK, Pos
    <3> QED BY <1>2, <1>3, <1>7, <3>1 DEF Lost, Rest
  <2>2. /\ 8 * read_bytes = job.header + (read_bits - job.from)
        /\ read_bits >= job.from + 32 /\ read_bits + 8 <= AlignedEnd
    BY <1>1, <1>2, <1>3, <2>1 DEF Copying
  <2>3. ASSUME Seekable PROVE InFile' /\ Holds' /\ CrcHeld'
    <3>1. Pos = read_bits /\ Holds /\ CrcHeld
      BY <2>1, <2>3 DEF Copying, InFile
    <3>2. Holds'
      <4>1. 8 \in Nat /\ Pos \in Nat /\ read_bytes' \in Nat
            /\ 8 * read_bytes >= job.header /\ Pos = job.from + (8 * read_bytes - job.header)
        BY <1>3, <1>4, <2>2, <3>1 DEF Types
      <4> QED BY <1>1, <1>3, <1>7, <3>1, <4>1, HoldsMore
    <3>3. InFile' /\ CrcHeld'
      BY <1>1, <1>4, <1>7, <3>1 DEF InFile, CrcHeld
    <3> QED BY <3>2, <3>3
  <2>4. Copying'
    <3>1. (8 * read_bytes = job.header + (read_bits - job.from))'
      BY <1>1, <1>3, <1>7, <2>2
    <3>2. (read_bits >= job.from + 32 /\ read_bits <= AlignedEnd)'
      BY <1>1, <1>3, <1>7, <2>2, JobFrame
    <3> QED BY <1>1, <2>3, <3>1, <3>2, JobFrame DEF Copying
  <2>5. Phase'
    BY <1>1, <1>2, <1>5, <1>7, <2>4 DEF Phase
  <2>6. Room'
    <3>1. job.header <= 136 => ~(8 * read_bytes + 8 > 8 * BufferBytes)
      BY <1>3, <2>2
    <3> QED BY <1>1, <1>2, <1>7, <3>1 DEF Room
  <2> QED BY <1>4, <2>5, <2>6 DEF IInv
<1> QED BY <1>1, <1>2, <1>6, <1>7, Copied

LEMMA PayloadDoneStep == ASSUME IInv, PayloadDone PROVE IInv'
<1>1. /\ pc = "payload" /\ read_bits >= AlignedEnd /\ pc' = "tail"
      /\ job' = job /\ stream' = stream /\ buffer' = buffer /\ read_bytes' = read_bytes
      /\ block_crc' = block_crc /\ bitbuf' = bitbuf /\ overflow' = overflow
  BY DEF PayloadDone
<1>2. Types /\ (Copying \/ Lost) /\ job.header % 8 = 0 /\ current_bit = 0 /\ current_byte = 0
      /\ Spare /\ Room
  BY <1>1 DEF IInv, Phase
<1>3. AlignedEnd \in Nat /\ UnalignedBits \in 0 .. 7 /\ read_bits \in Nat
      /\ job.from \in Nat /\ job.header \in Nat
  BY <1>2, Shape, JobFacts DEF Types, StreamOK
<1>4. Copying /\ read_bits = AlignedEnd
  BY <1>1, <1>2, <1>3 DEF Copying, Lost
<1>5. Types'
  BY <1>1, <1>2, JobFrame DEF Types, StreamOK, stream, bitbuf
<1>6. (current_bit = 0 /\ current_byte = 0 /\ Spare)'
  BY <1>1, <1>2 DEF bitbuf, Spare
<1>7. Trailing'
  <2>1. (8 * read_bytes = WholeBytes /\ read_bits = AlignedEnd + current_bit
           /\ current_bit <= UnalignedBits)'
    BY <1>1, <1>3, <1>4, <1>6, JobFrame DEF Copying, WholeBytes, stream
  <2>2. ASSUME Seekable PROVE InFile' /\ Holds' /\ CrcHeld'
    BY <1>1, <1>4, <2>2, HoldsFrame DEF Copying, InFile, CrcHeld, Pos, stream
  <2>3. TailHeld'
    BY <1>6 DEF TailHeld
  <2> QED BY <1>1, <2>1, <2>2, <2>3, JobFrame DEF Trailing
<1>8. Phase'
  BY <1>1, <1>2, <1>6, <1>7 DEF Phase
<1>9. Room'
  BY <1>1, <1>2 DEF Room
<1> QED BY <1>5, <1>8, <1>9 DEF IInv

LEMMA TailBitStep == ASSUME IInv, TailBit PROVE IInv'
<1> DEFINE s == ReadBits(Stream, 1)
           last == SubSeq(s.register, 64, 64)
           b == AppendBits(BitBuf, last)
<1>1. /\ pc = "tail" /\ current_bit < UnalignedBits /\ SetStream(s) /\ job' = job
      /\ s.ok /\ b.ok => SetBitBuf(b) /\ UNCHANGED <<buffer, read_bytes, block_crc, pc>>
      /\ ~(s.ok /\ b.ok) => Fail
  BY DEF TailBit
<1>2. Types /\ Trailing /\ job.header % 8 = 0 /\ current_byte = 0 /\ Spare /\ Room
  BY <1>1 DEF IInv, Phase
<1>3. /\ job \in Jobs
      /\ job.header \in Nat /\ job.from \in Nat /\ job.to \in Nat /\ job.bytes \in Nat
      /\ BufferBytes \in Nat /\ read_bytes \in Nat /\ read_bits \in Nat
      /\ AlignedEnd \in Nat /\ UnalignedBits \in 0 .. 7
      /\ AlignedEnd + UnalignedBits = job.to + 1
      /\ current_bit \in 0 .. 7 /\ current_bit + 1 <= 7
      /\ read_bits = AlignedEnd + current_bit
  BY <1>1, <1>2, JobFacts, Shape DEF Types, StreamOK, Trailing
<1>4. /\ StreamOK' /\ Pos \in Nat
      /\ s.ok => /\ Pos' = Pos + 1 /\ read_bits' = read_bits + 1
                 /\ Pos + 1 <= 8 * job.bytes
                 /\ register'[64] = Bit(Pos)
      /\ ~s.ok => Pos + 1 > 8 * job.bytes
  <2>1. 1 \in 0 .. 64 /\ StreamOK
    BY <1>2 DEF Types
  <2>2. /\ StreamOK' /\ Pos \in Nat
        /\ s.ok => /\ Pos' = Pos + 1 /\ read_bits' = read_bits + 1
                   /\ Pos + 1 <= 8 * job.bytes \/ 1 = 0
                   /\ \A i \in 1 .. 1 : register'[64 - 1 + i] = Bit(Pos + i - 1)
        /\ ~s.ok => Pos + 1 > 8 * job.bytes
    BY <1>1, <1>3, <2>1, ReadStep
  <2>3. 1 \in 1 .. 1 /\ 64 - 1 + 1 = 64 /\ (Pos \in Nat => Pos + 1 - 1 = Pos)
    OBVIOUS
  <2> HIDE DEF s
  <2> QED BY <2>2, <2>3
<1>5. register' = s.register /\ register' \in BitSeq(64)
  BY <1>1, <1>4 DEF SetStream, StreamOK
<1> HIDE DEF s
<1>6. last \in BitSeq(1) /\ last[1] = register'[64]
  <2>1. s.register \in BitSeq(64) /\ 63 \in 0 .. 63
    BY <1>5
  <2>2. /\ SubSeq(s.register, 63 + 1, 64) \in BitSeq(64 - 63)
        /\ \A i \in 1 .. 64 - 63 : SubSeq(s.register, 63 + 1, 64)[i] = s.register[63 + i]
    BY <2>1, BitSeqPart
  <2> QED BY <1>5, <2>2
<1> HIDE DEF last
<1>7. /\ b.data \in BitSeq(88)
      /\ \A i \in 1 .. 88 :
            b.data[i] = IF i <= current_bit THEN bit_buffer[i]
                        ELSE IF i <= current_bit + 1 THEN last[i - current_bit] ELSE Zero
      /\ b.cbyte = 0 /\ b.cbit = current_bit + 1
      /\ b.past = FALSE /\ b.ok = TRUE
  <2>1. bit_buffer \in BitSeq(88) /\ 1 \in {1, 80}
    BY <1>2 DEF Types
  <2>2. /\ b.data \in BitSeq(88)
        /\ \A i \in 1 .. 88 :
              b.data[i] = IF i <= current_bit THEN bit_buffer[i]
                          ELSE IF i <= current_bit + 1 THEN last[i - current_bit] ELSE Zero
        /\ b.cbyte = (current_bit + 1) \div 8 /\ b.cbit = (current_bit + 1) % 8
        /\ b.past = FALSE /\ b.ok = TRUE
    BY <1>2, <1>3, <1>6, <2>1, Appending
  <2>3. (current_bit + 1) \div 8 = 0 /\ (current_bit + 1) % 8 = current_bit + 1
    BY <1>3
  <2> QED BY <2>2, <2>3
<1> HIDE DEF b
<1>8. CASE ~s.ok
  <2>1. /\ pc' = "null" /\ buffer' = buffer /\ read_bytes' = read_bytes
        /\ block_crc' = block_crc /\ bitbuf' = bitbuf /\ overflow' = overflow
    BY <1>1, <1>8 DEF Fail
  <2>2. Seekable => ~Readable
    BY <1>1, <1>2, <1>3, <1>4, <1>8 DEF Trailing, InFile, Readable
  <2>3. Types'
    BY <1>1, <1>2, <1>4, <2>1, JobFrame DEF Types, bitbuf
  <2>4. Phase'
    BY <1>1, <2>1, <2>2, JobFrame DEF Phase
  <2>5. Room'
    BY <1>1, <1>2, <2>1 DEF Room
  <2> QED BY <2>3, <2>4, <2>5 DEF IInv
<1>9. CASE s.ok
  <2>1. /\ buffer' = buffer /\ read_bytes' = read_bytes /\ block_crc' = block_crc /\ pc' = pc
        /\ bit_buffer' = b.data /\ current_byte' = 0 /\ current_bit' = current_bit + 1
        /\ overflow' = overflow
    <3>1. s.ok /\ b.ok
      BY <1>7, <1>9
    <3>2. SetBitBuf(b) /\ UNCHANGED <<buffer, read_bytes, block_crc, pc>>
      BY <1>1, <3>1
    <3>3. overflow \in BOOLEAN
      BY <1>2 DEF Types
    <3> QED BY <1>7, <3>2, <3>3 DEF SetBitBuf
  <2>2. Types'
    <3>1. bit_buffer' \in BitSeq(88) /\ current_byte' \in 0 .. 11 /\ current_bit' \in 0 .. 7
      BY <1>3, <1>7, <2>1
    <3> QED BY <1>1, <1>2, <1>4, <2>1, <3>1, JobFrame DEF Types
  <2>3. Spare'
    <3>1. ASSUME NEW i \in 1 .. 88, i > current_bit + 1 PROVE b.data[i] = Zero
      BY <1>3, <1>7, <3>1
    <3> QED BY <2>1, <3>1 DEF Spare
  <2>4. ASSUME Seekable PROVE InFile' /\ Holds' /\ CrcHeld' /\ TailHeld'
    <3>1. Pos = read_bits /\ Holds /\ CrcHeld /\ TailHeld
      BY <1>2, <2>4 DEF Trailing, InFile
    <3>2. InFile' /\ Holds' /\ CrcHeld'
      BY <1>1, <1>4, <1>9, <2>1, <3>1, HoldsFrame DEF InFile, CrcHeld
    <3>3. ASSUME NEW i \in 1 .. 88, i <= current_bit + 1
          PROVE  b.data[i] = Bit(AlignedEnd + i - 1)
      <4>1. CASE i <= current_bit
        BY <1>7, <3>1, <4>1 DEF TailHeld
      <4>2. CASE i = current_bit + 1
        <5>1. b.data[i] = last[1]
          <6>1. ~(i <= current_bit) /\ i <= current_bit + 1 /\ i - current_bit = 1
            BY <1>3, <4>2
          <6> QED BY <1>7, <6>1
        <5>2. Pos = AlignedEnd + i - 1
          BY <1>3, <3>1, <4>2
        <5> QED BY <1>4, <1>6, <1>9, <5>1, <5>2
      <4> QED BY <1>3, <3>3, <4>1, <4>2
    <3>4. TailHeld'
      BY <1>1, <2>1, <3>3, JobFrame DEF TailHeld
    <3> QED BY <3>2, <3>4
  <2>5. Trailing'
    <3>1. (8 * read_bytes = WholeBytes /\ read_bits = AlignedEnd + current_bit
             /\ current_bit <= UnalignedBits)'
      BY <1>1, <1>2, <1>3, <1>4, <1>9, <2>1, JobFrame DEF Trailing
    <3> QED BY <1>1, <2>4, <3>1, JobFrame DEF Trailing
  <2>6. Phase'
    BY <1>1, <1>2, <2>1, <2>3, <2>5 DEF Phase
  <2>7. Room'
    BY <1>1, <1>2, <2>1 DEF Room
  <2> QED BY <2>2, <2>6, <2>7 DEF IInv
<1> QED BY <1>8, <1>9

LEMMA AppendFooterStep == ASSUME IInv, AppendFooter PROVE IInv'
<1> DEFINE bits == Footer \o block_crc
           b == AppendBits(BitBuf, bits)
<1>1. /\ pc = "tail" /\ current_bit >= UnalignedBits /\ job' = job /\ stream' = stream
      /\ b.ok => SetBitBuf(b) /\ pc' = "flush" /\ UNCHANGED <<buffer, read_bytes, block_crc>>
  BY DEF AppendFooter
<1>2. Types /\ Trailing /\ job.header % 8 = 0 /\ current_byte = 0 /\ Spare /\ Room
  BY <1>1 DEF IInv, Phase
<1>3. /\ job \in Jobs /\ job.to \in Nat /\ job.bytes \in Nat /\ job.from \in Nat
      /\ AlignedEnd \in Nat /\ UnalignedBits \in 0 .. 7
      /\ AlignedEnd + UnalignedBits = job.to + 1
      /\ current_bit = UnalignedBits /\ current_bit \in 0 .. 7
      /\ read_bits = AlignedEnd + current_bit
  <2>1. job \in Jobs /\ current_bit \in 0 .. 7
    BY <1>2 DEF Types
  <2>2. read_bits = AlignedEnd + current_bit /\ current_bit <= UnalignedBits
    BY <1>2 DEF Trailing
  <2>3. /\ AlignedEnd \in Nat /\ UnalignedBits \in 0 .. 7
        /\ AlignedEnd + UnalignedBits = job.to + 1
    BY <2>1, Shape
  <2>4. current_bit = UnalignedBits
    BY <1>1, <2>1, <2>2, <2>3
  <2> QED BY <2>1, <2>2, <2>3, <2>4, JobFacts
<1>4. /\ bits \in BitSeq(80)
      /\ \A i \in 1 .. 80 : bits[i] = IF i <= 48 THEN FooterBit(i) ELSE block_crc[i - 48]
  <2>1. Footer \in BitSeq(48) /\ \A i \in 1 .. 48 : Footer[i] = FooterBit(i)
    BY FooterIsBits
  <2>2. block_crc \in BitSeq(32)
    BY <1>2 DEF Types
  <2>3. /\ bits \in BitSeq(48 + 32)
        /\ \A i \in 1 .. 48 + 32 : bits[i] = IF i <= 48 THEN Footer[i] ELSE block_crc[i - 48]
    <3>1. 48 \in Nat /\ 32 \in Nat
      OBVIOUS
    <3> QED BY <2>1, <2>2, <3>1, BitSeqJoin, ZenonT(40)
  <2> HIDE DEF bits
  <2> QED BY <2>1, <2>3
<1> HIDE DEF bits
<1>5. /\ b.data \in BitSeq(88)
      /\ \A i \in 1 .. 88 :
            b.data[i] = IF i <= current_bit THEN bit_buffer[i]
                        ELSE IF i <= current_bit + 80 THEN bits[i - current_bit] ELSE Zero
      /\ b.cbyte = (current_bit + 80) \div 8 /\ b.cbit = (current_bit + 80) % 8
      /\ b.past = FALSE /\ b.ok = TRUE
  <2>1. bit_buffer \in BitSeq(88) /\ 80 \in {1, 80}
    BY <1>2 DEF Types
  <2> QED BY <1>2, <1>3, <1>4, <2>1, Appending
<1>6. b.cbyte \in 0 .. 11 /\ b.cbit \in 0 .. 7
  <2>1. (current_bit + 80) \div 8 \in 0 .. 11 /\ (current_bit + 80) % 8 \in 0 .. 7
    BY <1>3
  <2> QED BY <1>5, <2>1
<1> HIDE DEF b
<1>7. /\ buffer' = buffer /\ read_bytes' = read_bytes /\ block_crc' = block_crc /\ pc' = "flush"
      /\ bit_buffer' = b.data /\ current_byte' = b.cbyte /\ current_bit' = b.cbit
      /\ overflow' = overflow
  <2>1. SetBitBuf(b) /\ pc' = "flush" /\ UNCHANGED <<buffer, read_bytes, block_crc>>
    BY <1>1, <1>5
  <2>2. overflow \in BOOLEAN
    BY <1>2 DEF Types
  <2> QED BY <1>5, <2>1, <2>2 DEF SetBitBuf
<1>8. Types'
  BY <1>1, <1>2, <1>5, <1>6, <1>7, JobFrame DEF Types, StreamOK, stream
<1>9. ASSUME Seekable PROVE Readable /\ Holds' /\ \A i \in 1 .. 88 : b.data[i] = Ending(i)
  <2>1. Pos = read_bits /\ Pos <= 8 * job.bytes /\ Holds /\ CrcHeld /\ TailHeld
    BY <1>2, <1>9 DEF Trailing, InFile
  <2>2. Readable
    BY <1>3, <2>1 DEF Readable
  <2>3. Holds'
    BY <1>1, <1>7, <2>1, HoldsFrame
  <2>4. ASSUME NEW i \in 1 .. 88 PROVE b.data[i] = Ending(i)
    <3> DEFINE j == i - UnalignedBits
    <3>1. CASE i <= UnalignedBits
      <4>1. b.data[i] = bit_buffer[i]
        BY <1>3, <1>5, <3>1
      <4>2. bit_buffer[i] = Bit(AlignedEnd + i - 1)
        BY <1>3, <2>1, <3>1 DEF TailHeld
      <4> QED BY <3>1, <4>1, <4>2 DEF Ending
    <3>2. CASE i > UnalignedBits /\ i <= UnalignedBits + 48
      <4>1. j \in 1 .. 80 /\ j <= 48 /\ j = i - current_bit
            /\ ~(i <= current_bit) /\ i <= current_bit + 80 /\ ~(i <= UnalignedBits)
        BY <1>3, <3>2
      <4> HIDE DEF j
      <4>2. b.data[i] = bits[j] /\ bits[j] = FooterBit(j)
        BY <1>4, <1>5, <4>1
      <4> QED BY <3>2, <4>1, <4>2 DEF Ending, j
    <3>3. CASE i > UnalignedBits + 48 /\ i <= UnalignedBits + 80
      <4>1. j \in 1 .. 80 /\ ~(j <= 48) /\ j = i - current_bit /\ j - 48 \in 1 .. 32
            /\ ~(i <= current_bit) /\ i <= current_bit + 80 /\ ~(i <= UnalignedBits)
            /\ ~(i <= UnalignedBits + 48)
        BY <1>3, <3>3
      <4> HIDE DEF j
      <4>2. b.data[i] = bits[j] /\ bits[j] = block_crc[j - 48]
        BY <1>4, <1>5, <4>1
      <4>3. block_crc[j - 48] = Bit(job.from + (j - 48) - 1)
        BY <2>1, <4>1 DEF CrcHeld
      <4> QED BY <3>3, <4>1, <4>2, <4>3 DEF Ending, j
    <3>4. CASE i > UnalignedBits + 80
      <4>1. ~(i <= current_bit) /\ ~(i <= current_bit + 80) /\ ~(i <= UnalignedBits)
            /\ ~(i <= UnalignedBits + 48) /\ ~(i <= UnalignedBits + 80)
        BY <1>3, <3>4
      <4>2. b.data[i] = Zero
        BY <1>5, <4>1
      <4> QED BY <4>1, <4>2 DEF Ending
    <3> HIDE DEF j
    <3> QED BY <1>3, <3>1, <3>2, <3>3, <3>4
  <2> QED BY <2>2, <2>3, <2>4
<1>10. Ended'
  <2>1. (8 * read_bytes = WholeBytes)'
    BY <1>1, <1>2, <1>7, JobFrame DEF Trailing
  <2>2. Seekable => \A i \in 1 .. 88 : bit_buffer'[i] = Ending(i)
    BY <1>7, <1>9
  <2>3. Seekable' => (\A i \in 1 .. 88 : bit_buffer[i] = Ending(i))'
    <3>1. Seekable' = Seekable
      BY <1>1, JobFrame
    <3>2. \A i \in 1 .. 88 : Ending(i)' = Ending(i)
      BY <1>1, JobFrame DEF Ending
    <3> QED BY <2>2, <3>1, <3>2
  <2> QED BY <1>1, <1>9, <2>1, <2>3, JobFrame DEF Ended
<1>11. Phase'
  BY <1>1, <1>2, <1>7, <1>10 DEF Phase
<1>12. Room'
  BY <1>1, <1>2, <1>7 DEF Room
<1> QED BY <1>8, <1>11, <1>12 DEF IInv

LEMMA FlushStep == ASSUME IInv, Flush PROVE IInv'
<1>1. /\ pc = "flush" /\ Store(bit_buffer) /\ pc' = "done"
      /\ job' = job /\ stream' = stream /\ block_crc' = block_crc /\ bitbuf' = bitbuf
  BY DEF Flush
<1>2. Types /\ Ended /\ job.header % 8 = 0 /\ Room
  BY <1>1 DEF IInv, Phase
<1>3. /\ job \in Jobs /\ BufferBytes \in Nat /\ read_bytes \in Nat
      /\ job.header \in Nat /\ job.from \in Nat /\ job.to \in Nat /\ job.header <= job.from
      /\ AlignedEnd \in Nat /\ UnalignedBits \in 0 .. 7 /\ AlignedEnd >= job.from
      /\ AlignedEnd + UnalignedBits = job.to + 1
      /\ 8 * BufferBytes = 224 + (AlignedEnd - job.from)
      /\ 8 * read_bytes = job.header + (AlignedEnd - job.from)
  BY <1>2, JobFacts, Shape DEF Types, Ended, WholeBytes
<1> DEFINE size == 8 * BufferBytes
<1>4. /\ buffer' \in BitSeq(size)
      /\ read_bytes' \in Nat /\ 8 * read_bytes' = 8 * read_bytes + 88
      /\ \A i \in 1 .. size :
            buffer'[i] = IF i > 8 * read_bytes /\ i <= 8 * read_bytes + 88
                           THEN bit_buffer[i - 8 * read_bytes] ELSE buffer[i]
      /\ overflow' = (overflow \/ 8 * read_bytes + 88 > size)
  <2>1. size \in Nat /\ buffer \in BitSeq(size) /\ bit_buffer \in BitSeq(88) /\ 88 \in {8, 32, 88}
    BY <1>2, <1>3 DEF Types
  <2> HIDE DEF size
  <2> QED BY <1>1, <1>3, <2>1, Storing
<1>5. Types'
  <2>1. overflow' \in BOOLEAN
    BY <1>4
  <2>2. buffer' \in BitSeq(8 * BufferBytes')
    BY <1>1, <1>4, JobFrame
  <2> QED BY <1>1, <1>2, <1>4, <2>1, <2>2 DEF Types, StreamOK, stream, bitbuf
<1>6. ASSUME Seekable, NEW i \in 1 .. size PROVE buffer'[i] = Final(i)
  <2> DEFINE end == job.header + (job.to - job.from + 1)
             j == i - 8 * read_bytes
             at == 8 * read_bytes
  <2>1. Holds /\ \A k \in 1 .. 88 : bit_buffer[k] = Ending(k)
    BY <1>2, <1>6 DEF Ended
  <2>2. at \in Nat /\ end = at + UnalignedBits /\ i \in Nat /\ i >= 1
        /\ at = job.header + (AlignedEnd - job.from)
    <3>1. i \in Nat /\ i >= 1
      BY <1>3
    <3>2. job.to - job.from + 1 = (AlignedEnd - job.from) + UnalignedBits
      BY <1>3
    <3> HIDE DEF size
    <3>3. at \in Nat /\ at = job.header + (AlignedEnd - job.from)
      BY <1>3
    <3>4. end = at + UnalignedBits
      <4>1. job.header \in Nat /\ job.to - job.from + 1 \in Int
            /\ AlignedEnd - job.from \in Int /\ UnalignedBits \in Nat
        BY <1>3
      <4> HIDE DEF j
      <4> QED BY <3>2, <3>3, <4>1
    <3> QED BY <3>1, <3>3, <3>4
  <2> HIDE DEF end, at
  <2>3. Final(i) = IF i <= end THEN Wanted(i)
                   ELSE IF i <= end + 48 THEN FooterBit(i - end)
                   ELSE IF i <= end + 80 THEN Bit(job.from + (i - end - 48) - 1)
                   ELSE Zero
    BY DEF Final, end
  <2>4. CASE i <= at
    <3>1. i <= end
      BY <1>3, <2>2, <2>4
    <3>2. buffer'[i] = buffer[i] /\ buffer[i] = Wanted(i)
      <4>1. ~(i > at)
        BY <2>2, <2>4
      <4>2. buffer'[i] = buffer[i]
        BY <1>4, <4>1 DEF at
      <4>3. buffer[i] = Wanted(i)
        BY <2>1, <2>4 DEF Holds, at
      <4> QED BY <4>2, <4>3
    <3> QED BY <2>3, <3>1, <3>2
  <2>5. CASE i > at /\ i <= at + 88
    <3>1. j \in 1 .. 88 /\ i = at + j
      BY <2>2, <2>5 DEF at
    <3>2. buffer'[i] = bit_buffer[j]
      BY <1>4, <2>5 DEF at
    <3> HIDE DEF j
    <3>3. buffer'[i] = Ending(j)
      BY <2>1, <3>1, <3>2
    <3>4. CASE j <= UnalignedBits
      <4>1. i <= end /\ ~(i <= job.header)
            /\ AlignedEnd + j - 1 = job.from + (i - job.header) - 1
        <5>1. i <= end
          BY <1>3, <2>2, <3>1, <3>4
        <5>2. i - job.header = (AlignedEnd - job.from) + j
          BY <1>3, <2>2, <3>1
        <5>3. ~(i <= job.header)
          BY <1>3, <2>2, <3>1, <5>2
        <5>4. AlignedEnd + j - 1 = job.from + (i - job.header) - 1
          BY <1>3, <3>1, <5>2
        <5> QED BY <5>1, <5>3, <5>4
      <4> QED BY <2>3, <3>3, <3>4, <4>1 DEF Ending, Wanted
    <3>5. CASE ~(j <= UnalignedBits)
      <4>1. ~(i <= end) /\ i - end = j - UnalignedBits
            /\ (i <= end + 48 <=> j <= UnalignedBits + 48)
            /\ (i <= end + 80 <=> j <= UnalignedBits + 80)
        <5>1. UnalignedBits \in Nat /\ at \in Nat /\ end = at + UnalignedBits /\ i \in Nat
              /\ j = i - at
          BY <1>3, <2>2, <3>1
        <5> HIDE DEF j
        <5> QED BY <3>5, <5>1
      <4> QED BY <2>3, <3>3, <3>5, <4>1 DEF Ending
    <3> QED BY <3>4, <3>5
  <2>6. CASE i > at + 88
    <3>1. ~(i <= at) /\ ~(i <= end) /\ ~(i <= end + 48) /\ ~(i <= end + 80)
      BY <1>3, <2>2, <2>6
    <3>2. buffer'[i] = buffer[i]
      BY <1>4, <2>6 DEF at
    <3>3. buffer[i] = Zero
      BY <2>1, <3>1 DEF Holds, at
    <3> QED BY <2>3, <3>1, <3>2, <3>3
  <2> QED BY <2>2, <2>4, <2>5, <2>6
<1>7. Complete'
  <2>1. (8 * read_bytes = WholeBytes + 88)'
    BY <1>1, <1>3, <1>4, JobFrame DEF WholeBytes
  <2>2. Seekable => \A i \in 1 .. 8 * BufferBytes : buffer'[i] = Final(i)
    BY <1>6
  <2>3. Seekable' => (\A i \in 1 .. 8 * BufferBytes : buffer[i] = Final(i))'
    BY <1>1, <2>2, JobFrame DEF Final, Wanted
  <2> QED BY <1>1, <1>2, <2>1, <2>3, JobFrame DEF Complete, Ended
<1>8. Phase'
  BY <1>1, <1>2, <1>7 DEF Phase
<1>9. Room'
  <2>1. job.header <= 136 => ~(8 * read_bytes + 88 > 8 * BufferBytes)
    BY <1>3
  <2> QED BY <1>1, <1>2, <1>4, <2>1 DEF Room
<1> QED BY <1>5, <1>8, <1>9 DEF IInv

LEMMA StutterStep == ASSUME IInv, UNCHANGED vars PROVE IInv'
<1>1. /\ job' = job /\ stream' = stream /\ buffer' = buffer /\ read_bytes' = read_bytes
      /\ block_crc' = block_crc /\ bitbuf' = bitbuf /\ overflow' = overflow /\ pc' = pc
  BY DEF vars
<1>2. /\ handle' = handle /\ live' = live /\ read_bits' = read_bits /\ register' = register
      /\ bit_buffer' = bit_buffer /\ current_byte' = current_byte /\ current_bit' = current_bit
  BY <1>1 DEF stream, bitbuf
<1>3. Types'
  BY <1>1, <1>2, JobFrame DEF IInv, Types, StreamOK
<1>4. Room'
  BY <1>1 DEF IInv, Room
<1>5. Phase'
  <2>1. Pos' = Pos /\ Rest' = Rest
    BY <1>1, <1>2 DEF Pos, Rest
  <2>2. Holds' <=> Holds
    BY <1>1, HoldsFrame
  <2>3. CrcHeld' <=> CrcHeld
    BY <1>1 DEF CrcHeld
  <2>4. TailHeld' <=> TailHeld
    BY <1>1, <1>2, JobFrame DEF TailHeld
  <2>5. InFile' <=> InFile
    BY <1>1, <1>2, <2>1 DEF InFile
  <2>6. Spare' <=> Spare
    BY <1>1, <1>2 DEF Spare
  <2>7. /\ (Opening' <=> Opening) /\ (Heading' <=> Heading)
        /\ (Sought' <=> Sought) /\ (Lost' <=> Lost)
    BY <1>1, <1>2, <2>1, <2>2, JobFrame DEF Opening, Heading, Sought, Lost
  <2>8. (Copying' <=> Copying) /\ (Trailing' <=> Trailing)
    BY <1>1, <1>2, <2>2, <2>3, <2>4, <2>5, JobFrame DEF Copying, Trailing
  <2>9. Ended' <=> Ended
    <3>1. \A i \in 1 .. 88 : Ending(i)' = Ending(i)
      BY <1>1, JobFrame DEF Ending
    <3> QED BY <1>1, <1>2, <2>2, <3>1, JobFrame DEF Ended
  <2>10. Complete' <=> Complete
    <3>1. \A i \in 1 .. 8 * BufferBytes : Final(i)' = Final(i)
      BY <1>1 DEF Final, Wanted
    <3> QED BY <1>1, <3>1, JobFrame DEF Complete
  <2>11. Phase
    BY DEF IInv
  <2> QED
    BY <1>1, <1>2, <2>6, <2>7, <2>8, <2>9, <2>10, <2>11, JobFrame DEF Phase
<1> QED BY <1>3, <1>4, <1>5 DEF IInv

LEMMA NextInv == ASSUME IInv, [Next]_vars PROVE IInv'
<1>1. CASE Open  BY <1>1, OpenStep
<1>2. CASE HeaderByte  BY <1>2, HeaderByteStep
<1>3. CASE Seek  BY <1>3, SeekStep
<1>4. CASE ReadCrc  BY <1>4, ReadCrcStep
<1>5. CASE PayloadByte  BY <1>5, PayloadByteStep
<1>6. CASE PayloadDone  BY <1>6, PayloadDoneStep
<1>7. CASE TailBit  BY <1>7, TailBitStep
<1>8. CASE AppendFooter  BY <1>8, AppendFooterStep
<1>9. CASE Flush  BY <1>9, FlushStep
<1>10. CASE UNCHANGED vars  BY <1>10, StutterStep
<1> QED
  BY <1>1, <1>2, <1>3, <1>4, <1>5, <1>6, <1>7, <1>8, <1>9, <1>10 DEF Next, Work, Returned

THEOREM Invariance == Spec => []IInv
<1>1. Init => IInv
  BY InitInv
<1>2. IInv /\ [Next]_vars => IInv'
  BY NextInv
<1> QED BY <1>1, <1>2, PTL DEF Spec

(* The sequences are as long as their bits, and hold nothing else. *)
LEMMA TypesMean == ASSUME IInv PROVE TypeOK
<1>1. /\ job \in Jobs /\ StreamOK /\ buffer \in BitSeq(8 * BufferBytes) /\ read_bytes \in Nat
      /\ block_crc \in BitSeq(32) /\ bit_buffer \in BitSeq(88) /\ overflow \in BOOLEAN
      /\ current_byte \in 0 .. 11 /\ current_bit \in 0 .. 7
      /\ pc \in {"open", "header", "crc", "payload", "tail", "flush", "done", "null", "abort"}
  BY DEF IInv, Types
<1> DEFINE size == 8 * BufferBytes
<1>2. size \in Nat
  BY <1>1, Shape
<1> HIDE DEF size
<1>3. buffer \in BitSeq(size)
  BY <1>1 DEF size
<1>4. Len(buffer) = size /\ \A i \in 1 .. size : buffer[i] \in AnyBit
  BY <1>2, <1>3, BitSeqFacts
<1>5. buffer \in Seq(AnyBit)
  BY <1>3 DEF BitSeq
<1>6. DOMAIN buffer = 1 .. size
  BY <1>4, <1>5
<1>7. \A i \in DOMAIN buffer : buffer[i][1] \in BitTags
  <2>1. ASSUME NEW x \in AnyBit PROVE x[1] \in BitTags
    BY DEF AnyBit
  <2> QED BY <1>4, <1>6, <2>1
<1>8. Len(register) = 64 /\ Len(block_crc) = 32 /\ Len(bit_buffer) = 8 * MaxBytes
  BY <1>1 DEF StreamOK, BitSeq, MaxBytes
<1>9. current_byte \in 0 .. MaxBytes
  BY <1>1 DEF MaxBytes
<1> QED BY <1>1, <1>4, <1>7, <1>8, <1>9 DEF TypeOK, StreamOK, size

(* Every variable of a call of Block_from keeps its C type. *)
THEOREM TypeCorrect == Spec => []TypeOK
<1>1. IInv => TypeOK
  BY TypesMean
<1> QED BY <1>1, Invariance, PTL

(***************************************************************************)
(* The stream's count of bits is its place in the file, for every file     *)
(* that still has the block.                                               *)
(***************************************************************************)
THEOREM CursorCorrect == Spec => []CursorAgrees
<1>1. IInv => CursorAgrees
  <2> SUFFICES ASSUME IInv, pc \in {"header", "crc", "payload", "tail"}, Readable, Seekable
               PROVE  read_bits = Pos
    BY DEF CursorAgrees, Pos
  <2>1. CASE pc = "header"
    BY <2>1 DEF IInv, Phase, Heading
  <2>2. CASE pc = "crc"
    BY <2>2 DEF IInv, Phase, Sought
  <2>3. CASE pc = "payload"
    BY <2>3 DEF IInv, Phase, Copying, Lost, InFile
  <2>4. CASE pc = "tail"
    BY <2>4 DEF IInv, Phase, Trailing, InFile
  <2> QED BY <2>1, <2>2, <2>3, <2>4
<1> QED BY <1>1, Invariance, PTL

(* A file's bits, in the form the concatenations are compared by. *)
LEMMA FileBitsFacts ==
    ASSUME NEW from \in Nat, NEW to \in Int, to >= from - 1
    PROVE  /\ FileBits(from, to) \in BitSeq(to - from + 1)
           /\ \A i \in 1 .. to - from + 1 : FileBits(from, to)[i] = Bit(from + i - 1)
<1> DEFINE n == to - from + 1
<1>1. n \in Nat
  OBVIOUS
<1> HIDE DEF n
<1>2. FileBits(from, to) = [i \in 1 .. n |-> Bit(from + i - 1)]
  BY DEF FileBits, n
<1>3. \A i \in 1 .. n : from + i - 1 \in Int
  BY <1>1
<1>4. FileBits(from, to) \in [1 .. n -> AnyBit]
  BY <1>2, <1>3, FileBitsAreBits
<1>5. FileBits(from, to) \in BitSeq(n)
  BY <1>1, <1>4, BitSeqFromFunction
<1> QED BY <1>2, <1>5 DEF n

(* The four parts of a result, joined. *)
IsJoin(s, m, n, h, c, f, r) ==
    /\ s \in BitSeq(m + n + 80)
    /\ \A i \in 1 .. m + n + 80 :
          s[i] = IF i <= m THEN h[i]
                 ELSE IF i <= m + n THEN c[i - m]
                 ELSE IF i <= m + n + 48 THEN f[i - (m + n)]
                 ELSE r[i - (m + n + 48)]

LEMMA JoinParts ==
    ASSUME NEW m \in Nat, NEW n \in Nat, NEW h \in BitSeq(m), NEW c \in BitSeq(n),
           NEW f \in BitSeq(48), NEW r \in BitSeq(32)
    PROVE  IsJoin(h \o c \o f \o r, m, n, h, c, f, r)
<1> DEFINE hc == h \o c
           k == m + n
<1>1. hc \in BitSeq(k) /\ \A i \in 1 .. k : hc[i] = IF i <= m THEN h[i] ELSE c[i - m]
  BY BitSeqJoin
<1>2. k \in Nat /\ 48 \in Nat /\ 32 \in Nat
  OBVIOUS
<1> HIDE DEF hc, k
<1> DEFINE hcf == hc \o f
           l == k + 48
<1>3. hcf \in BitSeq(l) /\ \A i \in 1 .. l : hcf[i] = IF i <= k THEN hc[i] ELSE f[i - k]
  BY <1>1, <1>2, BitSeqJoin
<1>4. l \in Nat /\ l = k + 48
  BY <1>2
<1> HIDE DEF hcf, l
<1> DEFINE all == hcf \o r
<1>5. all \in BitSeq(l + 32) /\ \A i \in 1 .. l + 32 : all[i] = IF i <= l THEN hcf[i] ELSE r[i - l]
  <2>1. l \in Nat /\ 32 \in Nat /\ hcf \in BitSeq(l) /\ r \in BitSeq(32)
    BY <1>2, <1>3, <1>4
  <2>2. /\ hcf \o r \in BitSeq(l + 32)
        /\ \A i \in 1 .. l + 32 : (hcf \o r)[i] = IF i <= l THEN hcf[i] ELSE r[i - l]
    BY <2>1, BitSeqJoin
  <2> QED BY <2>2
<1>6. k = m + n /\ l = m + n + 48 /\ l + 32 = m + n + 80
  BY <1>2, <1>4 DEF k
<1> HIDE DEF all
<1>7. ASSUME NEW i \in 1 .. m + n + 80
      PROVE  all[i] = IF i <= m THEN h[i]
                      ELSE IF i <= m + n THEN c[i - m]
                      ELSE IF i <= m + n + 48 THEN f[i - (m + n)]
                      ELSE r[i - (m + n + 48)]
  <2>1. i \in 1 .. l + 32 /\ (i <= l => i \in 1 .. l) /\ (i <= k => i \in 1 .. k /\ i <= l)
        /\ (i <= m => i <= k)
    BY <1>2, <1>4, <1>6
  <2>2. all[i] = IF i <= k THEN hc[i] ELSE IF i <= l THEN f[i - k] ELSE r[i - l]
    BY <1>3, <1>5, <2>1
  <2>3. i <= k => hc[i] = IF i <= m THEN h[i] ELSE c[i - m]
    BY <1>1, <2>1
  <2> QED BY <1>6, <2>1, <2>2, <2>3
<1>8. all = h \o c \o f \o r
  BY DEF all, hcf, hc
<1>9. IsJoin(all, m, n, h, c, f, r)
  BY <1>5, <1>6, <1>7 DEF IsJoin
<1> QED BY <1>8, <1>9

(* A beginning of a sequence is known by its elements. *)
LEMMA Beginning ==
    ASSUME NEW size \in Nat, NEW n \in Nat, n <= size,
           NEW s \in BitSeq(size), NEW t \in BitSeq(n),
           \A i \in 1 .. n : s[i] = t[i]
    PROVE  SubSeq(s, 1, n) = t
<1>1. s \in Seq(AnyBit) /\ Len(s) = size /\ t \in Seq(AnyBit) /\ Len(t) = n
  BY BitSeqFacts
<1> DEFINE part == SubSeq(s, 1, n)
<1>2. \A i \in 1 .. n : s[i] \in AnyBit
  BY <1>1, BitSeqFacts
<1>3. part \in Seq(AnyBit) /\ Len(part) = n /\ \A i \in 1 .. n : part[i] = s[i]
  <2>1. part \in Seq(AnyBit)
    BY <1>2, SubSeqProperties
  <2>2. Len(part) = n
    BY <1>1
  <2>3. \A i \in 1 .. n : part[i] = s[i]
    BY <1>1
  <2> QED BY <2>1, <2>2, <2>3
<1> HIDE DEF part
<1>4. \A i \in 1 .. n : part[i] = t[i]
  BY <1>3
<1>5. part = t
  BY <1>1, <1>3, <1>4, SeqEqual
<1> QED BY <1>5 DEF part

(***************************************************************************)
(* A file header, with no more than an empty part of a stream behind it:   *)
(* the length up to which a result surely fits.                            *)
(***************************************************************************)
ShortHeaders == \A j \in Jobs : j.header <= 136

(***************************************************************************)
(* At every step of the copy the result is the header and the block up to  *)
(* the reading position, for a header the buffer has room for; and that    *)
(* position is where the stream says it is.                                *)
(***************************************************************************)
THEOREM CopyCorrect ==
    ASSUME ShortHeaders
    PROVE  Spec => []CopiedInOrder
<1>1. IInv => PrefixCopied
  <2> SUFFICES ASSUME IInv, pc = "payload", Readable, Seekable
               PROVE  SubSeq(buffer, 1, 8 * read_bytes) =
                        FileBits(0, job.header - 1) \o FileBits(job.from, read_bits - 1)
    BY DEF PrefixCopied
  <2>1. Types /\ Copying
    BY DEF IInv, Phase, Lost
  <2>2. /\ job \in Jobs /\ job.header \in Nat /\ job.from \in Nat /\ job.header <= 136
        /\ BufferBytes \in Nat /\ read_bytes \in Nat /\ read_bits \in Nat
        /\ AlignedEnd \in Nat
        /\ 8 * BufferBytes = 224 + (AlignedEnd - job.from)
    BY <2>1, JobFacts, Shape DEF Types, StreamOK, ShortHeaders
  <2>3. /\ 8 * read_bytes = job.header + (read_bits - job.from)
        /\ read_bits >= job.from + 32 /\ read_bits <= AlignedEnd /\ Holds
    BY <2>1 DEF Copying
  <2> DEFINE m == job.header
             n == read_bits - job.from
             h == FileBits(0, m - 1)
             c == FileBits(job.from, read_bits - 1)
             size == 8 * BufferBytes
  <2>4. m \in Nat /\ n \in Nat /\ size \in Nat /\ m + n <= size /\ 8 * read_bytes = m + n
    BY <2>2, <2>3
  <2>5. h \in BitSeq(m) /\ \A i \in 1 .. m : h[i] = Bit(i - 1)
    <3>1. 0 \in Nat /\ m - 1 \in Int /\ m - 1 >= 0 - 1 /\ (m - 1) - 0 + 1 = m
      BY <2>4
    <3> HIDE DEF m
    <3>2. /\ h \in BitSeq((m - 1) - 0 + 1)
          /\ \A i \in 1 .. (m - 1) - 0 + 1 : h[i] = Bit(0 + i - 1)
      BY <3>1, FileBitsFacts
    <3>3. \A i \in 1 .. m : 0 + i - 1 = i - 1
      BY <2>4
    <3> HIDE DEF h
    <3> QED BY <3>1, <3>2, <3>3
  <2>6. c \in BitSeq(n) /\ \A i \in 1 .. n : c[i] = Bit(job.from + i - 1)
    <3>1. read_bits - 1 \in Int /\ read_bits - 1 >= job.from - 1 /\ (read_bits - 1) - job.from + 1 = n
      BY <2>2, <2>3
    <3> HIDE DEF n
    <3> QED BY <2>2, <3>1, FileBitsFacts
  <2>7. buffer \in BitSeq(size)
    BY <2>1 DEF Types
  <2> HIDE DEF m, n, h, c
  <2> DEFINE hc == h \o c
  <2>8. /\ hc \in BitSeq(m + n)
        /\ \A i \in 1 .. m + n : hc[i] = IF i <= m THEN h[i] ELSE c[i - m]
    <3>1. m \in Nat /\ n \in Nat /\ h \in BitSeq(m) /\ c \in BitSeq(n)
      BY <2>4, <2>5, <2>6
    <3> QED BY <3>1, BitSeqJoin
  <2> HIDE DEF hc
  <2>9. ASSUME NEW i \in 1 .. m + n PROVE buffer[i] = hc[i]
    <3>1. i \in 1 .. size /\ i <= 8 * read_bytes
      BY <2>4
    <3>2. buffer[i] = Wanted(i)
      BY <2>3, <3>1 DEF Holds
    <3>3. CASE i <= m
      <4>1. i \in 1 .. m
        BY <2>4, <3>3
      <4> QED BY <2>5, <2>8, <3>2, <3>3, <4>1 DEF Wanted, m
    <3>4. CASE ~(i <= m)
      <4>1. i - m \in 1 .. n /\ i \in Nat
        BY <2>4, <3>4
      <4> QED BY <2>6, <2>8, <3>2, <3>4, <4>1 DEF Wanted, m
    <3> QED BY <3>3, <3>4
  <2> HIDE DEF size
  <2>10. m + n \in Nat
    BY <2>4
  <2>11. SubSeq(buffer, 1, m + n) = hc
    BY <2>4, <2>7, <2>8, <2>9, <2>10, Beginning
  <2> QED BY <2>4, <2>11 DEF hc, h, c, m
<1>2. CursorAgrees /\ PrefixCopied => CopiedInOrder
  BY DEF CopiedInOrder
<1> QED BY <1>1, <1>2, CursorCorrect, Invariance, PTL

(***************************************************************************)
(* The result of a call is the stream it is meant to be, and NULL is only  *)
(* for a file that cannot be opened or does not have the block any more.   *)
(***************************************************************************)
THEOREM ResultCorrect ==
    ASSUME ShortHeaders
    PROVE  Spec => []ResultIsStream
<1>1. ASSUME IInv, Seekable, pc = "null" PROVE read_bits = 0 \/ ~Readable
  BY <1>1 DEF IInv, Phase
<1>2. ASSUME IInv, Seekable, pc = "done"
      PROVE  LET parts == FileBits(0, job.header - 1) \o FileBits(job.from, job.to)
                             \o Footer \o FileBits(job.from, job.from + 31)
             IN  /\ Readable
                 /\ SubSeq(buffer, 1, Len(parts)) = parts
                 /\ \A i \in Len(parts) + 1 .. Len(buffer) : buffer[i] = Zero
  <2>1. Types /\ Complete
    BY <1>2 DEF IInv, Phase
  <2>2. /\ job \in Jobs /\ job.header \in Nat /\ job.from \in Nat /\ job.to \in Nat
        /\ job.header <= 136 /\ job.from + 130 <= job.to
        /\ BufferBytes \in Nat /\ AlignedEnd \in Nat /\ UnalignedBits \in 0 .. 7
        /\ AlignedEnd + UnalignedBits = job.to + 1
        /\ 8 * BufferBytes = 224 + (AlignedEnd - job.from)
    BY <2>1, JobFacts, Shape DEF Types, ShortHeaders
  <2> DEFINE m == job.header
             n == job.to - job.from + 1
             h == FileBits(0, m - 1)
             c == FileBits(job.from, job.to)
             r == FileBits(job.from, job.from + 31)
             size == 8 * BufferBytes
  <2>3. m \in Nat /\ n \in Nat /\ size \in Nat /\ m + n + 80 <= size
    <3>1. n = (AlignedEnd - job.from) + UnalignedBits
      BY <2>2
    <3> QED BY <2>2, <3>1
  <2>4. h \in BitSeq(m) /\ \A i \in 1 .. m : h[i] = Bit(i - 1)
    <3>1. 0 \in Nat /\ m - 1 \in Int /\ m - 1 >= 0 - 1 /\ (m - 1) - 0 + 1 = m
      BY <2>3
    <3> HIDE DEF m
    <3>2. /\ h \in BitSeq((m - 1) - 0 + 1)
          /\ \A i \in 1 .. (m - 1) - 0 + 1 : h[i] = Bit(0 + i - 1)
      BY <3>1, FileBitsFacts
    <3>3. \A i \in 1 .. m : 0 + i - 1 = i - 1
      BY <2>3
    <3> HIDE DEF h
    <3> QED BY <3>1, <3>2, <3>3
  <2>5. c \in BitSeq(n) /\ \A i \in 1 .. n : c[i] = Bit(job.from + i - 1)
    <3>1. job.to \in Int /\ job.to >= job.from - 1
      BY <2>2
    <3> QED BY <2>2, <3>1, FileBitsFacts
  <2>6. r \in BitSeq(32) /\ \A i \in 1 .. 32 : r[i] = Bit(job.from + i - 1)
    <3> DEFINE last == job.from + 31
    <3>1. last \in Int /\ last >= job.from - 1 /\ last - job.from + 1 = 32
      BY <2>2
    <3> HIDE DEF last
    <3>2. /\ FileBits(job.from, last) \in BitSeq(last - job.from + 1)
          /\ \A i \in 1 .. last - job.from + 1 : FileBits(job.from, last)[i] = Bit(job.from + i - 1)
      BY <2>2, <3>1, FileBitsFacts
    <3>3. r = FileBits(job.from, last)
      BY DEF last
    <3> HIDE DEF r
    <3> QED BY <3>1, <3>2, <3>3
  <2>7. buffer \in BitSeq(size) /\ Readable /\ \A i \in 1 .. size : buffer[i] = Final(i)
    BY <1>2, <2>1 DEF Types, Complete
  <2>8. Footer \in BitSeq(48) /\ \A i \in 1 .. 48 : Footer[i] = FooterBit(i)
    BY FooterIsBits
  <2> HIDE DEF h, c, r, n, m, size
  <2> DEFINE parts == h \o c \o Footer \o r
  <2>9. /\ parts \in BitSeq(m + n + 80)
        /\ \A i \in 1 .. m + n + 80 :
              parts[i] = IF i <= m THEN h[i]
                         ELSE IF i <= m + n THEN c[i - m]
                         ELSE IF i <= m + n + 48 THEN Footer[i - (m + n)]
                         ELSE r[i - (m + n + 48)]
    <3>1. m \in Nat /\ n \in Nat /\ h \in BitSeq(m) /\ c \in BitSeq(n)
          /\ Footer \in BitSeq(48) /\ r \in BitSeq(32)
      BY <2>3, <2>4, <2>5, <2>6, <2>8
    <3>2. IsJoin(parts, m, n, h, c, Footer, r)
      BY <3>1, JoinParts
    <3> HIDE DEF parts
    <3> QED BY <3>2 DEF IsJoin
  <2> HIDE DEF parts
  <2>10. parts \in BitSeq(m + n + 80) /\ Len(parts) = m + n + 80
    BY <2>9 DEF BitSeq
  <2>11. ASSUME NEW i \in 1 .. m + n + 80 PROVE parts[i] = Final(i)
    <3>0. Final(i) = IF i <= m + n THEN Wanted(i)
                     ELSE IF i <= m + n + 48 THEN FooterBit(i - (m + n))
                     ELSE IF i <= m + n + 80 THEN Bit(job.from + (i - (m + n) - 48) - 1)
                     ELSE Zero
      BY DEF Final, m, n
    <3>1. CASE i <= m
      <4>1. i \in 1 .. m /\ i <= m + n
        BY <2>3, <3>1
      <4>2. parts[i] = h[i]
        BY <2>9, <3>1
      <4> QED BY <2>4, <3>0, <3>1, <4>1, <4>2 DEF Wanted, m
    <3>2. CASE ~(i <= m) /\ i <= m + n
      <4>1. i - m \in 1 .. n
        BY <2>3, <3>2
      <4>2. parts[i] = c[i - m]
        BY <2>9, <3>2
      <4> QED BY <2>5, <3>0, <3>2, <4>1, <4>2 DEF Wanted, m
    <3>3. CASE ~(i <= m + n) /\ i <= m + n + 48
      <4>1. i - (m + n) \in 1 .. 48 /\ ~(i <= m)
        BY <2>3, <3>3
      <4>2. parts[i] = Footer[i - (m + n)]
        BY <2>9, <3>3, <4>1
      <4> QED BY <2>8, <3>0, <3>3, <4>1, <4>2
    <3>4. CASE ~(i <= m + n + 48)
      <4>1. i - (m + n + 48) \in 1 .. 32 /\ ~(i <= m) /\ ~(i <= m + n) /\ i <= m + n + 80
            /\ i - (m + n) - 48 = i - (m + n + 48)
        BY <2>3, <3>4
      <4>2. parts[i] = r[i - (m + n + 48)]
        BY <2>9, <3>4, <4>1
      <4> QED BY <2>6, <3>0, <3>4, <4>1, <4>2
    <3> QED BY <2>3, <3>1, <3>2, <3>3, <3>4
  <2>12. SubSeq(buffer, 1, m + n + 80) = parts
    <3>1. \A i \in 1 .. m + n + 80 : buffer[i] = parts[i]
      <4>1. \A i \in 1 .. m + n + 80 : i \in 1 .. size
        BY <2>3
      <4> QED BY <2>7, <2>11, <4>1
    <3>2. m + n + 80 \in Nat
      BY <2>3
    <3> QED BY <2>3, <2>7, <2>10, <3>1, <3>2, Beginning
  <2>13. Len(buffer) = size
    BY <2>3, <2>7, BitSeqFacts
  <2>14. ASSUME NEW i \in m + n + 80 + 1 .. size PROVE buffer[i] = Zero
    <3>1. i \in 1 .. size /\ ~(i <= m + n) /\ ~(i <= m + n + 48) /\ ~(i <= m + n + 80)
      BY <2>3
    <3>2. Final(i) = Zero
      BY <3>1 DEF Final, m, n
    <3> QED BY <2>7, <3>1, <3>2
  <2>15. parts = FileBits(0, job.header - 1) \o FileBits(job.from, job.to)
                    \o Footer \o FileBits(job.from, job.from + 31)
    BY DEF parts, h, c, r, m
  <2> QED BY <2>7, <2>10, <2>12, <2>13, <2>14, <2>15
<1>3. IInv => ResultIsStream
  BY <1>1, <1>2 DEF ResultIsStream
<1> QED BY <1>3, Invariance, PTL

(***************************************************************************)
(* Nothing is written past the end of the buffer if what comes before the  *)
(* first block is no longer than a header and an empty part of a stream.   *)
(***************************************************************************)
THEOREM FitCorrect ==
    ASSUME ShortHeaders
    PROVE  Spec => []FitsBuffer
<1>1. IInv => FitsBuffer
  <2> SUFFICES ASSUME IInv PROVE FitsBuffer
    OBVIOUS
  <2>1. /\ job \in Jobs /\ job.header \in Nat /\ job.header <= 136 /\ job.from \in Nat
        /\ BufferBytes \in Nat /\ read_bytes \in Nat /\ AlignedEnd \in Nat
        /\ 8 * BufferBytes = 224 + (AlignedEnd - job.from)
    BY JobFacts, Shape DEF IInv, Types, ShortHeaders
  <2>2. ~overflow
    BY <2>1 DEF IInv, Room
  <2>3. ASSUME pc = "done" PROVE read_bytes <= BufferBytes
    <3>1. 8 * read_bytes = job.header + (AlignedEnd - job.from) + 88
      BY <2>3 DEF IInv, Phase, Complete, WholeBytes
    <3> QED BY <2>1, <3>1
  <2> QED BY <2>2, <2>3 DEF FitsBuffer
<1> QED BY <1>1, Invariance, PTL
=============================================================================
