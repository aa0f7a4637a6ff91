------------------------ MODULE BenchSequence_proof ------------------------
(***************************************************************************)
(* The benchmark driver's iterators, for objects of every length, samples  *)
(* of every size and every rate of writes.                                 *)
(***************************************************************************)
EXTENDS BenchSequence, Arithmetic, TLAPS

-----------------------------------------------------------------------------
(* Counting up steps through the remainders in a cycle. *)
LEMMA Successor ==
    ASSUME NEW x \in Nat, NEW w \in Nat, w > 0
    PROVE  (x + 1) % w = IF x % w = w - 1 THEN 0 ELSE (x % w) + 1
<1> DEFINE q == x \div w
           s == x % w
<1>1. x = q * w + s /\ s \in 0 .. w - 1 /\ q \in Int  BY DivisionFact
<1> HIDE DEF q, s
<1>2. CASE s = w - 1
  <2>1. x + 1 = (q + 1) * w + 0  BY <1>1, <1>2, SMT
  <2>2. (x + 1) % w = 0  BY <2>1, <1>1, RemainderIs
  <2> QED  BY <1>2, <2>2 DEF s
<1>3. CASE s # w - 1
  <2>1. x + 1 = q * w + (s + 1) /\ s + 1 \in 0 .. w - 1  BY <1>1, <1>3, SMT
  <2>2. (x + 1) % w = s + 1  BY <2>1, <1>1, RemainderIs
  <2> QED  BY <1>3, <2>2 DEF s
<1> QED  BY <1>2, <1>3

-----------------------------------------------------------------------------
(* The inductive invariant: where the iterator and its counter are after   *)
(* so many accesses, and which accesses those were.                        *)

N == Len(accesses)

(* While it runs, the iterator's position follows from the accesses. *)
Position ==
    pc = "run" =>
        IF config.pattern = "reverse"
          THEN N <= SequenceLength + 1 /\ current = SequenceLength + 1 - N
          ELSE N <= SequenceLength /\ current = N

(* So does the counter of the write flag. *)
Counter ==
    pc = "run" =>
        since_last_write =
            IF config.writes = 0
              THEN IF N = 0 THEN 0 ELSE SizeMod - N
              ELSE config.writes - (N % config.writes)

(* The i-th access of each pattern. *)
Trail ==
    \A i \in 1 .. N :
        CASE config.pattern = "scan"    -> accesses[i].index = i - 1
          [] config.pattern = "reverse" -> accesses[i].index = SequenceLength + 1 - i
          [] config.pattern = "random"  -> accesses[i].index \in 0 .. max_length - 1

(* How many there are in all. *)
Total == N <= Turns /\ (pc = "done" => N = Turns)

IInv == TypeOK /\ Position /\ Counter /\ Trail /\ Total /\ WritesAtRate

(* The sample is part of the object, whose length fits in a size_t. *)
LEMMA LengthFacts ==
    ASSUME TypeOK
    PROVE  /\ SequenceLength \in Nat
           /\ max_length \in Nat
           /\ SequenceLength <= max_length
           /\ SequenceLength + 2 <= SizeMod
           /\ SizeMod \in Nat
           /\ N \in Nat
           /\ config.writes \in 0 .. SizeMod - 1
           /\ config.pattern \in Patterns
<1>1. max_length \in 0 .. SizeMod - 2 /\ SizeMod \in Nat
  BY SizesAssumption DEF TypeOK
<1>2. /\ config.sample_size \in 0 .. SizeMod - 1
      /\ config.writes \in 0 .. SizeMod - 1
      /\ config.pattern \in Patterns
  BY SizesAssumption DEF TypeOK
<1>3. N \in Nat  BY DEF TypeOK, N
<1>4. SequenceLength \in Nat /\ SequenceLength <= max_length
  BY <1>1, <1>2 DEF SequenceLength, LengthOf
<1> QED  BY <1>1, <1>2, <1>3, <1>4

LEMMA InitInv == Init => IInv
<1> SUFFICES ASSUME Init PROVE IInv  OBVIOUS
<1>1. N = 0  BY DEF Init, N
<1>2. TypeOK
  <2>1. /\ max_length \in 0 .. SizeMod - 2 /\ SizeMod \in Nat
        /\ config.sample_size \in 0 .. SizeMod - 1
        /\ config.writes \in 0 .. SizeMod - 1
    BY SizesAssumption DEF Init
  <2>2. First(config, max_length) \in 0 .. SizeMod - 1
    BY <2>1 DEF First, LengthOf
  <2> QED  BY <2>1, <2>2 DEF Init, TypeOK
<1>3. Position /\ Trail /\ Total /\ WritesAtRate
  BY <1>1, <1>2, LengthFacts
  DEF Init, Position, Trail, Total, Turns, WritesAtRate, N, First, SequenceLength
<1>4. Counter
  <2>1. CASE config.writes = 0  BY <2>1, <1>1 DEF Counter, Init
  <2>2. CASE config.writes # 0
    <3>1. 0 % config.writes = 0
      BY <2>2, <1>2, LengthFacts, RemainderIs, 0 = 0 * config.writes + 0
    <3> QED  BY <2>2, <3>1, <1>1, <1>2, LengthFacts DEF Counter, Init
  <2> QED  BY <2>1, <2>2
<1> QED  BY <1>2, <1>3, <1>4 DEF IInv

-----------------------------------------------------------------------------
(* The counter after one more access, and what the write flag says of it. *)
LEMMA CountStep ==
    ASSUME IInv, pc = "run", N <= SequenceLength
    PROVE  /\ Countdown \in 0 .. SizeMod - 1
           /\ Countdown =
                IF config.writes = 0
                  THEN SizeMod - (N + 1)
                  ELSE config.writes - ((N + 1) % config.writes)
           /\ Write <=> config.writes # 0 /\ (N + 1) % config.writes = 0
<1> DEFINE w == config.writes
<1>1. w \in 0 .. SizeMod - 1 /\ N \in Nat /\ SizeMod \in Nat /\ N + 2 <= SizeMod
  BY LengthFacts DEF IInv
<1>2. since_last_write = IF w = 0 THEN IF N = 0 THEN 0 ELSE SizeMod - N
                                  ELSE w - (N % w)
  BY DEF IInv, Counter
<1> HIDE DEF w
<1>3. CASE w = 0
  <2>1. ~(since_last_write = 1)  BY <1>1, <1>2, <1>3
  <2>2. (since_last_write - 1) % SizeMod = SizeMod - (N + 1)
    <3>1. CASE N = 0
      <4>1. (since_last_write - 1) % SizeMod = SizeMod - 1
        BY <3>1, <1>1, <1>2, <1>3, SMT
      <4> QED  BY <4>1, <3>1
    <3>2. CASE N # 0
      <4>1. since_last_write - 1 \in 0 .. SizeMod - 1  BY <3>2, <1>1, <1>2, <1>3
      <4> QED  BY <4>1, <3>2, <1>1, <1>2, <1>3, SMT
    <3> QED  BY <3>1, <3>2
  <2> QED  BY <2>1, <2>2, <1>1, <1>3 DEF w, Countdown, Write
<1>4. CASE w # 0
  <2>1. N % w \in 0 .. w - 1  BY <1>1, <1>4, DivisionFact
  <2>2. (N + 1) % w = IF N % w = w - 1 THEN 0 ELSE (N % w) + 1
    <3>1. w \in Nat /\ w > 0  BY <1>1, <1>4
    <3> HIDE DEF N
    <3> QED  BY <1>1, <3>1, Successor
  <2>3. since_last_write = w - (N % w)  BY <1>2, <1>4
  <2> DEFINE s == N % w
             t == (N + 1) % w
  <2> HIDE DEF s, t
  <2>4. s \in 0 .. w - 1  BY <2>1 DEF s
  <2>5. t = IF s = w - 1 THEN 0 ELSE s + 1  BY <2>2 DEF s, t
  <2>6. since_last_write = w - s  BY <2>3 DEF s
  <2>7. CASE s = w - 1
    <3>1. since_last_write = 1 /\ t = 0  BY <2>4, <2>5, <2>6, <2>7, <1>1, <1>4
    <3>2. Countdown = w - t  BY <3>1, <1>1 DEF Countdown, Write, w
    <3> QED  BY <3>1, <3>2, <1>1, <1>4 DEF Write, w, t
  <2>8. CASE s # w - 1
    <3>1. since_last_write \in 2 .. w /\ t # 0
      BY <2>4, <2>5, <2>6, <2>8, <1>1, <1>4
    <3>2. since_last_write - 1 \in 0 .. SizeMod - 1  BY <3>1, <1>1
    <3>3. (since_last_write - 1) % SizeMod = since_last_write - 1
      BY <3>2, <1>1, SMT
    <3>4. Countdown = w - t
      BY <3>1, <3>3, <2>4, <2>5, <2>6, <2>8, <1>1 DEF Countdown, Write
    <3>5. w - t \in 0 .. SizeMod - 1  BY <2>4, <2>5, <2>8, <1>1
    <3> QED  BY <3>1, <3>4, <3>5, <1>4 DEF Write, w, t
  <2> QED  BY <2>7, <2>8
<1> QED  BY <1>3, <1>4

(***************************************************************************)
(* What an access preserves, given the position it is made at.             *)
(***************************************************************************)
LEMMA AccessInv ==
    ASSUME IInv, pc = "run", N < Turns,
           NEW i \in Nat, Access(i), since_last_write' = Countdown,
           UNCHANGED <<config, max_length>>,
           current' \in 0 .. SizeMod - 1,
           CASE config.pattern = "scan"    -> i = N
             [] config.pattern = "reverse" -> i = SequenceLength - N
             [] config.pattern = "random"  -> i \in 0 .. max_length - 1,
           Position'
    PROVE  IInv'
<1> DEFINE a == [index |-> i, write |-> Write]
<1>0. N <= SequenceLength  BY LengthFacts DEF IInv, Turns
<1>1. a \in [index : Nat, write : BOOLEAN]  BY DEF Write
<1>2. /\ accesses' = Append(accesses, a)
      /\ pc' \in {"run", "crashed"}
  BY DEF Access
<1>3. accesses \in Seq([index : Nat, write : BOOLEAN])  BY DEF IInv, TypeOK
<1>4. N \in Nat /\ N' = N + 1  BY <1>1, <1>2, <1>3 DEF N
<1>5. SequenceLength' = SequenceLength  BY DEF SequenceLength
<1>6. \A j \in 1 .. N + 1 : accesses'[j] = IF j = N + 1 THEN a ELSE accesses[j]
  BY <1>1, <1>2, <1>3 DEF N
<1>7. TypeOK'
  BY <1>0, <1>1, <1>2, <1>3, CountStep DEF IInv, TypeOK
<1>8. Counter'
  BY <1>0, <1>4, CountStep DEF Counter
<1>9. Trail'
  <2> SUFFICES ASSUME NEW j \in 1 .. N + 1
      PROVE CASE config.pattern = "scan"    -> accesses'[j].index = j - 1
              [] config.pattern = "reverse" -> accesses'[j].index = SequenceLength + 1 - j
              [] config.pattern = "random"  -> accesses'[j].index \in 0 .. max_length - 1
    BY <1>4, <1>5 DEF Trail
  <2>1. config.pattern \in Patterns /\ SequenceLength \in Nat
    BY LengthFacts DEF IInv
  <2>2. CASE j = N + 1
    <3>1. accesses'[j].index = i  BY <2>2, <1>4, <1>6
    <3>2. j - 1 = N /\ SequenceLength + 1 - j = SequenceLength - N
      BY <2>1, <2>2, <1>4
    <3> QED  BY <2>1, <3>1, <3>2 DEF Patterns
  <2>3. CASE j # N + 1
    <3>1. j \in 1 .. N /\ accesses'[j] = accesses[j]  BY <2>3, <1>4, <1>6
    <3> QED  BY <3>1, <2>1 DEF IInv, Trail, Patterns
  <2> QED  BY <2>2, <2>3
<1>10. Total'
  <2>1. Turns' = Turns  BY <1>5 DEF Turns
  <2> QED  BY <1>2, <1>4, <2>1, LengthFacts DEF IInv, Total, Turns
<1>11. WritesAtRate'
  <2> SUFFICES ASSUME NEW j \in 1 .. N + 1
      PROVE accesses'[j].write <=> config.writes # 0 /\ j % config.writes = 0
    BY <1>4 DEF WritesAtRate, N
  <2>1. CASE j = N + 1
    <3>1. accesses'[j].write = Write  BY <2>1, <1>4, <1>6
    <3> QED  BY <3>1, <2>1, <1>0, CountStep
  <2>2. CASE j # N + 1
    <3>1. j \in 1 .. Len(accesses) /\ accesses'[j] = accesses[j]
      BY <2>2, <1>4, <1>6 DEF N
    <3> QED  BY <3>1 DEF IInv, WritesAtRate
  <2> QED  BY <2>1, <2>2
<1> QED  BY <1>7, <1>8, <1>9, <1>10, <1>11 DEF IInv

(* What the last call of next preserves. *)
LEMMA EndInv ==
    ASSUME IInv, pc = "run", End, UNCHANGED <<config, max_length>>,
           since_last_write' \in 0 .. SizeMod - 1,
           current' \in 0 .. SizeMod - 1,
           N = Turns
    PROVE  IInv'
<1>1. N' = N /\ SequenceLength' = SequenceLength  BY DEF End, N, SequenceLength
<1>2. TypeOK'  BY DEF End, IInv, TypeOK
<1>3. Position' /\ Counter'  BY DEF End, Position, Counter
<1>4. Trail'  BY <1>1 DEF IInv, Trail, End
<1>5. Total'
  <2>1. Turns' = Turns  BY <1>1 DEF Turns
  <2> QED  BY <1>1, <2>1, LengthFacts DEF IInv, Total, Turns
<1>6. WritesAtRate'  BY DEF IInv, WritesAtRate, End
<1> QED  BY <1>2, <1>3, <1>4, <1>5, <1>6 DEF IInv

(* The counter stays a size_t. *)
LEMMA CountdownType ==
    ASSUME TypeOK PROVE Countdown \in 0 .. SizeMod - 1
<1>1. config.writes \in 0 .. SizeMod - 1 /\ SizeMod \in Nat /\ SizeMod > 0
  BY LengthFacts
<1>2. since_last_write \in 0 .. SizeMod - 1  BY DEF TypeOK
<1>3. (since_last_write - 1) % SizeMod \in 0 .. SizeMod - 1  BY <1>1, <1>2, SMT
<1> QED  BY <1>1, <1>3 DEF Countdown

LEMMA ScanInv == ASSUME IInv, Scan PROVE IInv'
<1>1. /\ pc = "run" /\ config.pattern = "scan"
      /\ since_last_write' = Countdown
      /\ UNCHANGED <<config, max_length>>
      /\ current' = current + 1
  BY DEF Scan, Turn
<1>2. current = N /\ N <= SequenceLength  BY <1>1 DEF IInv, Position
<1>3. /\ SequenceLength \in Nat /\ SequenceLength + 2 <= SizeMod
      /\ N \in Nat /\ SizeMod \in Nat
  BY LengthFacts DEF IInv
<1>4. current' \in 0 .. SizeMod - 1  BY <1>1, <1>2, <1>3
<1>5. CASE current < SequenceLength
  <2>1. Access(N)  BY <1>5, <1>2 DEF Scan
  <2>2. N' = N + 1
    BY <2>1 DEF Access, N, IInv, TypeOK
  <2>3. Position'
    BY <2>2, <1>1, <1>2, <1>3, <1>5 DEF Position, SequenceLength
  <2> QED  BY <2>1, <2>3, <1>1, <1>2, <1>3, <1>4, <1>5, AccessInv DEF Turns
<1>6. CASE ~(current < SequenceLength)
  <2>1. End /\ N = SequenceLength  BY <1>6, <1>2, <1>3 DEF Scan
  <2> QED  BY <2>1, <1>1, <1>4, EndInv, CountdownType DEF IInv, Turns
<1> QED  BY <1>5, <1>6

LEMMA ReverseInv == ASSUME IInv, Reverse PROVE IInv'
<1>1. /\ pc = "run" /\ config.pattern = "reverse"
      /\ since_last_write' = Countdown
      /\ UNCHANGED <<config, max_length>>
      /\ current' = (current - 1) % SizeMod
  BY DEF Reverse, Turn
<1>2. current = SequenceLength + 1 - N /\ N <= SequenceLength + 1
  BY <1>1 DEF IInv, Position
<1>3. /\ SequenceLength \in Nat /\ SequenceLength + 2 <= SizeMod
      /\ N \in Nat /\ SizeMod \in Nat
  BY LengthFacts DEF IInv
<1>4. current' \in 0 .. SizeMod - 1
  <2>1. current - 1 \in Int  BY <1>2, <1>3
  <2> QED  BY <2>1, <1>1, <1>3, SMT
<1>5. CASE current > 0
  <2>1. current - 1 \in 0 .. SizeMod - 1  BY <1>5, <1>2, <1>3
  <2>2. current' = current - 1  BY <2>1, <1>1, <1>3, SMT
  <2>3. Access(SequenceLength - N) /\ SequenceLength - N \in Nat
    <3>1. Access(current')  BY <1>5 DEF Reverse
    <3>2. current' = SequenceLength - N  BY <2>2, <1>2, <1>3
    <3> QED  BY <3>1, <3>2, <2>1, <2>2
  <2>4. N' = N + 1
    BY <2>3 DEF Access, N, IInv, TypeOK
  <2>5. Position'
    BY <2>2, <2>3, <2>4, <1>1, <1>2, <1>3 DEF Position, SequenceLength
  <2> QED  BY <2>3, <2>5, <1>1, <1>2, <1>3, <1>4, AccessInv DEF Turns
<1>6. CASE ~(current > 0)
  <2>1. End /\ N = SequenceLength + 1  BY <1>6, <1>2, <1>3 DEF Reverse
  <2> QED  BY <2>1, <1>1, <1>4, EndInv, CountdownType DEF IInv, Turns
<1> QED  BY <1>5, <1>6

LEMMA RandomInv == ASSUME IInv, Random PROVE IInv'
<1>1. /\ pc = "run" /\ config.pattern = "random"
      /\ since_last_write' = Countdown
      /\ UNCHANGED <<config, max_length>>
      /\ current' = current + 1
  BY DEF Random, Turn
<1>2. current = N /\ N <= SequenceLength  BY <1>1 DEF IInv, Position
<1>3. /\ SequenceLength \in Nat /\ SequenceLength + 2 <= SizeMod
      /\ N \in Nat /\ SizeMod \in Nat /\ max_length \in Nat
  BY LengthFacts DEF IInv
<1>4. current' \in 0 .. SizeMod - 1  BY <1>1, <1>2, <1>3
<1>5. CASE current < SequenceLength
  <2>1. PICK i \in 0 .. max_length - 1 : Access(i)  BY <1>5 DEF Random
  <2>2. N' = N + 1
    BY <2>1 DEF Access, N, IInv, TypeOK
  <2>3. Position'
    BY <2>2, <1>1, <1>2, <1>3, <1>5 DEF Position, SequenceLength
  <2>4. i \in Nat /\ N < Turns
    BY <1>1, <1>2, <1>3, <1>5 DEF Turns
  <2> QED  BY <2>1, <2>3, <2>4, <1>1, <1>4, AccessInv DEF Turns
<1>6. CASE ~(current < SequenceLength)
  <2>1. End /\ N = SequenceLength  BY <1>6, <1>2, <1>3 DEF Random
  <2> QED  BY <2>1, <1>1, <1>4, EndInv, CountdownType DEF IInv, Turns
<1> QED  BY <1>5, <1>6

(* A step that leaves everything but pc alone, and does not start a run. *)
LEMMA RestInv ==
    ASSUME IInv, \/ RandomOfNothing
                 \/ UNCHANGED vars
    PROVE  IInv'
<1>1. CASE RandomOfNothing
  <2>1. N' = N /\ SequenceLength' = SequenceLength /\ pc' = "crashed"
    BY <1>1 DEF RandomOfNothing, N, SequenceLength
  <2>2. TypeOK' /\ WritesAtRate'
    BY <1>1 DEF RandomOfNothing, IInv, TypeOK, WritesAtRate
  <2>3. Position' /\ Counter' /\ Trail' /\ Total'
    BY <1>1, <2>1 DEF RandomOfNothing, IInv, Position, Counter, Trail, Total, Turns
  <2> QED  BY <2>2, <2>3 DEF IInv
<1>2. CASE UNCHANGED vars
  BY <1>2 DEF vars, IInv, TypeOK, Position, Counter, Trail, Total, Turns,
              WritesAtRate, N, SequenceLength
<1> QED  BY <1>1, <1>2

LEMMA NextInv == IInv /\ [Next]_vars => IInv'
<1> SUFFICES ASSUME IInv, [Next]_vars PROVE IInv'  OBVIOUS
<1>1. CASE Scan  BY <1>1, ScanInv
<1>2. CASE Reverse  BY <1>2, ReverseInv
<1>3. CASE Random  BY <1>3, RandomInv
<1>4. CASE RandomOfNothing  BY <1>4, RestInv
<1>5. CASE Stopped  BY <1>5, RestInv DEF Stopped
<1>6. CASE UNCHANGED vars  BY <1>6, RestInv
<1> QED  BY <1>1, <1>2, <1>3, <1>4, <1>5, <1>6 DEF Next

(* The invariant holds in every state of every run (src/bench.c:58-122). *)
THEOREM Invariance == Spec => []IInv
<1>1. Init => IInv  BY InitInv
<1>2. IInv /\ [Next]_vars => IInv'  BY NextInv
<1> QED  BY <1>1, <1>2, PTL DEF Spec

-----------------------------------------------------------------------------
(* Every variable keeps its type. *)
THEOREM TypeCorrect == Spec => []TypeOK
<1>1. IInv => TypeOK  BY DEF IInv
<1> QED  BY <1>1, Invariance, PTL

(* Whatever the object's length and the sample, only the first access of a *)
(* reverse run over the whole object lies outside it.                      *)
THEOREM BoundsCorrect == Spec => []OnlyReverseStartsOutside
<1>1. IInv => OnlyReverseStartsOutside
  <2> SUFFICES ASSUME IInv, NEW i \in 1 .. Len(accesses),
                      accesses[i].index >= max_length
               PROVE  /\ config.pattern = "reverse"
                      /\ i = 1
                      /\ accesses[i].index = max_length
    BY DEF OnlyReverseStartsOutside
  <2>1. /\ SequenceLength \in Nat /\ max_length \in Nat
        /\ SequenceLength <= max_length /\ N \in Nat
        /\ config.pattern \in Patterns
    BY LengthFacts DEF IInv
  <2>2. i \in 1 .. N  BY DEF N
  <2>3. CASE config.pattern = "scan"
    <3>1. accesses[i].index = i - 1  BY <2>2, <2>3 DEF IInv, Trail
    <3>2. N <= SequenceLength  BY <2>3 DEF IInv, Total, Turns
    <3> QED  BY <3>1, <3>2, <2>1, <2>2
  <2>4. CASE config.pattern = "reverse"
    <3>1. accesses[i].index = SequenceLength + 1 - i  BY <2>2, <2>4 DEF IInv, Trail
    <3> QED  BY <3>1, <2>1, <2>2, <2>4
  <2>5. CASE config.pattern = "random"
    <3>1. accesses[i].index \in 0 .. max_length - 1
      BY <2>2, <2>5 DEF IInv, Trail
    <3> QED  BY <3>1, <2>1
  <2> QED  BY <2>1, <2>3, <2>4, <2>5 DEF Patterns
<1> QED  BY <1>1, Invariance, PTL

(* A completed scan or reverse run has touched the whole sample, and no    *)
(* element twice; every run made as many accesses as it was to make.       *)
THEOREM CoverageCorrect == Spec => []SampleCovered
<1>1. IInv => SampleCovered
  <2> SUFFICES ASSUME IInv, pc = "done", config.pattern # "random" PROVE
        /\ 0 .. SequenceLength - 1 \subseteq Visited
        /\ \A i, j \in 1 .. Len(accesses) :
              i # j => accesses[i].index # accesses[j].index
    BY DEF SampleCovered, IInv, Total, N
  <2>1. SequenceLength \in Nat /\ N \in Nat /\ config.pattern \in Patterns
    BY LengthFacts DEF IInv
  <2>2. CASE config.pattern = "scan"
    <3>1. N = SequenceLength  BY <2>2 DEF IInv, Total, Turns
    <3>2. \A i \in 1 .. N : accesses[i].index = i - 1  BY <2>2 DEF IInv, Trail
    <3>3. ASSUME NEW x \in 0 .. SequenceLength - 1 PROVE x \in Visited
      <4>1. x + 1 \in 1 .. N /\ accesses[x + 1].index = x  BY <3>1, <3>2, <2>1
      <4> QED  BY <4>1 DEF Visited, N
    <3> QED  BY <3>2, <3>3, <2>1, <2>2 DEF N
  <2>3. CASE config.pattern = "reverse"
    <3>1. N = SequenceLength + 1  BY <2>3 DEF IInv, Total, Turns
    <3>2. \A i \in 1 .. N : accesses[i].index = SequenceLength + 1 - i
      BY <2>3 DEF IInv, Trail
    <3>3. ASSUME NEW x \in 0 .. SequenceLength - 1 PROVE x \in Visited
      <4>1. /\ SequenceLength + 1 - x \in 1 .. N
            /\ accesses[SequenceLength + 1 - x].index = x
        BY <3>1, <3>2, <2>1
      <4> QED  BY <4>1 DEF Visited, N
    <3> QED  BY <3>2, <3>3, <2>1, <2>3 DEF N
  <2> QED  BY <2>1, <2>2, <2>3 DEF Patterns
<1> QED  BY <1>1, Invariance, PTL

(* Writes come exactly at every multiple of --writes, and never with 0. *)
THEOREM WriteRateCorrect == Spec => []WritesAtRate
<1>1. IInv => WritesAtRate  BY DEF IInv
<1> QED  BY <1>1, Invariance, PTL
=============================================================================
