--------------------------- MODULE BenchSequence ---------------------------
(***************************************************************************)
(* The execution phase of the benchmark driver (src/bench.c): one of three *)
(* index iterators hands out positions of an object, each to be read or    *)
(* written, until it says it is at its end.  The loop is the same for all  *)
(* six benchmarks, which differ only in the type of an element.            *)
(***************************************************************************)
EXTENDS Integers, Sequences

CONSTANTS
    MaxLengths,   \* what max_length may answer for the object
    SampleSizes,  \* --sample-size
    WriteRates,   \* --writes
    SizeMod       \* size_t wraps around at this value (2^64 in the program)

ASSUME SizesAssumption ==
    /\ SizeMod \in Nat
    /\ MaxLengths \subseteq 0 .. SizeMod - 2
    /\ SampleSizes \subseteq 0 .. SizeMod - 1
    /\ WriteRates \subseteq 0 .. SizeMod - 1

Patterns == {"scan", "reverse", "random"}

VARIABLES
    config,            \* the arguments that matter here
    max_length,        \* max_sequence_length, the elements of the object
    current,           \* sequence->current (->generated for random)
    since_last_write,  \* sequence->since_last_write
    accesses,          \* history: what was accessed, in order
    pc                 \* "run", "done", "crashed"

vars == <<config, max_length, current, since_last_write, accesses, pc>>

(* Mutant of LengthOf: the sample may be longer than the object. *)
LengthOf_Unlimited(c, n) == IF c.sample_size # 0 THEN c.sample_size ELSE n

(* sequence_length, for one configuration and one object. *)
LengthOf(c, n) ==
    IF c.sample_size # 0 /\ n > c.sample_size THEN c.sample_size ELSE n

SequenceLength == LengthOf(config, max_length)

(* Mutant of First: elements are counted from one. *)
First_One(c, n) == IF c.pattern = "reverse" THEN LengthOf(c, n) + 1 ELSE 1

(* Where the iterator that main allocates for the pattern starts. *)
First(c, n) == IF c.pattern = "reverse" THEN LengthOf(c, n) + 1 ELSE 0

Init ==
    /\ config \in [pattern : Patterns, sample_size : SampleSizes, writes : WriteRates]
    /\ max_length \in MaxLengths
    /\ current = First(config, max_length)
    /\ since_last_write = config.writes
    /\ accesses = <<>>
    /\ pc = "run"

-----------------------------------------------------------------------------
(* The write flag, and the counter behind it, that all iterators share. *)
Write == since_last_write = 1

(* Mutants of Countdown: a signed counter, and one that is reset to one    *)
(* less, as if the access that resets it were counted.                     *)
Countdown_Signed == IF Write THEN config.writes ELSE since_last_write - 1
Countdown_ResetLow ==
    IF Write THEN config.writes - 1 ELSE (since_last_write - 1) % SizeMod

Countdown == IF Write THEN config.writes ELSE (since_last_write - 1) % SizeMod

(* One call of next: it counts down even when it answers "end". *)
Turn(pattern) ==
    /\ pc = "run"
    /\ config.pattern = pattern
    /\ since_last_write' = Countdown
    /\ UNCHANGED <<config, max_length>>

(* The loop's read or write.  Past the object, the process may be killed. *)
Access(i) ==
    /\ accesses' = Append(accesses, [index |-> i, write |-> Write])
    /\ pc' \in IF i < max_length THEN {"run"} ELSE {"run", "crashed"}

End == pc' = "done" /\ UNCHANGED accesses

Scan ==
    /\ Turn("scan")
    /\ current' = current + 1
    /\ IF current < SequenceLength THEN Access(current) ELSE End

(* The end is tested before, and the position taken after, the decrement. *)
Reverse ==
    /\ Turn("reverse")
    /\ current' = (current - 1) % SizeMod
    /\ IF current > 0 THEN Access(current') ELSE End

(* An index is drawn even when the end has been reached. *)
Random ==
    /\ Turn("random")
    /\ max_length > 0
    /\ current' = current + 1
    /\ IF current < SequenceLength
         THEN \E i \in 0 .. max_length - 1 : Access(i)
         ELSE End

(* Mutant of RandomOfNothing: indexes are drawn until one is low enough. *)
RandomOfNothing_Redrawn ==
    pc = "run" /\ config.pattern = "random" /\ max_length = 0 /\ UNCHANGED vars

(* random_index(0) is a division by zero. *)
RandomOfNothing ==
    /\ pc = "run"
    /\ config.pattern = "random"
    /\ max_length = 0
    /\ pc' = "crashed"
    /\ UNCHANGED <<config, max_length, current, since_last_write, accesses>>

Stopped == pc # "run" /\ UNCHANGED vars

Next == Scan \/ Reverse \/ Random \/ RandomOfNothing \/ Stopped

Spec == Init /\ [][Next]_vars /\ WF_vars(Next)

-----------------------------------------------------------------------------
Visited == {accesses[i].index : i \in 1 .. Len(accesses)}

(* Every variable holds a value of its C type and phase. *)
TypeOK ==
    /\ config \in [pattern : Patterns, sample_size : SampleSizes, writes : WriteRates]
    /\ max_length \in MaxLengths
    /\ current \in 0 .. SizeMod - 1
    /\ since_last_write \in 0 .. SizeMod - 1
    /\ accesses \in Seq([index : Nat, write : BOOLEAN])
    /\ pc \in {"run", "done", "crashed"}

(***************************************************************************)
(* An access outside the object can only be the first one of a reverse     *)
(* run over the whole of it (which starts one element too far).            *)
(***************************************************************************)
OnlyReverseStartsOutside ==
    \A i \in 1 .. Len(accesses) :
        accesses[i].index >= max_length =>
            /\ config.pattern = "reverse"
            /\ i = 1
            /\ accesses[i].index = max_length

(* An iterator in reverse hands out one element more than it was given. *)
Turns == IF config.pattern = "reverse" THEN SequenceLength + 1 ELSE SequenceLength

(***************************************************************************)
(* A completed scan or reverse run has touched every element of the sample *)
(* and no element twice; a random one has drawn as many as were asked for. *)
(* No run makes another access, but for the one that a reverse run makes   *)
(* past the sample to begin with, although bench.c:290 has --sample-size   *)
(* be "how many elements to read from vector".                             *)
(***************************************************************************)
SampleCovered ==
    pc = "done" =>
        /\ Len(accesses) = Turns
        /\ config.pattern # "random" =>
              /\ 0 .. SequenceLength - 1 \subseteq Visited
              /\ \A i, j \in 1 .. Len(accesses) :
                     i # j => accesses[i].index # accesses[j].index

(***************************************************************************)
(* Writes come at a fixed rate, whatever the pattern, and with --writes 0  *)
(* there is none although the counter starts by wrapping around below      *)
(* zero.  This is not the rate of bench.c:291, "one write will occur once  *)
(* for every N%% reads": each write is itself one of the N accesses, so it *)
(* comes after N - 1 reads, and with --writes 1 nothing is read.           *)
(***************************************************************************)
WritesAtRate ==
    \A i \in 1 .. Len(accesses) :
        accesses[i].write <=> config.writes # 0 /\ i % config.writes = 0

(* Every execution ends. *)
ExecutionEnds == <>(pc # "run")

=============================================================================
