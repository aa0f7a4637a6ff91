---------------------------- MODULE MCBZipBlock ----------------------------
(***************************************************************************)
(* Blocks at every bit alignment and of every length modulo 8, in files    *)
(* that are whole, in one that was cut at each of its bytes, and at the    *)
(* very start of a file that has no stream header.                         *)
(***************************************************************************)
EXTENDS BZipBlock

(* The footer, its CRC and the padding follow the block. *)
FileBytes(to) == (to + 1 + 48 + 32 + 7) \div 8

Job(header, from, payload, bytes) ==
    [header |-> header, from |-> from, to |-> from + payload - 1, bytes |-> bytes]

Whole(header, from, payload) ==
    Job(header, from, payload, FileBytes(from + payload - 1))

(* The first block of a file starts at bit 80. *)
MCJobs ==
    {Whole(80, 80, p) : p \in 131 .. 138}
      \cup {Whole(80, f, p) : f \in 259 .. 266, p \in {131, 134, 136}}
      \cup {Job(80, 261, 133, b) : b \in 0 .. FileBytes(393) - 1}
      \cup {Whole(f, f, p) : f \in 48 .. 56, p \in {131, 136}}

(* An empty stream in front moves the first block to bit 192. *)
EmptyStreamFirst == {Whole(192, 192, p) : p \in 131 .. 138}
=============================================================================
