---------------------------- MODULE MCBZipParse ----------------------------
(***************************************************************************)
(* Small files for BZipParse.  A file is laid out from the payload lengths *)
(* (in bits, what follows the block magic) of the blocks of its streams.   *)
(***************************************************************************)
EXTENDS BZipParse, SequencesExt, FiniteSetsExt

(* Appends one magic after a gap of so many bits. *)
AddMark(l, gap, what) ==
    [size |-> l.size + gap + 48,
     mark |-> Append(l.mark, l.size + gap + 48),
     kind |-> Append(l.kind, what)]

AddBits(l, bits) == [l EXCEPT !.size = @ + bits]

Empty == [size |-> 0, mark |-> <<>>, kind |-> <<>>]

(* A stream header, the blocks, the footer, its CRC and its padding. *)
AddStream(l, payloads) ==
    LET body == FoldLeft(LAMBDA acc, p : AddBits(AddMark(acc, 0, "block"), p),
                         AddBits(l, 32), payloads)
        foot == AddBits(AddMark(body, 0, "end"), 32)
    IN  [foot EXCEPT !.size = AlignUp(@)]

Layout(streams) == FoldLeft(AddStream, Empty, streams)

(* The first bytes of a file: only the magics that are complete survive. *)
Cut(l, bytes) ==
    LET n == Quantify(1 .. Len(l.mark), LAMBDA i : l.mark[i] <= 8 * bytes)
    IN  [size |-> 8 * bytes,
         mark |-> SubSeq(l.mark, 1, n),
         kind |-> SubSeq(l.kind, 1, n)]

Cuts(l) == {Cut(l, b) : b \in 0 .. l.size \div 8}

(* One block with each padding, two blocks, and concatenated streams. *)
IntactFiles ==
    {Layout(<<<<131 + r>>>>) : r \in 0 .. 7}
      \cup {Layout(s) : s \in {<<<<>>>>, <<<<131, 150>>>>, <<<<>>, <<133>>>>,
                               <<<<131>>, <<134>>>>, <<<<131>>, <<>>>>}}

(* As many blocks as MaxBlocks, and a footer. *)
FullFile == {Layout(<<<<131, 131, 131, 131>>>>)}

(* MaxBlocks - 1, MaxBlocks and MaxBlocks + 1 magics, and more. *)
ManyBlocks ==
    {Layout(<<<<131, 132, 133>>>>), Layout(<<<<131, 131>>, <<131>>>>)} \cup FullFile

(* Damaged files: magics next to each other or overlapping, a short block. *)
Damaged ==
    {[size |-> 400, mark |-> m, kind |-> [i \in DOMAIN m |-> "block"]] :
        m \in {<<80, 126, 360>>, <<80, 128, 176, 306>>, <<46, 95, 273, 400>>,
               <<361>>, <<360>>}}

MCFiles == IntactFiles \cup ManyBlocks \cup Damaged
             \cup Cuts(Layout(<<<<131, 135>>>>))

MCGarbage == {0, 1000}
=============================================================================
